---------------------- MODULE ConfidentialLock_proofs ----------------------
(***************************************************************************)
(* Theorems about ConfidentialLock, for any number of slots, stacks,       *)
(* errors and crashes and any sizes: every unit locked in a row belongs to *)
(* one lock, one request or one release, or is stranded; and no more is    *)
(* promised than a stack has.                                              *)
(***************************************************************************)
EXTENDS ConfidentialLock, SumTheorems, SequenceTheorems

-----------------------------------------------------------------------------
(* The invariant.                                                          *)

Events == [op : Ops, k : Slots, s : Stacks \cup {NoStack}, used : Nat]

(* The labels of a slot that waits for the state manager, that has units   *)
(* locked for it, and that has no stack.                                   *)
Waits == {"selecting", "storing", "releasing"}
Owes == {"selected", "held", "stored", "releasing", "running"}
Without == {"idle", "selecting", "no_stack", "buying"}

(* An event agrees with the slot that it is about. *)
Fits(e) ==
  /\ e.op = "SelectNodePublicKeyForEncryption" => pc[e.k] = "selecting"
  /\ e.op = "NewStackAcquired" => pc[e.k] = "storing" /\ stack[e.k] = e.s
  /\ e.op = "UpdateStackNumTokens" => pc[e.k] = "releasing" /\ stack[e.k] = e.s
  /\ e.op = "LockStack" => e.s \in rows

(* A slot has one event in the channel, but for LockStack: a lock that is  *)
(* released twice would give back units of another one.                    *)
ChannelOK ==
  /\ queue \in Seq(Events)
  /\ \A i \in 1 .. Len(queue) : Fits(queue[i])
  /\ \A i, j \in 1 .. Len(queue) :
       queue[i].op # "LockStack" /\ queue[j].op # "LockStack" /\ queue[i].k = queue[j].k => i = j

(* The stack of a slot has a row, or is about to get one from the only     *)
(* slot that buys.                                                         *)
SlotsOK ==
  /\ \A k \in Slots : /\ pc[k] \in Without => stack[k] = NoStack
                      /\ pc[k] \in Owes => stack[k] \in rows
                      /\ pc[k] = "storing" => stack[k] \in (1 .. bought) \ rows
  /\ \A l \in Locks : pc[l] \in {"buying", "storing"} <=> buyer = l
  /\ \A q \in Requests : pc[q] \in {"idle", "running", "releasing"}

(* A stack without a row has no units yet. *)
FreshOK == \A s \in Stacks \ rows : computed[s] = 0 /\ locked[s] = 0 /\ stranded[s] = 0

(* What is owed is what is locked and not stranded, for every stack. *)
Owing == \A s \in Stacks : IsSum(locked[s] - stranded[s], Owed, OfStack(s))

(* The CHECK of the table. *)
Capacity == \A s \in Stacks : computed[s] + locked[s] <= StackSize

LocksInv == TypeOK /\ ChannelOK /\ SlotsOK /\ FreshOK /\ Owing /\ Capacity

(* What is stranded may be negative by what was promised from memory and   *)
(* was never locked in the row.                                            *)
Backed == \A s \in Stacks : stranded[s] + unbacked[s] >= 0

-----------------------------------------------------------------------------
(* The channel.                                                            *)

(* The step leaves the slot j alone. *)
Same(j) == pc'[j] = pc[j] /\ stack'[j] = stack[j] /\ units'[j] = units[j]

LEMMA FitsStay ==
  ASSUME NEW e \in Events, Fits(e), rows \subseteq rows', e.op # "LockStack" => Same(e.k)
  PROVE  Fits(e)'
  BY DEF Fits, Same

(* A slot that has an event in the channel waits. *)
LEMMA FitsWaits ==
  ASSUME NEW e \in Events, Fits(e), e.op # "LockStack" PROVE e.k \in Slots /\ pc[e.k] \in Waits
  BY DEF Fits, Events, Ops, Waits

(* Events of slots that did not wait are sent. *)
LEMMA Enqueue ==
  ASSUME ChannelOK, rows \subseteq rows', \A j \in Slots : pc[j] \in Waits => Same(j),
         NEW es \in Seq(Events), queue' = queue \o es,
         \A i \in 1 .. Len(es) : /\ Fits(es[i])'
                                 /\ es[i].op # "LockStack" => pc[es[i].k] \notin Waits,
         \A i, j \in 1 .. Len(es) :
           es[i].op # "LockStack" /\ es[j].op # "LockStack" /\ es[i].k = es[j].k => i = j
  PROVE  ChannelOK'
<1>1. PICK m \in Nat, n \in Nat : m = Len(queue) /\ n = Len(es)
  BY DEF ChannelOK
<1>2. queue \in Seq(Events) /\ \A i \in 1 .. m : queue[i] \in Events
  BY <1>1 DEF ChannelOK
<1>3. queue' \in Seq(Events) /\ Len(queue') = m + n
  BY <1>1, <1>2
<1>4. \A i \in 1 .. m + n : \/ i \in 1 .. m /\ queue'[i] = queue[i]
                            \/ i - m \in 1 .. n /\ queue'[i] = es[i - m]
  BY <1>1, <1>2
<1>5. \A i \in 1 .. n : es[i] \in Events
  BY <1>1
<1>6. \A i \in 1 .. m : Fits(queue[i])
  BY <1>1 DEF ChannelOK
<1>7. \A i \in 1 .. m : queue[i].op # "LockStack" => queue[i].k \in Slots /\ pc[queue[i].k] \in Waits
  BY <1>2, <1>6, FitsWaits
<1>8. \A e \in Events : Fits(e) /\ (e.op # "LockStack" => pc[e.k] \in Waits /\ e.k \in Slots) => Fits(e)'
  BY FitsStay
<1>9. \A i \in 1 .. m + n : Fits(queue[i])'
  <2>1. ASSUME NEW i \in 1 .. m + n PROVE Fits(queue[i])'
    <3>1. CASE i \in 1 .. m /\ queue'[i] = queue[i]
      <4>1. PICK e \in Events : e = queue[i] /\ e = queue'[i]
        BY <1>2, <3>1
      <4>2. Fits(e)'
        BY <1>6, <1>7, <1>8, <3>1, <4>1
      <4>3. QED
        BY <4>1, <4>2 DEF Fits
    <3>2. CASE i - m \in 1 .. n /\ queue'[i] = es[i - m]
      <4>1. PICK e : e = es[i - m] /\ e = queue'[i]
        BY <3>2
      <4>2. Fits(e)'
        BY <1>1, <3>2, <4>1
      <4>3. QED
        BY <4>1, <4>2 DEF Fits
    <3>3. QED
      BY <1>4, <3>1, <3>2
  <2>2. QED
    BY <2>1
<1>10. ASSUME NEW i \in 1 .. m + n, NEW j \in 1 .. m + n,
              queue'[i].op # "LockStack", queue'[j].op # "LockStack", queue'[i].k = queue'[j].k
       PROVE  i = j
  <2>1. CASE i \in 1 .. m /\ queue'[i] = queue[i] /\ j \in 1 .. m /\ queue'[j] = queue[j]
    BY <1>1, <1>10, <2>1 DEF ChannelOK
  <2>2. CASE /\ i - m \in 1 .. n /\ queue'[i] = es[i - m]
             /\ j - m \in 1 .. n /\ queue'[j] = es[j - m]
    <3>1. i - m = j - m
      BY <1>1, <1>10, <2>2
    <3>2. QED
      BY <1>1, <3>1
  <2>3. CASE /\ i \in 1 .. m /\ queue'[i] = queue[i]
             /\ j - m \in 1 .. n /\ queue'[j] = es[j - m]
    BY <1>1, <1>7, <1>10, <2>3
  <2>4. CASE /\ j \in 1 .. m /\ queue'[j] = queue[j]
             /\ i - m \in 1 .. n /\ queue'[i] = es[i - m]
    BY <1>1, <1>7, <1>10, <2>4
  <2>5. QED
    BY <1>4, <2>1, <2>2, <2>3, <2>4
<1>11. QED
  BY <1>3, <1>9, <1>10 DEF ChannelOK

(* The first event is handled. *)
LEMMA Dequeue ==
  ASSUME ChannelOK, rows \subseteq rows', queue # <<>>, queue' = Tail(queue),
         \A j \in Slots : pc[j] \in Waits /\ (Head(queue).op # "LockStack" => j # Head(queue).k) => Same(j)
  PROVE  ChannelOK'
<1>1. PICK n \in Nat : n + 1 = Len(queue)
  <2>1. Len(queue) \in Nat /\ Len(queue) # 0
    BY DEF ChannelOK
  <2>2. Len(queue) - 1 \in Nat /\ (Len(queue) - 1) + 1 = Len(queue)
    BY <2>1
  <2>3. QED
    BY <2>2
<1>2. queue \in Seq(Events) /\ Head(queue) = queue[1] /\ \A i \in 1 .. n + 1 : queue[i] \in Events
  BY <1>1 DEF ChannelOK
<1>3. /\ queue' \in Seq(Events) /\ Len(queue') = n
      /\ \A i \in 1 .. n : queue'[i] = queue[i + 1] /\ i + 1 \in 1 .. n + 1 /\ i + 1 # 1
  BY <1>1, <1>2
<1>4. \A i \in 1 .. n + 1 : Fits(queue[i])
  BY <1>1 DEF ChannelOK
<1>5. \A i, j \in 1 .. n + 1 :
        queue[i].op # "LockStack" /\ queue[j].op # "LockStack" /\ queue[i].k = queue[j].k => i = j
  BY <1>1 DEF ChannelOK
<1>6. ASSUME NEW i \in 1 .. n PROVE Fits(queue[i])'
  <2>1. PICK e \in Events : e = queue[i + 1] /\ e = queue'[i]
    BY <1>2, <1>3
  <2>2. Fits(e)
    BY <1>3, <1>4, <2>1
  <2>3. e.op # "LockStack" /\ Head(queue).op # "LockStack" => e.k # Head(queue).k
    BY <1>1, <1>2, <1>3, <1>5, <2>1
  <2>4. e.op # "LockStack" => Same(e.k)
    BY <2>2, <2>3, FitsWaits
  <2>5. Fits(e)'
    BY <2>2, <2>4, FitsStay
  <2>6. QED
    BY <2>1, <2>5 DEF Fits
<1>7. \A i, j \in 1 .. n :
        queue'[i].op # "LockStack" /\ queue'[j].op # "LockStack" /\ queue'[i].k = queue'[j].k => i = j
  <2>1. ASSUME NEW i \in 1 .. n, NEW j \in 1 .. n,
               queue'[i].op # "LockStack", queue'[j].op # "LockStack", queue'[i].k = queue'[j].k
        PROVE  i = j
    <3>1. queue'[i] = queue[i + 1] /\ queue'[j] = queue[j + 1]
      BY <1>3
    <3>2. i + 1 = j + 1
      BY <1>3, <1>5, <2>1, <3>1
    <3>3. QED
      BY <3>2
  <2>2. QED
    BY <2>1
<1>8. QED
  BY <1>3, <1>6, <1>7 DEF ChannelOK

(* What is known of the first event. *)
LEMMA HeadFits ==
  ASSUME ChannelOK, queue # <<>>
  PROVE  Head(queue) \in Events /\ Fits(Head(queue))
<1>1. 1 \in 1 .. Len(queue) /\ Head(queue) = queue[1] /\ queue[1] \in Events
  BY DEF ChannelOK
<1>2. QED
  BY <1>1 DEF ChannelOK

(* The channel is left alone. *)
LEMMA ChannelStays ==
  ASSUME ChannelOK, rows \subseteq rows', \A j \in Slots : pc[j] \in Waits => Same(j), UNCHANGED queue
  PROVE  ChannelOK'
<1>1. <<>> \in Seq(Events) /\ queue' = queue \o <<>> /\ 1 .. Len(<<>>) = {}
  BY DEF ChannelOK
<1>2. QED
  BY <1>1, Enqueue

-----------------------------------------------------------------------------
(* What is owed.                                                           *)

LEMMA OwedIs ==
  ASSUME TypeOK, NEW k \in Slots
  PROVE  /\ pc[k] \in Owes \ {"stored"} => Owed[k] = units[k]
         /\ pc[k] = "stored" => Owed[k] = Default
         /\ pc[k] \notin Owes => Owed[k] = 0
         /\ Owed[k] \in Nat
<1>1. units[k] \in Nat /\ Default \in Nat
  BY UnitsAssumption DEF TypeOK
<1>2. QED
  BY <1>1 DEF Owed, Owes

LEMMA OwedIsNext ==
  ASSUME TypeOK', NEW k \in Slots
  PROVE  /\ pc'[k] \in Owes \ {"stored"} => Owed'[k] = units'[k]
         /\ pc'[k] = "stored" => Owed'[k] = Default
         /\ pc'[k] \notin Owes => Owed'[k] = 0
         /\ Owed'[k] \in Nat
<1>1. units'[k] \in Nat /\ Default \in Nat
  BY UnitsAssumption DEF TypeOK
<1>2. QED
  BY <1>1 DEF Owed, Owes

(* A slot that the step leaves alone, or whose lock is sent to be given    *)
(* back, owes what it owed.                                                *)
Pruned(j) == pc[j] = "held" /\ pc'[j] = "releasing" /\ stack'[j] = stack[j] /\ units'[j] = units[j]

LEMMA OwesTheSame ==
  ASSUME TypeOK, TypeOK', NEW j \in Slots, Same(j) \/ Pruned(j)
  PROVE  Owed'[j] = Owed[j] /\ stack'[j] = stack[j]
<1>1. CASE Same(j)
  <2>1. pc'[j] = pc[j] /\ units'[j] = units[j] /\ stack'[j] = stack[j]
    BY <1>1 DEF Same
  <2>2. QED
    BY <2>1 DEF Owed
<1>2. CASE Pruned(j)
  BY <1>2, OwedIs, OwedIsNext DEF Pruned, Owes
<1>3. QED
  BY <1>1, <1>2

(* One key changes its value, joins the set or leaves it. *)
LEMMA SumMoves ==
  ASSUME NEW f, NEW g, NEW A, NEW B, NEW k, NEW n, NEW m,
         IsSum(n, f, A), f[k] \in Nat, g[k] \in Nat,
         A \ {k} = B \ {k}, \A j \in A \ {k} : g[j] = f[j],
         k \in A /\ k \in B => m = n - f[k] + g[k],
         k \in A /\ k \notin B => m = n - f[k],
         k \notin A /\ k \in B => m = n + g[k],
         k \notin A /\ k \notin B => m = n
  PROVE  IsSum(m, g, B)
<1>1. PICK p : IsSum(p, g, A \ {k}) /\ (k \in A => p = n - f[k]) /\ (k \notin A => p = n)
  <2>1. CASE k \in A
    <3>1. IsSum(n - f[k], g, A \ {k})
      BY <2>1, SumLeave
    <3>2. QED
      BY <2>1, <3>1
  <2>2. CASE k \notin A
    <3>1. A \ {k} = A /\ \A j \in A : g[j] = f[j]
      BY <2>2
    <3>2. IsSum(n, g, A)
      BY <3>1, SumSame
    <3>3. QED
      BY <2>2, <3>1, <3>2
  <2>3. QED
    BY <2>1, <2>2
<1>2. CASE k \in B
  <2>1. IsSum(p + g[k], g, (B \ {k}) \cup {k}) /\ (B \ {k}) \cup {k} = B
    BY <1>1, <1>2, SumAdd
  <2>2. m = p + g[k]
    BY <1>1, <1>2
  <2>3. QED
    BY <2>1, <2>2
<1>3. CASE k \notin B
  <2>1. B \ {k} = B
    BY <1>3
  <2>2. m = p
    BY <1>1, <1>3
  <2>3. QED
    BY <1>1, <2>1, <2>2
<1>4. QED
  BY <1>2, <1>3

(* The step of one slot, for the sum of one stack. *)
LEMMA OwingMoves ==
  ASSUME TypeOK, TypeOK', NEW s \in Stacks, IsSum(locked[s] - stranded[s], Owed, OfStack(s)),
         NEW k \in Slots, \A j \in Slots \ {k} : Same(j) \/ Pruned(j), NEW d,
         d = locked'[s] - stranded'[s] - (locked[s] - stranded[s]),
         stack[k] = s /\ stack'[k] = s => d = Owed'[k] - Owed[k],
         stack[k] = s /\ stack'[k] # s => d = 0 - Owed[k],
         stack[k] # s /\ stack'[k] = s => d = Owed'[k],
         stack[k] # s /\ stack'[k] # s => d = 0
  PROVE  IsSum(locked'[s] - stranded'[s], Owed', OfStack(s)')
<1>1. /\ OfStack(s) = {j \in Slots : stack[j] = s}
      /\ OfStack(s)' = {j \in Slots : stack'[j] = s}
  BY DEF OfStack
<1>2. \A j \in Slots \ {k} : Owed'[j] = Owed[j] /\ stack'[j] = stack[j]
  BY OwesTheSame
<1>3. Owed[k] \in Nat /\ Owed'[k] \in Nat
  BY OwedIs, OwedIsNext
<1>4. PICK n \in Int, m \in Int : n = locked[s] - stranded[s] /\ m = locked'[s] - stranded'[s]
  <2>1. locked[s] \in Int /\ stranded[s] \in Int
    BY DEF TypeOK
  <2>2. locked'[s] \in Int /\ stranded'[s] \in Int
    BY DEF TypeOK
  <2>3. locked[s] - stranded[s] \in Int /\ locked'[s] - stranded'[s] \in Int
    BY <2>1, <2>2
  <2>4. QED
    BY <2>3
<1>5. d = m - n
  BY <1>4
<1>6. PICK f, g, A, B : f = Owed /\ g = Owed' /\ A = OfStack(s) /\ B = OfStack(s)'
  OBVIOUS
<1>7. IsSum(n, f, A) /\ f[k] \in Nat /\ g[k] \in Nat
  BY <1>3, <1>4, <1>6
<1>8. A \ {k} = B \ {k} /\ \A j \in A \ {k} : g[j] = f[j]
  BY <1>1, <1>2, <1>6
<1>9. (k \in A <=> stack[k] = s) /\ (k \in B <=> stack'[k] = s)
  BY <1>1, <1>6
<1>10. /\ k \in A /\ k \in B => m = n - f[k] + g[k]
       /\ k \in A /\ k \notin B => m = n - f[k]
       /\ k \notin A /\ k \in B => m = n + g[k]
       /\ k \notin A /\ k \notin B => m = n
  BY <1>3, <1>5, <1>6, <1>9
<1>11. IsSum(m, g, B)
  BY <1>7, <1>8, <1>10, SumMoves
<1>12. QED
  BY <1>4, <1>6, <1>11

-----------------------------------------------------------------------------
(* The step of one slot.                                                   *)

Labels == LockLabels \cup {"running"}

TableTypes ==
  /\ endpoint \in [Slots -> Endpoints \cup {NoEndpoint}]
  /\ buyer \in Locks \cup {NoLock} /\ bought \in 0 .. MaxStacks
  /\ rows \subseteq 1 .. bought /\ closed \subseteq rows
  /\ computed \in [Stacks -> Nat] /\ locked \in [Stacks -> Int]
  /\ stranded \in [Stacks -> Int] /\ unbacked \in [Stacks -> Nat]
  /\ errors \in 0 .. MaxErrors /\ crashes \in 0 .. MaxCrashes

Moves(k, lab, st, n) ==
  /\ pc' = [pc EXCEPT ![k] = lab]
  /\ stack' = [stack EXCEPT ![k] = st]
  /\ units' = [units EXCEPT ![k] = n]

LEMMA Tables == ASSUME TypeOK PROVE TableTypes
  BY DEF TypeOK, TableTypes

LEMMA RowsAreStacks == ASSUME TypeOK PROVE rows \subseteq Stacks
<1>1. bought \in Int /\ bought <= MaxStacks /\ MaxStacks \in Nat /\ rows \subseteq 1 .. bought
  BY BoundsAssumption DEF TypeOK
<1>2. QED
  BY <1>1 DEF Stacks

LEMMA Moved ==
  ASSUME TypeOK, NEW k \in Slots, NEW lab, NEW st, NEW n, Moves(k, lab, st, n)
  PROVE  /\ pc'[k] = lab /\ stack'[k] = st /\ units'[k] = n
         /\ \A j \in Slots \ {k} : Same(j)
  BY DEF TypeOK, Moves, Same

LEMMA MoveTypes ==
  ASSUME TypeOK, TableTypes', ChannelOK', NEW k \in Slots, NEW lab \in Labels,
         NEW st \in Stacks \cup {NoStack}, NEW n \in Nat, Moves(k, lab, st, n),
         UNCHANGED expired, pc[k] # "held"
  PROVE  TypeOK'
<1>1. pc' \in [Slots -> Labels] /\ stack' \in [Slots -> Stacks \cup {NoStack}] /\ units' \in [Slots -> Nat]
  BY DEF TypeOK, Moves, Labels
<1>2. expired' \subseteq Held'
  BY DEF TypeOK, Moves, Held, Slots
<1>3. queue' \in Seq(Events)
  BY DEF ChannelOK
<1>4. QED
  BY <1>1, <1>2, <1>3 DEF TypeOK, TableTypes, Labels, Events

(* The slot k moves, locks may be pruned, and k agrees with its stack and  *)
(* the buy lock afterwards.                                                *)
LEMMA MoveSlots ==
  ASSUME SlotsOK, NEW k \in Slots, \A j \in Slots \ {k} : Same(j) \/ Pruned(j),
         rows \subseteq rows', bought \in Nat, bought' \in Nat, bought <= bought',
         \A j \in Slots \ {k} : pc[j] = "storing" => stack[j] \notin rows',
         pc'[k] \in Without => stack'[k] = NoStack,
         pc'[k] \in Owes => stack'[k] \in rows',
         pc'[k] = "storing" => stack'[k] \in (1 .. bought') \ rows',
         \A l \in Locks \ {k} : buyer' = l <=> buyer = l,
         k \in Locks => (pc'[k] \in {"buying", "storing"} <=> buyer' = k),
         k \in Requests => pc'[k] \in {"idle", "running", "releasing"}
  PROVE  SlotsOK'
<1>1. ASSUME NEW j \in Slots
      PROVE  /\ pc'[j] \in Without => stack'[j] = NoStack
             /\ pc'[j] \in Owes => stack'[j] \in rows'
             /\ pc'[j] = "storing" => stack'[j] \in (1 .. bought') \ rows'
  <2>1. CASE j = k
    BY <2>1
  <2>2. CASE j # k /\ Same(j)
    BY <2>2 DEF Same, SlotsOK
  <2>3. CASE j # k /\ Pruned(j)
    BY <2>3 DEF Pruned, SlotsOK, Without, Owes
  <2>4. QED
    BY <2>1, <2>2, <2>3
<1>2. \A l \in Locks : pc'[l] \in {"buying", "storing"} <=> buyer' = l
  BY DEF SlotsOK, Same, Pruned, Slots
<1>3. \A q \in Requests : pc'[q] \in {"idle", "running", "releasing"}
  BY DEF SlotsOK, Same, Pruned, Slots
<1>4. QED
  BY <1>1, <1>2, <1>3 DEF SlotsOK

Ledger == FreshOK /\ Owing /\ Capacity

(* What the slot owes does not change. *)
LEMMA MoveFree ==
  ASSUME TypeOK, TypeOK', Ledger, UNCHANGED <<rows, computed, locked, stranded>>,
         NEW k \in Slots, \A j \in Slots \ {k} : Same(j) \/ Pruned(j),
         Owed'[k] = Owed[k], stack'[k] = stack[k] \/ Owed[k] = 0
  PROVE  Ledger'
<1>1. FreshOK' /\ Capacity'
  BY DEF Ledger, FreshOK, Capacity
<1>2. ASSUME NEW s \in Stacks PROVE IsSum(locked'[s] - stranded'[s], Owed', OfStack(s)')
  <2>1. locked[s] \in Int /\ stranded[s] \in Int /\ Owed[k] \in Nat
    BY OwedIs DEF TypeOK
  <2>2. locked'[s] - stranded'[s] - (locked[s] - stranded[s]) = 0
    BY <2>1
  <2>3. IsSum(locked[s] - stranded[s], Owed, OfStack(s))
    BY DEF Ledger, Owing
  <2>4. Owed'[k] - Owed[k] = 0 /\ 0 - 0 = 0
    BY <2>1
  <2>5. QED
    BY <2>1, <2>2, <2>3, <2>4, OwingMoves
<1>3. QED
  BY <1>1, <1>2 DEF Ledger, Owing

(* What the slot does not owe any more is stranded, or given back. *)
LEMMA MoveOwed ==
  ASSUME TypeOK, TypeOK', Ledger, rows' = rows,
         NEW k \in Slots, \A j \in Slots \ {k} : Same(j) \/ Pruned(j),
         NEW r \in rows, stack[k] = r \/ Owed[k] = 0, stack'[k] = r \/ Owed'[k] = 0,
         stack[k] \in {r, NoStack}, stack'[k] \in {r, NoStack},
         \A s \in Stacks \ {r} : computed'[s] = computed[s] /\ locked'[s] = locked[s]
                                 /\ stranded'[s] = stranded[s],
         locked'[r] - stranded'[r] = locked[r] - stranded[r] + Owed'[k] - Owed[k],
         computed'[r] + locked'[r] <= StackSize
  PROVE  Ledger'
<1>1. r \in Stacks /\ NoStack \notin Stacks
  BY RowsAreStacks DEF Stacks, NoStack
<1>2. FreshOK' /\ Capacity'
  BY DEF Ledger, FreshOK, Capacity
<1>3. ASSUME NEW s \in Stacks PROVE IsSum(locked'[s] - stranded'[s], Owed', OfStack(s)')
  <2>1. /\ locked[s] \in Int /\ stranded[s] \in Int /\ locked'[s] \in Int /\ stranded'[s] \in Int
        /\ Owed[k] \in Nat /\ Owed'[k] \in Nat
    BY OwedIs, OwedIsNext DEF TypeOK
  <2>2. PICK d \in Int : d = locked'[s] - stranded'[s] - (locked[s] - stranded[s])
    BY <2>1
  <2>3. IsSum(locked[s] - stranded[s], Owed, OfStack(s))
    BY DEF Ledger, Owing
  <2>4. CASE s = r
    <3>1. d = Owed'[k] - Owed[k]
      BY <2>1, <2>2, <2>4
    <3>2. /\ stack[k] = s /\ stack'[k] # s => d = 0 - Owed[k]
          /\ stack[k] # s /\ stack'[k] = s => d = Owed'[k]
          /\ stack[k] # s /\ stack'[k] # s => d = 0
      BY <2>1, <2>4, <3>1
    <3>3. QED
      BY <2>2, <2>3, <3>1, <3>2, OwingMoves
  <2>5. CASE s # r
    <3>1. d = 0
      BY <2>1, <2>2, <2>5
    <3>2. stack[k] # s /\ stack'[k] # s
      BY <1>1, <2>5
    <3>3. QED
      BY <2>2, <2>3, <3>1, <3>2, OwingMoves
  <2>6. QED
    BY <2>4, <2>5
<1>4. QED
  BY <1>2, <1>3 DEF Ledger, Owing

-----------------------------------------------------------------------------
(* The steps of a call for a lock.                                         *)

LEMMA EventIs ==
  ASSUME NEW o, NEW k, NEW s, NEW u
  PROVE  /\ Event(o, k, s, u).op = o /\ Event(o, k, s, u).k = k
         /\ Event(o, k, s, u).s = s /\ Event(o, k, s, u).used = u
  BY DEF Event

LEMMA EventTyped ==
  ASSUME NEW o \in Ops, NEW k \in Slots, NEW s \in Stacks \cup {NoStack}, NEW u \in Nat
  PROVE  Event(o, k, s, u) \in Events
  BY DEF Event, Events

(* One event of a slot that did not wait is sent. *)
LEMMA EnqueueOne ==
  ASSUME ChannelOK, rows \subseteq rows', \A j \in Slots : pc[j] \in Waits => Same(j),
         NEW e \in Events, queue' = Append(queue, e), Fits(e)',
         e.op # "LockStack" => pc[e.k] \notin Waits
  PROVE  ChannelOK'
<1>1. /\ queue' = queue \o <<e>> /\ <<e>> \in Seq(Events) /\ Len(<<e>>) = 1 /\ <<e>>[1] = e
      /\ \A i \in 1 .. 1 : i = 1
  BY DEF ChannelOK
<1>2. PICK es \in Seq(Events) : es = <<e>>
  BY <1>1
<1>3. \A i \in 1 .. Len(es) : i = 1 /\ es[i] = e
  BY <1>1, <1>2
<1>4. \A i \in 1 .. Len(es) : Fits(es[i])' /\ (es[i].op # "LockStack" => pc[es[i].k] \notin Waits)
  <2>1. ASSUME NEW i \in 1 .. Len(es) PROVE Fits(es[i])'
    <3>1. es[i] = e
      BY <1>3
    <3>2. QED
      BY <3>1 DEF Fits
  <2>2. QED
    BY <1>3, <2>1
<1>5. QED
  BY <1>1, <1>2, <1>3, <1>4, Enqueue

LEMMA InMemory ==
  ASSUME LocksInv, NEW l \in Locks, lock_compute_units_in_memory(l) PROVE LocksInv'
<1>1. TypeOK /\ ChannelOK /\ SlotsOK /\ Ledger /\ l \in Slots /\ TableTypes
  BY Tables DEF LocksInv, Ledger, Slots
<1>2. pc[l] = "selected" /\ Moves(l, "held", stack[l], units[l])
  BY <1>1 DEF lock_compute_units_in_memory, Goto, Moves, TypeOK
<1>3. UNCHANGED <<endpoint, expired, buyer, bought, rows, computed, locked, closed, queue, stranded, unbacked, errors, crashes>>
  BY DEF lock_compute_units_in_memory, table, faults, history
<1>4. /\ pc'[l] = "held" /\ stack'[l] = stack[l] /\ units'[l] = units[l]
      /\ \A j \in Slots \ {l} : Same(j)
  BY <1>1, <1>2, Moved
<1>5. ChannelOK'
  BY <1>1, <1>2, <1>3, <1>4, ChannelStays DEF Waits
<1>6. TableTypes'
  BY <1>1, <1>3 DEF TableTypes
<1>7. "held" \in Labels /\ stack[l] \in Stacks \cup {NoStack} /\ units[l] \in Nat
  BY <1>1 DEF Labels, LockLabels, TypeOK
<1>8. TypeOK'
  BY <1>1, <1>2, <1>3, <1>5, <1>6, <1>7, MoveTypes
<1>9. SlotsOK'
  <2>1. bought \in Nat /\ bought' = bought /\ rows' = rows /\ buyer' = buyer /\ bought <= bought
    BY <1>1, <1>3 DEF TableTypes
  <2>2. l \notin Requests /\ buyer # l /\ stack[l] \in rows
    BY <1>1, <1>2, SlotsAssumption DEF SlotsOK, Owes
  <2>3. \A j \in Slots \ {l} : pc[j] = "storing" => stack[j] \notin rows
    BY <1>1 DEF SlotsOK
  <2>4. pc'[l] \notin Without /\ pc'[l] # "storing" /\ pc'[l] # "buying"
    BY <1>4 DEF Without
  <2>5. QED
    BY <1>1, <1>4, <2>1, <2>2, <2>3, <2>4, MoveSlots
<1>10. Ledger'
  <2>1. Owed'[l] = Owed[l]
    BY <1>1, <1>2, <1>4, <1>8, OwedIs, OwedIsNext DEF Owes
  <2>2. QED
    BY <1>1, <1>3, <1>4, <1>8, <2>1, MoveFree
<1>11. QED
  BY <1>5, <1>8, <1>9, <1>10 DEF LocksInv, Ledger

(* A call that owes nothing ends, or goes on to buy. *)
LEMMA Leaves ==
  ASSUME LocksInv, NEW l \in Locks, pc[l] \in {"no_stack", "buying"},
         NEW lab \in {"idle", "buying"}, Moves(l, lab, NoStack, units'[l]), units'[l] \in Nat,
         endpoint' \in [Slots -> Endpoints \cup {NoEndpoint}], buyer' \in Locks \cup {NoLock},
         lab = "buying" <=> buyer' = l, \A m \in Locks \ {l} : buyer' = m <=> buyer = m,
         UNCHANGED <<expired, bought, rows, computed, locked, closed, queue, stranded, unbacked, errors, crashes>>
  PROVE  LocksInv'
<1>1. TypeOK /\ ChannelOK /\ SlotsOK /\ Ledger /\ l \in Slots /\ TableTypes
  BY Tables DEF LocksInv, Ledger, Slots
<1>2. PICK n \in Nat : n = units'[l]
  OBVIOUS
<1>3. Moves(l, lab, NoStack, n)
  BY <1>2
<1>4. /\ pc'[l] = lab /\ stack'[l] = NoStack /\ \A j \in Slots \ {l} : Same(j)
  BY <1>1, <1>3, Moved
<1>5. ChannelOK'
  BY <1>1, <1>4, ChannelStays DEF Waits
<1>6. TableTypes'
  BY <1>1 DEF TableTypes
<1>7. lab \in Labels /\ NoStack \in Stacks \cup {NoStack}
  BY DEF Labels, LockLabels
<1>8. TypeOK'
  BY <1>1, <1>3, <1>5, <1>6, <1>7, MoveTypes
<1>9. SlotsOK'
  <2>1. bought \in Nat /\ l \notin Requests
    BY <1>1, SlotsAssumption DEF TableTypes
  <2>2. QED
    BY <1>1, <1>4, <2>1, MoveSlots DEF Owes, Without, SlotsOK
<1>10. Ledger'
  <2>1. Owed'[l] = 0 /\ Owed[l] = 0
    BY <1>1, <1>4, <1>8, OwedIs, OwedIsNext DEF Owes
  <2>2. QED
    BY <1>1, <1>4, <1>8, <2>1, MoveFree
<1>11. QED
  BY <1>5, <1>8, <1>9, <1>10 DEF LocksInv, Ledger

LEMMA EndMoves == ASSUME NEW k, End(k) PROVE Moves(k, "idle", NoStack, 0)
  BY DEF End, Goto, Reset, Moves

LEMMA TryLock == ASSUME LocksInv, NEW l \in Locks, try_lock(l) PROVE LocksInv'
<1>1. TypeOK /\ SlotsOK /\ l \in Slots
  BY DEF LocksInv, Slots
<1>2. /\ pc[l] = "no_stack" /\ stack[l] = NoStack
      /\ UNCHANGED <<expired, bought, rows, computed, locked, closed, queue, stranded, unbacked, errors, crashes>>
  BY <1>1 DEF try_lock, table, faults, history, SlotsOK, Without
<1>3. CASE buyer = NoLock /\ buyer' = l /\ Goto(l, "buying") /\ UNCHANGED <<stack, units, endpoint>>
  <2>1. Moves(l, "buying", NoStack, units'[l]) /\ units'[l] \in Nat
    BY <1>1, <1>2, <1>3 DEF Goto, Moves, TypeOK
  <2>2. QED
    BY <1>1, <1>2, <1>3, <2>1, Leaves, SlotsAssumption DEF TypeOK
<1>4. CASE End(l) /\ UNCHANGED buyer
  <2>1. Moves(l, "idle", NoStack, 0)
    BY <1>4, EndMoves
  <2>2. units'[l] = 0 /\ endpoint' \in [Slots -> Endpoints \cup {NoEndpoint}]
    BY <1>1, <1>4, <2>1 DEF Moves, TypeOK, End, Reset
  <2>3. buyer # l /\ buyer' = buyer /\ buyer \in Locks \cup {NoLock}
    BY <1>1, <1>2, <1>4 DEF SlotsOK, TypeOK
  <2>4. Moves(l, "idle", NoStack, units'[l]) /\ units'[l] \in Nat
    BY <2>1, <2>2
  <2>5. QED
    BY <1>2, <2>2, <2>3, <2>4, Leaves
<1>5. QED
  BY <1>3, <1>4 DEF try_lock

LEMMA PurchaseFailed == ASSUME LocksInv, NEW l \in Locks, PurchaseFails(l) PROVE LocksInv'
<1>1. TypeOK /\ SlotsOK /\ l \in Slots
  BY DEF LocksInv, Slots
<1>2. /\ pc[l] = "buying" /\ End(l) /\ buyer' = NoLock /\ buyer = l
      /\ UNCHANGED <<expired, bought, rows, computed, locked, closed, queue, stranded, unbacked, errors, crashes>>
  BY <1>1 DEF PurchaseFails, table, faults, history, SlotsOK
<1>3. Moves(l, "idle", NoStack, 0)
  BY <1>2, EndMoves
<1>4. units'[l] = 0 /\ endpoint' \in [Slots -> Endpoints \cup {NoEndpoint}]
  BY <1>1, <1>2, <1>3 DEF Moves, TypeOK, End, Reset
<1>5. QED
  BY <1>1, <1>2, <1>3, <1>4, Leaves, SlotsAssumption

LEMMA Acquires == ASSUME LocksInv, NEW l \in Locks, acquire_new_stack(l) PROVE LocksInv'
<1>1. TypeOK /\ ChannelOK /\ SlotsOK /\ Ledger /\ l \in Slots /\ TableTypes /\ l \notin Requests
  BY Tables, SlotsAssumption DEF LocksInv, Ledger, Slots
<1>2. PICK b \in Nat : b = bought + 1 /\ bought \in Nat /\ b \in Stacks /\ b \notin rows
  BY <1>1, BoundsAssumption DEF acquire_new_stack, TableTypes, Stacks
<1>3. pc[l] = "buying" /\ bought' = b /\ Moves(l, "storing", b, units[l]) /\ units[l] \in Nat
  BY <1>1, <1>2 DEF acquire_new_stack, Goto, Moves, TypeOK
<1>4. /\ queue' = Append(queue, Event("NewStackAcquired", l, b, 0))
      /\ UNCHANGED <<endpoint, expired, buyer, rows, computed, locked, closed, stranded, unbacked, errors, crashes>>
  BY <1>2 DEF acquire_new_stack, table, faults, history
<1>5. /\ pc'[l] = "storing" /\ stack'[l] = b /\ units'[l] = units[l] /\ \A j \in Slots \ {l} : Same(j)
  BY <1>1, <1>3, Moved
<1>6. ChannelOK'
  <2>1. PICK e \in Events : e = Event("NewStackAcquired", l, b, 0)
    BY <1>1, <1>2, EventTyped DEF Ops
  <2>2. e.op = "NewStackAcquired" /\ e.k = l /\ e.s = b
    BY <2>1, EventIs
  <2>3. Fits(e)'
    BY <1>5, <2>2 DEF Fits
  <2>4. QED
    BY <1>1, <1>3, <1>4, <1>5, <2>1, <2>2, <2>3, EnqueueOne DEF Waits
<1>7. TableTypes'
  <2>1. bought' \in 0 .. MaxStacks /\ rows' \subseteq 1 .. bought'
    BY <1>1, <1>2, <1>3, <1>4, BoundsAssumption DEF TableTypes, Stacks
  <2>2. QED
    BY <1>1, <1>4, <2>1 DEF TableTypes
<1>8. TypeOK'
  BY <1>1, <1>2, <1>3, <1>4, <1>6, <1>7, MoveTypes DEF Labels, LockLabels
<1>9. SlotsOK'
  <2>1. b \in (1 .. b) \ rows /\ bought <= b /\ buyer = l
    BY <1>1, <1>2, <1>3 DEF SlotsOK
  <2>2. QED
    BY <1>1, <1>2, <1>3, <1>4, <1>5, <2>1, MoveSlots DEF Owes, Without, SlotsOK
<1>10. Ledger'
  <2>1. Owed'[l] = 0 /\ Owed[l] = 0
    BY <1>1, <1>3, <1>5, <1>8, OwedIs, OwedIsNext DEF Owes
  <2>2. QED
    BY <1>1, <1>4, <1>5, <1>8, <2>1, MoveFree
<1>11. QED
  BY <1>6, <1>8, <1>9, <1>10 DEF LocksInv, Ledger

(* Units of the stack of a slot are stranded. *)
LEMMA Strands ==
  ASSUME TypeOK, TypeOK', Ledger, NEW k \in Slots, \A j \in Slots \ {k} : Same(j) \/ Pruned(j),
         NEW r \in rows, stack[k] = r, stack'[k] \in {r, NoStack}, stack'[k] = r \/ Owed'[k] = 0,
         NEW d \in Int, d = Owed[k] - Owed'[k], stranded' = [stranded EXCEPT ![r] = @ + d],
         UNCHANGED <<rows, computed, locked>>
  PROVE  Ledger'
<1>1. r \in Stacks
  BY RowsAreStacks
<1>2. /\ stranded'[r] = stranded[r] + d
      /\ \A s \in Stacks \ {r} : stranded'[s] = stranded[s]
  BY <1>1 DEF TypeOK
<1>3. locked[r] \in Int /\ stranded[r] \in Int /\ Owed[k] \in Nat /\ Owed'[k] \in Nat
  BY <1>1, OwedIs, OwedIsNext DEF TypeOK
<1>4. locked'[r] - stranded'[r] = locked[r] - stranded[r] + Owed'[k] - Owed[k]
  BY <1>2, <1>3
<1>5. computed'[r] + locked'[r] <= StackSize
  BY <1>1 DEF Ledger, Capacity
<1>6. QED
  BY <1>2, <1>4, <1>5, MoveOwed

LEMMA ForNode ==
  ASSUME LocksInv, NEW l \in Locks, select_node_public_key_for_encryption_for_node(l)
  PROVE  LocksInv'
<1>1. TypeOK /\ ChannelOK /\ SlotsOK /\ Ledger /\ l \in Slots /\ TableTypes /\ l \notin Requests
  BY Tables, SlotsAssumption DEF LocksInv, Ledger, Slots
<1>2. /\ pc[l] = "stored"
      /\ UNCHANGED <<expired, buyer, bought, rows, computed, locked, closed, queue, errors,
                     crashes>>
  BY DEF select_node_public_key_for_encryption_for_node, table, faults
<1>3. PICK r \in rows : r = stack[l]
  BY <1>1, <1>2 DEF SlotsOK, Owes
<1>4. r \in Stacks /\ Default \in Nat /\ units[l] \in Nat /\ endpoint \in [Slots -> Endpoints \cup {NoEndpoint}]
  BY <1>1, RowsAreStacks, UnitsAssumption DEF TypeOK
<1>5. PICK lab \in {"held", "idle"}, st \in {r, NoStack}, n \in Nat, d \in Int :
        /\ Moves(l, lab, st, n) /\ stranded' = [stranded EXCEPT ![r] = @ + d]
        /\ endpoint' \in [Slots -> Endpoints \cup {NoEndpoint}]
        /\ lab = "held" => n = units[l] /\ st = r /\ d = Default - units[l]
        /\ lab = "idle" => d = Default /\ st = NoStack
  <2>1. CASE Goto(l, "held") /\ Strand(stack[l], Default - units[l]) /\ UNCHANGED <<stack, units, endpoint>>
    <3>1. Moves(l, "held", r, units[l])
      BY <1>1, <1>3, <2>1 DEF Goto, Moves, TypeOK
    <3>2. stranded' = [stranded EXCEPT ![r] = @ + (Default - units[l])] /\ Default - units[l] \in Int
      BY <1>3, <1>4, <2>1 DEF Strand
    <3>3. QED
      BY <1>4, <2>1, <3>1, <3>2
  <2>2. CASE End(l) /\ Strand(stack[l], Default)
    <3>1. Moves(l, "idle", NoStack, 0)
      BY <2>2, EndMoves
    <3>2. stranded' = [stranded EXCEPT ![r] = @ + Default]
      BY <1>3, <2>2 DEF Strand
    <3>3. endpoint' \in [Slots -> Endpoints \cup {NoEndpoint}]
      BY <1>4, <2>2 DEF End, Reset
    <3>4. 0 \in Nat /\ Default \in Int /\ "idle" # "held"
      BY <1>4
    <3>5. QED
      BY <3>1, <3>2, <3>3, <3>4, Zenon
  <2>3. QED
    BY <2>1, <2>2 DEF select_node_public_key_for_encryption_for_node
<1>6. /\ pc'[l] = lab /\ stack'[l] = st /\ units'[l] = n /\ \A j \in Slots \ {l} : Same(j)
  BY <1>1, <1>5, Moved
<1>7. ChannelOK'
  BY <1>1, <1>2, <1>6, ChannelStays DEF Waits
<1>8. TableTypes'
  <2>1. stranded' \in [Stacks -> Int]
    BY <1>1, <1>4, <1>5 DEF TableTypes
  <2>2. unbacked' \in [Stacks -> Nat]
    <3>1. Excess(units[l], Default) \in Nat
      BY <1>4 DEF Excess
    <3>2. unbacked' = unbacked \/ unbacked' = [unbacked EXCEPT ![r] = @ + Excess(units[l], Default)]
      BY <1>3 DEF select_node_public_key_for_encryption_for_node
    <3>3. QED
      BY <1>1, <1>4, <3>1, <3>2 DEF TableTypes
  <2>3. QED
    BY <1>1, <1>2, <1>5, <2>1, <2>2 DEF TableTypes
<1>9. lab \in Labels /\ st \in Stacks \cup {NoStack}
  BY <1>4 DEF Labels, LockLabels
<1>10. TypeOK'
  BY <1>1, <1>2, <1>5, <1>7, <1>8, <1>9, MoveTypes
<1>11. SlotsOK'
  <2>1. bought \in Nat /\ bought' = bought /\ rows' = rows /\ buyer' = buyer /\ bought <= bought
    BY <1>1, <1>2 DEF TableTypes
  <2>2. buyer # l
    BY <1>1, <1>2 DEF SlotsOK
  <2>3. \A j \in Slots \ {l} : pc[j] = "storing" => stack[j] \notin rows
    BY <1>1 DEF SlotsOK
  <2>4. /\ pc'[l] \in Without => stack'[l] = NoStack
        /\ pc'[l] \in Owes => stack'[l] \in rows
        /\ pc'[l] # "storing" /\ pc'[l] # "buying"
    BY <1>5, <1>6 DEF Without, Owes
  <2>5. QED
    BY <1>1, <1>6, <2>1, <2>2, <2>3, <2>4, MoveSlots
<1>12. Ledger'
  <2>1. Owed[l] = Default /\ Owed'[l] = Default - d /\ (stack'[l] = r \/ Owed'[l] = 0)
    BY <1>1, <1>2, <1>4, <1>5, <1>6, <1>10, OwedIs, OwedIsNext DEF Owes
  <2>2. d = Owed[l] - Owed'[l]
    BY <1>4, <2>1
  <2>3. QED
    BY <1>1, <1>2, <1>3, <1>5, <1>6, <1>10, <2>1, <2>2, Strands
<1>13. QED
  BY <1>7, <1>10, <1>11, <1>12 DEF LocksInv, Ledger

LEMMA Expires == ASSUME LocksInv, NEW l \in Locks, Expire(l) PROVE LocksInv'
<1>1. /\ pc[l] = "held" /\ expired' = expired \cup {l}
      /\ UNCHANGED <<pc, stack, units, endpoint, buyer, bought, rows, computed, locked, closed,
                     queue, stranded, unbacked, errors, crashes>>
  BY DEF Expire, table, faults, history
<1>2. TypeOK'
  BY <1>1 DEF LocksInv, TypeOK, Held
<1>3. ChannelOK'
  BY <1>1 DEF LocksInv, ChannelOK, Fits
<1>4. SlotsOK' /\ FreshOK' /\ Capacity'
  BY <1>1 DEF LocksInv, SlotsOK, FreshOK, Capacity
<1>5. Owing'
  BY <1>1 DEF LocksInv, Owing, Owed, OfStack, IsSum, SumOver, Units
<1>6. QED
  BY <1>2, <1>3, <1>4, <1>5 DEF LocksInv

-----------------------------------------------------------------------------
(* The steps of a confidential request.                                    *)

LEMMA EstimateFits ==
  ASSUME TypeOK, NEW q \in Slots PROVE Estimate(q) \in Nat /\ Estimate(q) <= units[q]
<1>1. units[q] \in Nat
  BY DEF TypeOK
<1>2. QED
  BY <1>1 DEF Estimate

(* The settlement of a request is in the channel, with a LockStack behind  *)
(* it or not.                                                              *)
LEMMA Settles ==
  ASSUME LocksInv, NEW q \in Requests, pc[q] = "running", NEW used \in Nat,
         \/ queue' = Append(queue, Event("UpdateStackNumTokens", q, stack[q], used))
         \/ queue' = queue \o <<Event("UpdateStackNumTokens", q, stack[q], used),
                                Event("LockStack", q, stack[q], 0)>>,
         units' = [units EXCEPT ![q] = Estimate(q)],
         Strand(stack[q], units[q] - Estimate(q)), Goto(q, "releasing"),
         UNCHANGED <<stack, endpoint, expired, buyer, bought, table, unbacked, faults>>
  PROVE  LocksInv'
<1>1. TypeOK /\ ChannelOK /\ SlotsOK /\ Ledger /\ q \in Slots /\ TableTypes /\ q \notin Locks
  BY Tables, SlotsAssumption DEF LocksInv, Ledger, Slots
<1>2. UNCHANGED <<endpoint, expired, buyer, bought, rows, computed, locked, closed, unbacked, errors, crashes>>
  BY DEF table, faults, history
<1>3. PICK r \in rows : r = stack[q]
  BY <1>1 DEF SlotsOK, Owes
<1>4. PICK n \in Nat, d \in Int : n = Estimate(q) /\ d = units[q] - n /\ r \in Stacks /\ units[q] \in Nat
  <2>1. Estimate(q) \in Nat /\ r \in Stacks /\ units[q] \in Nat
    BY <1>1, EstimateFits, RowsAreStacks DEF TypeOK
  <2>2. PICK n \in Nat : n = Estimate(q)
    BY <2>1
  <2>3. units[q] - n \in Int
    BY <2>1, <2>2
  <2>4. QED
    BY <2>1, <2>2, <2>3
<1>5. Moves(q, "releasing", r, n) /\ stranded' = [stranded EXCEPT ![r] = @ + d]
  BY <1>1, <1>3, <1>4 DEF Goto, Moves, TypeOK, Strand
<1>6. /\ pc'[q] = "releasing" /\ stack'[q] = r /\ units'[q] = n /\ \A j \in Slots \ {q} : Same(j)
  BY <1>1, <1>5, Moved
<1>7. ChannelOK'
  <2>1. PICK e \in Events, f \in Events :
          e = Event("UpdateStackNumTokens", q, r, used) /\ f = Event("LockStack", q, r, 0)
    BY <1>1, <1>4, EventTyped DEF Ops
  <2>2. e.op = "UpdateStackNumTokens" /\ e.k = q /\ e.s = r /\ f.op = "LockStack" /\ f.s = r
    BY <2>1, EventIs
  <2>3. Fits(e)' /\ Fits(f)'
    BY <1>2, <1>6, <2>2 DEF Fits
  <2>4. rows \subseteq rows' /\ (\A j \in Slots : pc[j] \in Waits => Same(j)) /\ pc[q] \notin Waits
    BY <1>2, <1>6 DEF Waits
  <2>5. CASE queue' = Append(queue, Event("UpdateStackNumTokens", q, stack[q], used))
    BY <1>1, <1>3, <2>1, <2>2, <2>3, <2>4, <2>5, EnqueueOne
  <2>6. CASE queue' = queue \o <<Event("UpdateStackNumTokens", q, stack[q], used),
                                 Event("LockStack", q, stack[q], 0)>>
    <3>0. <<e, f>> \in Seq(Events) /\ Len(<<e, f>>) = 2 /\ <<e, f>>[1] = e /\ <<e, f>>[2] = f
      OBVIOUS
    <3>1. PICK es \in Seq(Events) : es = <<e, f>> /\ Len(es) = 2 /\ es[1] = e /\ es[2] = f
      BY <3>0
    <3>2. queue' = queue \o es /\ \A i \in 1 .. Len(es) : i = 1 \/ i = 2
      BY <1>3, <2>1, <2>6, <3>1
    <3>3. ASSUME NEW i \in 1 .. Len(es)
          PROVE  Fits(es[i])' /\ (es[i].op # "LockStack" => i = 1 /\ pc[es[i].k] \notin Waits)
      <4>1. CASE i = 1
        BY <2>2, <2>3, <2>4, <3>1, <4>1 DEF Fits
      <4>2. CASE i = 2
        BY <2>2, <2>3, <2>4, <3>1, <4>2 DEF Fits
      <4>3. QED
        BY <3>2, <4>1, <4>2
    <3>4. QED
      BY <1>1, <2>4, <3>2, <3>3, Enqueue
  <2>7. QED
    BY <2>5, <2>6
<1>8. TableTypes'
  <2>0. d \in Int /\ r \in Stacks /\ stranded \in [Stacks -> Int] /\ stranded' = [stranded EXCEPT ![r] = @ + d]
    BY <1>1, <1>4, <1>5 DEF TableTypes
  <2>1. stranded' \in [Stacks -> Int]
    BY ONLY <2>0
  <2>2. QED
    BY <1>1, <1>2, <2>1 DEF TableTypes
<1>9. TypeOK'
  BY <1>1, <1>2, <1>4, <1>5, <1>7, <1>8, MoveTypes DEF Labels, LockLabels
<1>10. SlotsOK'
  <2>1. bought \in Nat /\ bought' = bought /\ rows' = rows /\ buyer' = buyer /\ bought <= bought
    BY <1>1, <1>2 DEF TableTypes
  <2>2. \A j \in Slots \ {q} : pc[j] = "storing" => stack[j] \notin rows
    BY <1>1 DEF SlotsOK
  <2>3. pc'[q] \notin Without /\ pc'[q] # "storing" /\ stack'[q] \in rows
    BY <1>6 DEF Without
  <2>4. QED
    BY <1>1, <1>6, <2>1, <2>2, <2>3, MoveSlots
<1>11. Ledger'
  <2>1. Owed[q] = units[q] /\ Owed'[q] = n
    BY <1>1, <1>6, <1>9, OwedIs, OwedIsNext DEF Owes
  <2>2. d = Owed[q] - Owed'[q]
    BY <1>4, <2>1
  <2>3. QED
    BY <1>1, <1>2, <1>3, <1>5, <1>6, <1>9, <2>2, Strands
<1>12. QED
  BY <1>7, <1>9, <1>10, <1>11 DEF LocksInv, Ledger

LEMMA Answers ==
  ASSUME LocksInv, NEW q \in Requests, HandlerAnswers(q) \/ HandlerFails(q) \/ HandlerLocked(q)
  PROVE  LocksInv'
<1>1. CASE HandlerAnswers(q)
  <2>1. PICK used \in 0 .. MaxUse : SettleWith(q, used)
    BY <1>1 DEF HandlerAnswers
  <2>2. used \in Nat
    BY BoundsAssumption
  <2>3. QED
    BY <1>1, <2>1, <2>2, Settles DEF HandlerAnswers, SettleWith
<1>2. CASE HandlerFails(q)
  BY <1>2, Settles DEF HandlerFails, SettleWith
<1>3. CASE HandlerLocked(q)
  BY <1>3, Settles DEF HandlerLocked
<1>4. QED
  BY <1>1, <1>2, <1>3

LEMMA Abandons == ASSUME LocksInv, NEW q \in Requests, Abandon(q) PROVE LocksInv'
<1>1. TypeOK /\ ChannelOK /\ SlotsOK /\ Ledger /\ q \in Slots /\ TableTypes /\ q \notin Locks
  BY Tables, SlotsAssumption DEF LocksInv, Ledger, Slots
<1>2. /\ pc[q] = "running"
      /\ UNCHANGED <<expired, buyer, bought, rows, computed, locked, closed, queue, unbacked, errors, crashes>>
  BY DEF Abandon, table, faults, history
<1>3. PICK r \in rows : r = stack[q]
  BY <1>1, <1>2 DEF SlotsOK, Owes
<1>4. r \in Stacks /\ units[q] \in Nat
  BY <1>1, RowsAreStacks DEF TypeOK
<1>5. Moves(q, "idle", NoStack, 0) /\ stranded' = [stranded EXCEPT ![r] = @ + units[q]]
  BY <1>3, EndMoves DEF Abandon, Strand
<1>6. /\ pc'[q] = "idle" /\ stack'[q] = NoStack /\ \A j \in Slots \ {q} : Same(j)
  BY <1>1, <1>5, Moved
<1>7. ChannelOK'
  BY <1>1, <1>2, <1>6, ChannelStays DEF Waits
<1>8. TableTypes'
  <2>1. stranded' \in [Stacks -> Int]
    BY <1>1, <1>4, <1>5 DEF TableTypes
  <2>2. endpoint' \in [Slots -> Endpoints \cup {NoEndpoint}]
    BY <1>1 DEF TableTypes, Abandon, End, Reset
  <2>3. QED
    BY <1>1, <1>2, <2>1, <2>2 DEF TableTypes
<1>9. TypeOK'
  BY <1>1, <1>2, <1>5, <1>7, <1>8, MoveTypes DEF Labels, LockLabels
<1>10. SlotsOK'
  <2>1. bought \in Nat /\ bought' = bought /\ rows' = rows /\ buyer' = buyer /\ bought <= bought
    BY <1>1, <1>2 DEF TableTypes
  <2>2. \A j \in Slots \ {q} : pc[j] = "storing" => stack[j] \notin rows
    BY <1>1 DEF SlotsOK
  <2>3. pc'[q] \notin Owes /\ pc'[q] # "storing"
    BY <1>6 DEF Owes
  <2>4. QED
    BY <1>1, <1>6, <2>1, <2>2, <2>3, MoveSlots
<1>11. Ledger'
  <2>1. Owed[q] = units[q] /\ Owed'[q] = 0
    BY <1>1, <1>2, <1>6, <1>9, OwedIs, OwedIsNext DEF Owes
  <2>2. units[q] \in Int /\ units[q] = Owed[q] - Owed'[q]
    BY <1>4, <2>1
  <2>3. QED
    BY <1>1, <1>2, <1>3, <1>5, <1>6, <1>9, <2>1, <2>2, Strands
<1>12. QED
  BY <1>7, <1>9, <1>10, <1>11 DEF LocksInv, Ledger

-----------------------------------------------------------------------------
(* The state manager.                                                      *)

LEMMA FirstIs ==
  ASSUME LocksInv, queue # <<>>
  PROVE  /\ Head(queue) \in Events /\ Fits(Head(queue)) /\ Head(queue).op \in Ops
         /\ Head(queue).k \in Slots /\ Head(queue).used \in Nat
         /\ Head(queue).s \in Stacks \cup {NoStack}
<1>1. PICK e \in Events : e = Head(queue) /\ Fits(e)
  BY HeadFits DEF LocksInv
<1>2. e.op \in Ops /\ e.k \in Slots /\ e.used \in Nat /\ e.s \in Stacks \cup {NoStack}
  BY DEF Events
<1>3. QED
  BY <1>1, <1>2

(* An event about the slot k is handled: only the sums are left to show. *)
LEMMA Handled ==
  ASSUME LocksInv, queue # <<>>, queue' = Tail(queue), NEW k \in Slots, k = Head(queue).k,
         Head(queue).op # "LockStack", NEW lab \in {"idle", "selected", "no_stack", "stored"},
         NEW st \in Stacks \cup {NoStack}, NEW n \in Nat, Moves(k, lab, st, n),
         TableTypes', rows \subseteq rows', UNCHANGED <<expired, bought>>,
         lab \in {"idle", "no_stack"} => st = NoStack, lab \in {"selected", "stored"} => st \in rows',
         lab # "idle" => k \in Locks,
         \A j \in Slots \ {k} : pc[j] = "storing" => stack[j] \notin rows',
         k \in Locks => buyer' # k, \A m \in Locks \ {k} : buyer' = m <=> buyer = m
  PROVE  /\ TypeOK' /\ ChannelOK' /\ SlotsOK'
         /\ pc'[k] = lab /\ stack'[k] = st /\ units'[k] = n /\ \A j \in Slots \ {k} : Same(j)
<1>1. TypeOK /\ ChannelOK /\ SlotsOK /\ TableTypes
  BY Tables DEF LocksInv
<1>2. /\ pc'[k] = lab /\ stack'[k] = st /\ units'[k] = n /\ \A j \in Slots \ {k} : Same(j)
  BY <1>1, Moved
<1>3. pc[k] # "held"
  BY FirstIs, FitsWaits DEF Waits
<1>4. ChannelOK'
  BY <1>1, <1>2, Dequeue
<1>5. lab \in Labels
  BY DEF Labels, LockLabels
<1>6. TypeOK'
  BY <1>1, <1>3, <1>4, <1>5, MoveTypes
<1>7. SlotsOK'
  <2>1. bought \in Nat /\ bought' = bought /\ bought <= bought
    BY <1>1 DEF TableTypes
  <2>2. k \in Requests => pc'[k] \in {"idle", "running", "releasing"}
    BY <1>2, SlotsAssumption
  <2>3. /\ pc'[k] \in Without => stack'[k] = NoStack
        /\ pc'[k] \in Owes => stack'[k] \in rows'
        /\ pc'[k] # "storing" /\ pc'[k] # "buying"
    BY <1>2 DEF Without, Owes
  <2>4. QED
    BY <1>1, <1>2, <2>1, <2>2, <2>3, MoveSlots
<1>8. QED
  BY <1>2, <1>4, <1>6, <1>7

LEMMA Selects == ASSUME LocksInv, select_node_public_key_for_encryption PROVE LocksInv'
<1>1. TypeOK /\ SlotsOK /\ Ledger /\ TableTypes
  BY Tables DEF LocksInv, Ledger
<1>2. queue # <<>> /\ Head(queue).op = "SelectNodePublicKeyForEncryption"
  BY DEF select_node_public_key_for_encryption, First
<1>3. PICK l \in Slots : l = Head(queue).k /\ pc[l] = "selecting"
  BY <1>2, FirstIs DEF Fits
<1>4. /\ queue' = Tail(queue)
      /\ UNCHANGED <<units, endpoint, expired, buyer, bought, rows, computed, closed, stranded, unbacked, errors, crashes>>
  BY DEF select_node_public_key_for_encryption, Answer, faults, history
<1>5. stack[l] = NoStack /\ l \in Locks /\ buyer # l /\ units[l] \in Nat /\ Owed[l] = 0
  <2>1. stack[l] = NoStack /\ l \in Locks /\ units[l] \in Nat
    BY <1>1, <1>3 DEF SlotsOK, Without, Slots, TypeOK
  <2>2. buyer # l
    BY <1>1, <1>3, <2>1 DEF SlotsOK
  <2>3. Owed[l] = 0
    BY <1>1, <1>3, OwedIs DEF Owes
  <2>4. QED
    BY <2>1, <2>2, <2>3
<1>6. \A j \in Slots \ {l} : pc[j] = "storing" => stack[j] \notin rows'
  BY <1>1, <1>4 DEF SlotsOK
<1>7. CASE \E s \in rows \ closed :
             /\ Free(s) >= units[l]
             /\ locked' = [locked EXCEPT ![s] = @ + units[l]]
             /\ stack' = [stack EXCEPT ![l] = s]
             /\ pc' = [pc EXCEPT ![l] = "selected"]
  <2>1. PICK r \in rows \ closed : /\ Free(r) >= units[l]
                                   /\ locked' = [locked EXCEPT ![r] = @ + units[l]]
                                   /\ stack' = [stack EXCEPT ![l] = r]
                                   /\ pc' = [pc EXCEPT ![l] = "selected"]
    BY <1>7
  <2>2. r \in rows /\ r \in Stacks /\ StackSize \in Nat
    BY <1>1, RowsAreStacks, UnitsAssumption
  <2>3. Moves(l, "selected", r, units[l])
    BY <1>1, <1>4, <2>1 DEF Moves, TypeOK
  <2>4. /\ locked'[r] = locked[r] + units[l] /\ locked' \in [Stacks -> Int]
        /\ \A s \in Stacks \ {r} : locked'[s] = locked[s]
    BY <1>1, <1>5, <2>1, <2>2 DEF TypeOK
  <2>5. TableTypes'
    BY <1>1, <1>4, <2>4 DEF TableTypes
  <2>6. /\ TypeOK' /\ ChannelOK' /\ SlotsOK'
        /\ pc'[l] = "selected" /\ stack'[l] = r /\ units'[l] = units[l] /\ \A j \in Slots \ {l} : Same(j)
    BY <1>2, <1>3, <1>4, <1>5, <1>6, <2>2, <2>3, <2>5, Handled
  <2>7. Owed'[l] = units[l]
    BY <2>6, OwedIsNext DEF Owes
  <2>8. computed[r] \in Nat /\ locked[r] \in Int /\ stranded[r] \in Int
    BY <1>1, <2>2 DEF TypeOK
  <2>9. computed'[r] + locked'[r] <= StackSize
    BY <1>4, <1>5, <2>1, <2>2, <2>4, <2>8 DEF Free
  <2>10. locked'[r] - stranded'[r] = locked[r] - stranded[r] + Owed'[l] - Owed[l]
    BY <1>4, <1>5, <2>4, <2>7, <2>8
  <2>11. Ledger'
    BY <1>1, <1>4, <1>5, <2>2, <2>4, <2>6, <2>9, <2>10, MoveOwed
  <2>12. QED
    BY <2>6, <2>11 DEF LocksInv, Ledger
<1>8. CASE pc' = [pc EXCEPT ![l] = "no_stack"] /\ UNCHANGED <<locked, stack>>
  <2>1. Moves(l, "no_stack", NoStack, units[l])
    BY <1>1, <1>4, <1>5, <1>8 DEF Moves, TypeOK
  <2>2. TableTypes'
    BY <1>1, <1>4, <1>8 DEF TableTypes
  <2>3. /\ TypeOK' /\ ChannelOK' /\ SlotsOK'
        /\ pc'[l] = "no_stack" /\ stack'[l] = NoStack /\ \A j \in Slots \ {l} : Same(j)
    BY <1>2, <1>3, <1>4, <1>5, <1>6, <2>1, <2>2, Handled
  <2>4. Owed'[l] = 0
    BY <2>3, OwedIsNext DEF Owes
  <2>5. Ledger'
    BY <1>1, <1>4, <1>5, <1>8, <2>3, <2>4, MoveFree
  <2>6. QED
    BY <2>3, <2>5 DEF LocksInv, Ledger
<1>9. QED
  BY <1>3, <1>7, <1>8 DEF select_node_public_key_for_encryption, Answer, Goto

LEMMA Stores == ASSUME LocksInv, NewStackAcquired PROVE LocksInv'
<1>1. TypeOK /\ SlotsOK /\ FreshOK /\ Owing /\ Capacity /\ TableTypes
  BY Tables DEF LocksInv
<1>2. queue # <<>> /\ Head(queue).op = "NewStackAcquired"
  BY DEF NewStackAcquired, First
<1>3. PICK l \in Slots, r \in Stacks \cup {NoStack} :
        l = Head(queue).k /\ r = Head(queue).s /\ pc[l] = "storing" /\ stack[l] = r
  BY <1>2, FirstIs DEF Fits
<1>4. /\ queue' = Tail(queue) /\ rows' = rows \cup {r} /\ buyer' = NoLock
      /\ locked' = [locked EXCEPT ![r] = Default] /\ pc' = [pc EXCEPT ![l] = "stored"]
      /\ UNCHANGED <<stack, units, endpoint, expired, bought, computed, closed, stranded, unbacked, errors, crashes>>
  BY <1>3 DEF NewStackAcquired, Answer, Goto, InitialLock, faults, history
<1>5. l \in Locks /\ buyer = l /\ units[l] \in Nat /\ r \in (1 .. bought) \ rows /\ r \in Stacks
  <2>1. l \in Locks /\ units[l] \in Nat /\ r \in (1 .. bought) \ rows
    BY <1>1, <1>3 DEF SlotsOK, Slots, TypeOK
  <2>2. bought \in 0 .. MaxStacks
    BY <1>1 DEF TypeOK
  <2>3. QED
    BY <1>1, <1>3, <2>1, <2>2, BoundsAssumption DEF SlotsOK, Stacks
<1>6. /\ locked'[r] = Default /\ locked' \in [Stacks -> Int] /\ Default \in Nat
      /\ \A s \in Stacks \ {r} : locked'[s] = locked[s]
  BY <1>1, <1>4, <1>5, UnitsAssumption DEF TypeOK
<1>7. Moves(l, "stored", r, units[l])
  BY <1>1, <1>3, <1>4 DEF Moves, TypeOK
<1>8. TableTypes'
  BY <1>1, <1>4, <1>5, <1>6 DEF TableTypes
<1>9. \A j \in Slots \ {l} : pc[j] # "storing"
  BY <1>1, <1>5 DEF SlotsOK, Slots
<1>10. /\ TypeOK' /\ ChannelOK' /\ SlotsOK'
       /\ pc'[l] = "stored" /\ stack'[l] = r /\ \A j \in Slots \ {l} : Same(j)
  <2>1. buyer' # l /\ \A m \in Locks \ {l} : buyer' = m <=> buyer = m
    BY <1>4, <1>5, SlotsAssumption
  <2>2. r \in rows' /\ rows \subseteq rows'
    BY <1>4
  <2>3. QED
    BY <1>2, <1>3, <1>4, <1>5, <1>7, <1>8, <1>9, <2>1, <2>2, Handled
<1>11. Owed[l] = 0 /\ Owed'[l] = Default
  BY <1>1, <1>3, <1>10, OwedIs, OwedIsNext DEF Owes
<1>12. computed[r] = 0 /\ locked[r] = 0 /\ stranded[r] = 0
  BY <1>1, <1>5 DEF FreshOK
<1>13. FreshOK'
  BY <1>1, <1>4, <1>6 DEF FreshOK
<1>14. Capacity'
  <2>1. computed'[r] + locked'[r] <= StackSize
    BY <1>4, <1>6, <1>12, UnitsAssumption
  <2>2. QED
    BY <1>1, <1>4, <1>6, <2>1 DEF Capacity
<1>15. Owing'
  <2>1. SUFFICES ASSUME NEW s \in Stacks PROVE IsSum(locked'[s] - stranded'[s], Owed', OfStack(s)')
    BY DEF Owing
  <2>2. IsSum(locked[s] - stranded[s], Owed, OfStack(s))
    BY <1>1 DEF Owing
  <2>3. locked[s] \in Int /\ stranded[s] \in Int
    BY <1>1 DEF TypeOK
  <2>4. CASE s = r
    <3>1. Default = locked'[s] - stranded'[s] - (locked[s] - stranded[s])
      BY <1>4, <1>6, <1>12, <2>4
    <3>2. Default = Owed'[l] - Owed[l] /\ stack[l] = s /\ stack'[l] = s
      BY <1>3, <1>6, <1>10, <1>11, <2>4
    <3>3. QED
      BY <1>1, <1>10, <2>2, <3>1, <3>2, OwingMoves
  <2>5. CASE s # r
    <3>1. 0 = locked'[s] - stranded'[s] - (locked[s] - stranded[s])
      BY <1>4, <1>6, <2>3, <2>5
    <3>2. stack[l] # s /\ stack'[l] # s
      BY <1>3, <1>10, <2>5
    <3>3. QED
      BY <1>1, <1>10, <2>2, <3>1, <3>2, OwingMoves
  <2>6. QED
    BY <2>4, <2>5
<1>16. QED
  BY <1>10, <1>13, <1>14, <1>15 DEF LocksInv

(* A release is refused or lost, and its units stay locked. *)
LEMMA Refused ==
  ASSUME LocksInv, queue # <<>>, Head(queue).op = "UpdateStackNumTokens", queue' = Tail(queue),
         End(Head(queue).k), Strand(Head(queue).s, units[Head(queue).k]),
         errors' \in 0 .. MaxErrors,
         UNCHANGED <<expired, buyer, bought, rows, computed, locked, closed, unbacked, crashes>>
  PROVE  LocksInv'
<1>1. TypeOK /\ SlotsOK /\ Ledger /\ TableTypes
  BY Tables DEF LocksInv, Ledger
<1>2. PICK k \in Slots, r \in Stacks \cup {NoStack} :
        k = Head(queue).k /\ r = Head(queue).s /\ pc[k] = "releasing" /\ stack[k] = r
  BY FirstIs DEF Fits
<1>3. r \in rows /\ r \in Stacks /\ units[k] \in Nat /\ (k \in Locks => buyer # k)
  <2>1. r \in rows /\ units[k] \in Nat
    BY <1>1, <1>2 DEF SlotsOK, Owes, TypeOK
  <2>2. k \in Locks => buyer # k
    BY <1>1, <1>2 DEF SlotsOK
  <2>3. QED
    BY <1>1, <2>1, <2>2, RowsAreStacks
<1>4. Moves(k, "idle", NoStack, 0) /\ stranded' = [stranded EXCEPT ![r] = @ + units[k]]
  BY <1>2, EndMoves DEF Strand
<1>5. TableTypes'
  <2>1. stranded' \in [Stacks -> Int]
    BY <1>1, <1>3, <1>4 DEF TableTypes
  <2>2. endpoint' \in [Slots -> Endpoints \cup {NoEndpoint}]
    BY <1>1, <1>2 DEF TableTypes, End, Reset
  <2>3. QED
    BY <1>1, <2>1, <2>2 DEF TableTypes
<1>6. \A j \in Slots \ {k} : pc[j] = "storing" => stack[j] \notin rows'
  BY <1>1 DEF SlotsOK
<1>7. /\ TypeOK' /\ ChannelOK' /\ SlotsOK'
      /\ pc'[k] = "idle" /\ stack'[k] = NoStack /\ \A j \in Slots \ {k} : Same(j)
  BY <1>2, <1>3, <1>4, <1>5, <1>6, Handled
<1>8. Owed[k] = units[k] /\ Owed'[k] = 0
  BY <1>1, <1>2, <1>7, OwedIs, OwedIsNext DEF Owes
<1>9. units[k] \in Int /\ units[k] = Owed[k] - Owed'[k]
  BY <1>3, <1>8
<1>10. Ledger'
  BY <1>1, <1>2, <1>3, <1>4, <1>7, <1>8, <1>9, Strands
<1>11. QED
  BY <1>7, <1>10 DEF LocksInv, Ledger

LEMMA Updates == ASSUME LocksInv, update_stack_num_tokens PROVE LocksInv'
<1>1. TypeOK /\ SlotsOK /\ Ledger /\ TableTypes
  BY Tables DEF LocksInv, Ledger
<1>2. queue # <<>> /\ Head(queue).op = "UpdateStackNumTokens"
  BY DEF update_stack_num_tokens, First
<1>3. PICK k \in Slots, r \in Stacks \cup {NoStack}, used \in Nat :
        /\ k = Head(queue).k /\ r = Head(queue).s /\ used = Head(queue).used
        /\ pc[k] = "releasing" /\ stack[k] = r
  BY <1>2, FirstIs DEF Fits
<1>4. /\ queue' = Tail(queue) /\ End(k)
      /\ UNCHANGED <<expired, buyer, bought, rows, closed, unbacked, errors, crashes>>
  BY <1>3 DEF update_stack_num_tokens, faults, history
<1>5. CASE computed[r] + used + locked[r] - units[k] <= StackSize
  <2>1. /\ computed' = [computed EXCEPT ![r] = @ + used]
        /\ locked' = [locked EXCEPT ![r] = @ - units[k]] /\ stranded' = stranded
    BY <1>3, <1>5 DEF update_stack_num_tokens
  <2>2. r \in rows /\ r \in Stacks /\ units[k] \in Nat
    BY <1>1, <1>3, RowsAreStacks DEF SlotsOK, Owes, TypeOK
  <2>3. k \in Locks => buyer # k
    BY <1>1, <1>3 DEF SlotsOK
  <2>4. Moves(k, "idle", NoStack, 0)
    BY <1>4, EndMoves
  <2>5. computed[r] \in Nat /\ locked[r] \in Int /\ stranded[r] \in Int /\ StackSize \in Nat
    BY <1>1, <2>2, UnitsAssumption DEF TypeOK
  <2>6. /\ computed'[r] = computed[r] + used /\ locked'[r] = locked[r] - units[k]
        /\ computed' \in [Stacks -> Nat] /\ locked' \in [Stacks -> Int]
        /\ \A s \in Stacks \ {r} : computed'[s] = computed[s] /\ locked'[s] = locked[s]
    BY <1>1, <2>1, <2>2 DEF TableTypes
  <2>7. TableTypes'
    <3>1. endpoint' \in [Slots -> Endpoints \cup {NoEndpoint}]
      BY <1>1, <1>4 DEF TableTypes, End, Reset
    <3>2. QED
      BY <1>1, <1>4, <2>1, <2>6, <3>1 DEF TableTypes
  <2>8. \A j \in Slots \ {k} : pc[j] = "storing" => stack[j] \notin rows'
    BY <1>1, <1>4 DEF SlotsOK
  <2>9. /\ TypeOK' /\ ChannelOK' /\ SlotsOK'
        /\ pc'[k] = "idle" /\ stack'[k] = NoStack /\ \A j \in Slots \ {k} : Same(j)
    BY <1>2, <1>3, <1>4, <2>3, <2>4, <2>7, <2>8, Handled
  <2>10. Owed[k] = units[k] /\ Owed'[k] = 0
    BY <1>1, <1>3, <2>9, OwedIs, OwedIsNext DEF Owes
  <2>11. locked'[r] - stranded'[r] = locked[r] - stranded[r] + Owed'[k] - Owed[k]
    BY <2>1, <2>2, <2>5, <2>6, <2>10
  <2>12. computed'[r] + locked'[r] <= StackSize
    BY <1>5, <2>2, <2>5, <2>6
  <2>13. Ledger'
    BY <1>1, <1>3, <1>4, <2>1, <2>2, <2>6, <2>9, <2>10, <2>11, <2>12, MoveOwed
  <2>14. QED
    BY <2>9, <2>13 DEF LocksInv, Ledger
<1>6. CASE ~(computed[r] + used + locked[r] - units[k] <= StackSize)
  <2>1. Strand(r, units[k]) /\ UNCHANGED <<computed, locked>>
    BY <1>3, <1>6 DEF update_stack_num_tokens
  <2>2. errors' \in 0 .. MaxErrors
    BY <1>1, <1>4 DEF TableTypes
  <2>3. QED
    BY <1>2, <1>3, <1>4, <2>1, <2>2, Refused
<1>7. QED
  BY <1>5, <1>6

(* A step that leaves the slots and the sums alone. *)
LEMMA OnlyRows ==
  ASSUME LocksInv, ChannelOK', closed' \subseteq rows, errors' \in 0 .. MaxErrors,
         UNCHANGED <<slots, buyer, bought, rows, computed, locked, stranded, unbacked, crashes>>
  PROVE  LocksInv'
<1>1. UNCHANGED <<pc, stack, units, endpoint, expired>>
  BY DEF slots
<1>2. TypeOK'
  BY <1>1 DEF LocksInv, TypeOK, Held, ChannelOK, Events
<1>3. SlotsOK' /\ FreshOK' /\ Capacity'
  BY <1>1 DEF LocksInv, SlotsOK, FreshOK, Capacity
<1>4. Owing'
  BY <1>1 DEF LocksInv, Owing, Owed, OfStack, IsSum, SumOver, Units
<1>5. QED
  BY <1>2, <1>3, <1>4 DEF LocksInv

LEMMA LocksRow == ASSUME LocksInv, lock_stack PROVE LocksInv'
<1>1. /\ queue # <<>> /\ Head(queue).op = "LockStack" /\ closed' = closed \cup {Head(queue).s}
      /\ queue' = Tail(queue)
      /\ UNCHANGED <<slots, buyer, bought, rows, computed, locked, stranded, unbacked, errors, crashes>>
  BY DEF lock_stack, First, faults, history
<1>2. Head(queue).s \in rows
  BY <1>1, FirstIs DEF Fits
<1>3. ChannelOK'
  BY <1>1, Dequeue DEF LocksInv, Same, slots
<1>4. closed' \subseteq rows /\ errors' \in 0 .. MaxErrors
  BY <1>1, <1>2 DEF LocksInv, TypeOK
<1>5. QED
  BY <1>1, <1>3, <1>4, OnlyRows

LEMMA Closes == ASSUME LocksInv, NEW s \in Stacks, CloseStack(s) PROVE LocksInv'
<1>1. /\ s \in rows /\ closed' = closed \cup {s}
      /\ UNCHANGED <<slots, buyer, bought, rows, computed, locked, queue, stranded, unbacked, errors, crashes>>
  BY DEF CloseStack, faults, history
<1>2. ChannelOK'
  BY <1>1, ChannelStays DEF LocksInv, Same, slots
<1>3. closed' \subseteq rows /\ errors' \in 0 .. MaxErrors
  BY <1>1 DEF LocksInv, TypeOK
<1>4. QED
  BY <1>1, <1>2, <1>3, OnlyRows

LEMMA Stutters == ASSUME LocksInv, UNCHANGED vars PROVE LocksInv'
<1>1. UNCHANGED <<slots, buyer, bought, rows, computed, locked, closed, queue, stranded, unbacked, errors, crashes>>
  BY DEF vars, table, faults, history
<1>2. ChannelOK'
  BY <1>1, ChannelStays DEF LocksInv, Same, slots
<1>3. closed' \subseteq rows /\ errors' \in 0 .. MaxErrors
  BY <1>1 DEF LocksInv, TypeOK
<1>4. QED
  BY <1>1, <1>2, <1>3, OnlyRows

LEMMA Errors == ASSUME LocksInv, DatabaseError PROVE LocksInv'
<1>1. TypeOK /\ ChannelOK /\ SlotsOK /\ Ledger /\ TableTypes
  BY Tables DEF LocksInv, Ledger
<1>2. /\ queue # <<>> /\ queue' = Tail(queue) /\ errors' \in 0 .. MaxErrors
      /\ UNCHANGED <<expired, bought, rows, computed, locked, closed, unbacked, crashes>>
  BY <1>1, BoundsAssumption DEF DatabaseError, table, TableTypes
<1>3. PICK e \in Events : e = Head(queue) /\ Fits(e) /\ e.k \in Slots /\ e.op \in Ops
  BY <1>2, FirstIs
<1>4. CASE e.op = "LockStack"
  <2>1. UNCHANGED <<slots, buyer, stranded>>
    BY <1>2, <1>3, <1>4 DEF DatabaseError, slots
  <2>2. ChannelOK'
    BY <1>1, <1>2, <2>1, Dequeue DEF Same, slots
  <2>3. closed' \subseteq rows
    BY <1>1, <1>2 DEF TableTypes
  <2>4. QED
    BY <1>2, <2>1, <2>2, <2>3, OnlyRows
<1>5. CASE e.op = "UpdateStackNumTokens"
  BY <1>2, <1>3, <1>5, Refused DEF DatabaseError
<1>6. CASE e.op \in {"SelectNodePublicKeyForEncryption", "NewStackAcquired"}
  <2>1. PICK k \in Slots : k = e.k
    BY <1>3
  <2>2. /\ End(k) /\ UNCHANGED stranded
        /\ buyer' = IF e.op = "NewStackAcquired" THEN NoLock ELSE buyer
    BY <1>3, <1>6, <2>1 DEF DatabaseError
  <2>3. /\ k \in Locks /\ pc[k] \in {"selecting", "storing"}
        /\ pc[k] = "storing" <=> e.op = "NewStackAcquired"
    BY <1>1, <1>3, <1>6, <2>1 DEF Fits, SlotsOK, Slots
  <2>4. buyer' # k /\ (\A m \in Locks \ {k} : buyer' = m <=> buyer = m) /\ buyer' \in Locks \cup {NoLock}
    <3>1. buyer = k <=> e.op = "NewStackAcquired"
      BY <1>1, <2>3 DEF SlotsOK
    <3>2. QED
      BY <1>1, <2>2, <2>3, <3>1, SlotsAssumption DEF TableTypes
  <2>5. Moves(k, "idle", NoStack, 0)
    BY <2>2, EndMoves
  <2>6. TableTypes'
    <3>1. endpoint' \in [Slots -> Endpoints \cup {NoEndpoint}]
      BY <1>1, <2>2 DEF TableTypes, End, Reset
    <3>2. QED
      BY <1>1, <1>2, <2>2, <2>4, <3>1 DEF TableTypes
  <2>7. \A j \in Slots \ {k} : pc[j] = "storing" => stack[j] \notin rows'
    BY <1>1, <1>2 DEF SlotsOK
  <2>8. /\ TypeOK' /\ ChannelOK' /\ SlotsOK'
        /\ pc'[k] = "idle" /\ stack'[k] = NoStack /\ \A j \in Slots \ {k} : Same(j)
    BY <1>2, <1>3, <1>6, <2>1, <2>4, <2>5, <2>6, <2>7, Handled
  <2>9. Owed[k] = 0 /\ Owed'[k] = 0
    BY <1>1, <2>3, <2>8, OwedIs, OwedIsNext DEF Owes
  <2>10. Ledger'
    BY <1>1, <1>2, <2>2, <2>8, <2>9, MoveFree
  <2>11. QED
    BY <2>8, <2>10 DEF LocksInv, Ledger
<1>7. QED
  BY <1>3, <1>4, <1>5, <1>6 DEF Ops

-----------------------------------------------------------------------------
(* The proxy starts, again.                                                *)

(* No slot has a stack: every sum is empty. *)
LEMMA NothingOwed ==
  ASSUME stack = [k \in Slots |-> NoStack], NEW s \in Stacks PROVE IsSum(0, Owed, OfStack(s))
<1>1. PICK f, A : f = Owed /\ A = OfStack(s)
  OBVIOUS
<1>2. A = {}
  BY <1>1 DEF OfStack, Stacks, NoStack
<1>3. IsSum(0, f, A)
  BY <1>2, SumEmpty
<1>4. QED
  BY <1>1, <1>3

LEMMA Crashes == ASSUME LocksInv, Crash PROVE LocksInv'
<1>1. /\ pc' = [k \in Slots |-> "idle"] /\ stack' = [k \in Slots |-> NoStack]
      /\ units' = [k \in Slots |-> 0] /\ endpoint' = [k \in Slots |-> NoEndpoint]
      /\ expired' = {} /\ buyer' = NoLock /\ queue' = <<>> /\ stranded' = locked
      /\ UNCHANGED <<bought, rows, computed, locked, closed, unbacked, errors>>
      /\ crashes' = crashes + 1 /\ crashes < MaxCrashes
  BY DEF Crash, table
<1>2. ChannelOK'
  <2>1. queue' \in Seq(Events) /\ Len(queue') = 0 /\ 1 .. 0 = {}
    BY <1>1
  <2>2. QED
    BY <2>1 DEF ChannelOK
<1>3. TypeOK'
  <2>1. crashes' \in 0 .. MaxCrashes
    BY <1>1, BoundsAssumption DEF LocksInv, TypeOK
  <2>2. "idle" \in LockLabels
    BY DEF LockLabels
  <2>3. QED
    BY <1>1, <1>2, <2>1, <2>2 DEF LocksInv, TypeOK, Held, ChannelOK, Events
<1>4. SlotsOK'
  <2>1. \A k \in Slots : pc'[k] = "idle" /\ stack'[k] = NoStack
    BY <1>1
  <2>2. QED
    BY <1>1, <2>1, SlotsAssumption DEF SlotsOK, Without, Owes, Slots
<1>5. FreshOK' /\ Capacity'
  BY <1>1 DEF LocksInv, FreshOK, Capacity
<1>6. Owing'
  <2>1. SUFFICES ASSUME NEW s \in Stacks PROVE IsSum(locked'[s] - stranded'[s], Owed', OfStack(s)')
    BY DEF Owing
  <2>2. locked'[s] - stranded'[s] = 0
    BY <1>1 DEF LocksInv, TypeOK
  <2>3. PICK f, A : f = Owed' /\ A = OfStack(s)'
    OBVIOUS
  <2>4. A = {}
    BY <1>1, <2>3 DEF OfStack, Stacks, NoStack
  <2>5. IsSum(0, f, A)
    BY <2>4, SumEmpty
  <2>6. QED
    BY <2>2, <2>3, <2>5
<1>7. QED
  BY <1>2, <1>3, <1>4, <1>5, <1>6 DEF LocksInv

LEMMA Starts == ASSUME Init PROVE LocksInv
<1>1. /\ pc = [k \in Slots |-> "idle"] /\ stack = [k \in Slots |-> NoStack]
      /\ units = [k \in Slots |-> 0] /\ endpoint = [k \in Slots |-> NoEndpoint]
      /\ expired = {} /\ buyer = NoLock /\ bought = 0 /\ rows = {} /\ closed = {}
      /\ computed = [s \in Stacks |-> 0] /\ locked = [s \in Stacks |-> 0]
      /\ queue = <<>> /\ stranded = [s \in Stacks |-> 0] /\ unbacked = [s \in Stacks |-> 0]
      /\ errors = 0 /\ crashes = 0
  BY DEF Init
<1>2. ChannelOK
  <2>1. queue \in Seq(Events) /\ Len(queue) = 0 /\ 1 .. 0 = {}
    BY <1>1
  <2>2. QED
    BY <2>1 DEF ChannelOK
<1>3. TypeOK
  BY <1>1, <1>2, BoundsAssumption DEF TypeOK, Held, ChannelOK, Events, LockLabels
<1>4. SlotsOK
  <2>1. \A k \in Slots : pc[k] = "idle" /\ stack[k] = NoStack
    BY <1>1
  <2>2. QED
    BY <1>1, <2>1, SlotsAssumption DEF SlotsOK, Without, Owes, Slots
<1>5. FreshOK /\ Capacity
  BY <1>1, UnitsAssumption DEF FreshOK, Capacity
<1>6. Owing
  <2>1. SUFFICES ASSUME NEW s \in Stacks PROVE IsSum(locked[s] - stranded[s], Owed, OfStack(s))
    BY DEF Owing
  <2>2. locked[s] - stranded[s] = 0
    BY <1>1
  <2>3. QED
    BY <1>1, <2>2, NothingOwed
<1>7. QED
  BY <1>2, <1>3, <1>4, <1>5, <1>6 DEF LocksInv

-----------------------------------------------------------------------------
(* Pruning.                                                                *)

(* The releases of the locks in S: one for each of them, and no lock has   *)
(* two.                                                                    *)
LEMMA PrunedEvents ==
  ASSUME TypeOK, NEW S, S \subseteq Held, \A j \in S : Pruned(j), NEW order \in Orders(S)
  PROVE  \E rs \in Seq(Events) :
           /\ rs = Releases(order)
           /\ \A i \in 1 .. Len(rs) : Fits(rs[i])' /\ pc[rs[i].k] = "held" /\ rs[i].k \in Locks
           /\ \A i, j \in 1 .. Len(rs) : rs[i].k = rs[j].k => i = j
<1>1. S \subseteq Locks /\ (\A j \in S : pc[j] = "held") /\ S \subseteq Slots
  BY DEF Held, Slots
<1>2. PICK n \in Nat : n = Cardinality(S)
  BY <1>1, SlotsAssumption, FS_Subset, FS_CardinalityType
<1>3. /\ order \in [1 .. n -> S] /\ DOMAIN order = 1 .. n
      /\ \A i, j \in 1 .. n : order[i] = order[j] => i = j
  BY <1>2 DEF Orders
<1>4. PICK rs : rs = Releases(order)
  OBVIOUS
<1>5. ASSUME NEW i \in 1 .. n
      PROVE  /\ rs[i] = Event("UpdateStackNumTokens", order[i], stack[order[i]], 0)
             /\ order[i] \in S /\ rs[i] \in Events
             /\ rs[i].op = "UpdateStackNumTokens" /\ rs[i].k = order[i] /\ rs[i].s = stack[order[i]]
  <2>1. order[i] \in S /\ order[i] \in Slots /\ stack[order[i]] \in Stacks \cup {NoStack}
    BY <1>1, <1>3 DEF TypeOK
  <2>2. rs[i] = Event("UpdateStackNumTokens", order[i], stack[order[i]], 0)
    BY <1>3, <1>4 DEF Releases
  <2>3. rs[i] \in Events
    BY <2>1, <2>2, EventTyped DEF Ops
  <2>4. QED
    BY <2>1, <2>2, <2>3, EventIs
<1>6. rs \in Seq(Events) /\ Len(rs) = n
  <2>1. rs = [i \in 1 .. n |-> rs[i]]
    BY <1>3, <1>4 DEF Releases
  <2>2. rs \in [1 .. n -> Events]
    BY <1>5, <2>1
  <2>3. QED
    BY <2>2
<1>7. ASSUME NEW i \in 1 .. n PROVE Fits(rs[i])'
  <2>1. PICK e \in Events, j \in S : e = rs[i] /\ j = order[i]
    BY <1>5
  <2>2. e.op = "UpdateStackNumTokens" /\ e.k = j /\ e.s = stack[j]
    BY <1>5, <2>1
  <2>3. pc'[j] = "releasing" /\ stack'[j] = stack[j]
    BY DEF Pruned
  <2>4. Fits(e)'
    BY <2>2, <2>3 DEF Fits
  <2>5. rs' = rs
    OBVIOUS
  <2>6. QED
    BY <2>1, <2>4, <2>5 DEF Fits
<1>8. /\ rs \in Seq(Events)
      /\ \A i \in 1 .. Len(rs) : Fits(rs[i])' /\ pc[rs[i].k] = "held" /\ rs[i].k \in Locks
      /\ \A i, j \in 1 .. Len(rs) : rs[i].k = rs[j].k => i = j
  BY <1>1, <1>3, <1>5, <1>6, <1>7
<1>9. QED
  BY <1>4, <1>8

(* A lock that is pruned is not expired any more. *)
LEMMA PrunedTypes ==
  ASSUME TypeOK, NEW T, expired' = expired \ T, \A j \in Slots \ T : pc'[j] = pc[j]
  PROVE  expired' \subseteq Held'
  BY DEF TypeOK, Held, Slots

LEMMA Creates == ASSUME LocksInv, NEW l \in Locks, nodes_create_lock(l) PROVE LocksInv'
<1>1. TypeOK /\ ChannelOK /\ SlotsOK /\ Ledger /\ l \in Slots /\ TableTypes /\ l \notin Requests
  BY Tables, SlotsAssumption DEF LocksInv, Ledger, Slots
<1>2. PICK S : S = UNION {Prunable(HeldOf(s)) : s \in Stacks}
  OBVIOUS
<1>3. /\ pc[l] = "idle"
      /\ \E max_num_tokens \in Tokens : units' = [units EXCEPT ![l] = max_num_tokens]
      /\ \E order \in Orders(S) :
           queue' = queue \o Releases(order)
                      \o <<Event("SelectNodePublicKeyForEncryption", l, NoStack, 0)>>
      /\ pc' = [k \in Slots |-> IF k = l THEN "selecting"
                                ELSE IF k \in S THEN "releasing" ELSE pc[k]]
      /\ expired' = expired \ S
      /\ UNCHANGED <<stack, endpoint, buyer, bought, rows, computed, locked, closed, stranded, unbacked, errors, crashes>>
  BY <1>2 DEF nodes_create_lock, table, faults, history
<1>4. S \subseteq Held /\ S \subseteq Slots /\ l \notin S
  BY <1>2, <1>3 DEF Prunable, HeldOf, Held, Slots
<1>5. PICK n \in Tokens : units' = [units EXCEPT ![l] = n]
  BY <1>3
<1>6. n \in Nat
  BY UnitsAssumption
<1>7. pc'[l] = "selecting" /\ stack'[l] = stack[l] /\ stack[l] = NoStack /\ units'[l] = n
  BY <1>1, <1>3, <1>5 DEF TypeOK, SlotsOK, Without
<1>8. \A j \in S : Pruned(j)
  BY <1>1, <1>3, <1>4, <1>5 DEF Pruned, Held, TypeOK
<1>9. \A j \in Slots \ (S \cup {l}) : Same(j)
  BY <1>1, <1>3, <1>5 DEF Same, TypeOK
<1>10. \A j \in Slots \ {l} : Same(j) \/ Pruned(j)
  BY <1>8, <1>9
<1>11. ChannelOK'
  <2>1. PICK order \in Orders(S) :
          queue' = queue \o Releases(order) \o <<Event("SelectNodePublicKeyForEncryption", l, NoStack, 0)>>
    BY <1>3
  <2>2. PICK rs \in Seq(Events) :
           /\ rs = Releases(order)
           /\ \A i \in 1 .. Len(rs) : Fits(rs[i])' /\ pc[rs[i].k] = "held" /\ rs[i].k \in Locks
           /\ \A i, j \in 1 .. Len(rs) : rs[i].k = rs[j].k => i = j
    BY <1>1, <1>4, <1>8, PrunedEvents
  <2>3. PICK e \in Events : e = Event("SelectNodePublicKeyForEncryption", l, NoStack, 0)
    BY <1>1, EventTyped DEF Ops
  <2>4. e.op = "SelectNodePublicKeyForEncryption" /\ e.k = l
    BY <2>3, EventIs
  <2>5. Fits(e)'
    BY <1>7, <2>4 DEF Fits
  <2>6. queue \in Seq(Events)
    BY <1>1 DEF ChannelOK
  <2>7. PICK m \in Nat : m = Len(rs)
    OBVIOUS
  <2>8. /\ rs \o <<e>> \in Seq(Events) /\ Len(rs \o <<e>>) = m + 1
        /\ (rs \o <<e>>)[m + 1] = e /\ \A i \in 1 .. m : (rs \o <<e>>)[i] = rs[i]
    BY <2>7
  <2>9. PICK es \in Seq(Events) : /\ es = rs \o <<e>> /\ Len(es) = m + 1 /\ es[m + 1] = e
                                  /\ \A i \in 1 .. m : es[i] = rs[i]
    BY <2>8
  <2>10. queue' = queue \o es
    BY <2>1, <2>2, <2>3, <2>6, <2>9
  <2>11. \A i \in 1 .. m + 1 : i \in 1 .. m \/ i = m + 1
    OBVIOUS
  <2>12. ASSUME NEW i \in 1 .. Len(es) PROVE Fits(es[i])' /\ pc[es[i].k] \notin Waits
    <3>1. CASE i \in 1 .. m
      <4>1. PICK x : x = rs[i] /\ es[i] = x
        BY <2>9, <3>1
      <4>2. Fits(x)' /\ pc[x.k] = "held"
        BY <2>2, <2>7, <3>1, <4>1 DEF Fits
      <4>3. QED
        BY <4>1, <4>2 DEF Fits, Waits
    <3>2. CASE i = m + 1
      BY <1>3, <2>4, <2>5, <2>9, <3>2 DEF Fits, Waits
    <3>3. QED
      BY <2>9, <2>11, <3>1, <3>2
  <2>13. ASSUME NEW i \in 1 .. Len(es), NEW j \in 1 .. Len(es), es[i].k = es[j].k PROVE i = j
    <3>1. \A h \in 1 .. m : es[h].k = rs[h].k /\ es[h].k # l
      BY <1>3, <2>2, <2>7, <2>9
    <3>2. QED
      BY <2>2, <2>4, <2>7, <2>9, <2>11, <2>13, <3>1
  <2>14. rows \subseteq rows' /\ \A j \in Slots : pc[j] \in Waits => Same(j)
    BY <1>3, <1>4, <1>9 DEF Waits, Held
  <2>15. QED
    BY <1>1, <2>10, <2>12, <2>13, <2>14, Enqueue
<1>12. TypeOK'
  <2>1. pc' \in [Slots -> LockLabels \cup {"running"}]
    BY <1>1, <1>3 DEF TypeOK, LockLabels
  <2>2. stack' \in [Slots -> Stacks \cup {NoStack}] /\ units' \in [Slots -> Nat]
    BY <1>1, <1>3, <1>5, <1>6 DEF TypeOK
  <2>3. expired' \subseteq Held'
    <3>1. PICK T : T = S \cup {l}
      OBVIOUS
    <3>2. expired' = expired \ T
      BY <1>1, <1>3, <3>1 DEF TypeOK, Held
    <3>3. \A j \in Slots \ T : pc'[j] = pc[j]
      BY <1>9, <3>1 DEF Same
    <3>4. QED
      BY <1>1, <3>2, <3>3, PrunedTypes
  <2>4. QED
    BY <1>1, <1>3, <1>11, <2>1, <2>2, <2>3 DEF TypeOK, ChannelOK, Events
<1>13. SlotsOK'
  <2>1. bought \in Nat /\ bought' = bought /\ rows' = rows /\ buyer' = buyer /\ bought <= bought
    BY <1>1, <1>3 DEF TableTypes
  <2>2. buyer # l
    BY <1>1, <1>3 DEF SlotsOK
  <2>3. \A j \in Slots \ {l} : pc[j] = "storing" => stack[j] \notin rows
    BY <1>1 DEF SlotsOK
  <2>4. pc'[l] \notin Owes /\ pc'[l] # "storing" /\ pc'[l] # "buying"
    BY <1>7 DEF Owes
  <2>5. QED
    BY <1>1, <1>7, <1>10, <2>1, <2>2, <2>3, <2>4, MoveSlots
<1>14. Ledger'
  <2>1. Owed[l] = 0 /\ Owed'[l] = 0
    BY <1>1, <1>3, <1>7, <1>12, OwedIs, OwedIsNext DEF Owes
  <2>2. QED
    BY <1>1, <1>3, <1>10, <1>12, <2>1, MoveFree
<1>15. QED
  BY <1>11, <1>12, <1>13, <1>14 DEF LocksInv, Ledger

(* Only releases are sent. *)
LEMMA PruneChannel ==
  ASSUME TypeOK, ChannelOK, rows' = rows, NEW S, S \subseteq Held, \A j \in S : Pruned(j),
         \A j \in Slots : pc[j] \in Waits => Same(j),
         \E order \in Orders(S) : queue' = queue \o Releases(order)
  PROVE  ChannelOK'
<1>1. PICK order \in Orders(S) : queue' = queue \o Releases(order)
  OBVIOUS
<1>2. PICK rs \in Seq(Events) :
         /\ rs = Releases(order)
         /\ \A i \in 1 .. Len(rs) : Fits(rs[i])' /\ pc[rs[i].k] = "held" /\ rs[i].k \in Locks
         /\ \A i, j \in 1 .. Len(rs) : rs[i].k = rs[j].k => i = j
  BY PrunedEvents
<1>3. \A i \in 1 .. Len(rs) : Fits(rs[i])' /\ pc[rs[i].k] \notin Waits
  BY <1>2 DEF Waits
<1>4. QED
  BY <1>1, <1>2, <1>3, Enqueue

(* The lock l becomes the running request q: the units that q does not ask *)
(* for are stranded.                                                       *)
LEMMA HandOver ==
  ASSUME LocksInv, TypeOK', NEW q \in Requests, NEW l \in Locks, NEW r \in rows, NEW n \in Nat,
         pc[q] = "idle", pc[l] = "held", stack[l] = r,
         pc'[q] = "running", pc'[l] = "idle", stack'[q] = r, stack'[l] = NoStack, units'[q] = n,
         \A j \in Slots \ {q, l} : Same(j) \/ Pruned(j),
         stranded' = [stranded EXCEPT ![r] = @ + (units[l] - n)],
         UNCHANGED <<buyer, bought, rows, computed, locked>>
  PROVE  SlotsOK' /\ Ledger'
<1>1. /\ TypeOK /\ SlotsOK /\ Ledger /\ q \in Slots /\ l \in Slots /\ q # l /\ r \in Stacks
      /\ q \notin Locks /\ l \notin Requests
  BY SlotsAssumption, RowsAreStacks DEF LocksInv, Ledger, Slots
<1>2. SlotsOK'
  <2>1. ASSUME NEW j \in Slots
        PROVE  /\ pc'[j] \in Without => stack'[j] = NoStack
               /\ pc'[j] \in Owes => stack'[j] \in rows
               /\ pc'[j] = "storing" => stack'[j] \in (1 .. bought) \ rows
    <3>1. CASE j \in {q, l}
      BY <3>1 DEF Without, Owes
    <3>2. CASE j \notin {q, l}
      BY <1>1, <3>2 DEF SlotsOK, Same, Pruned, Without, Owes
    <3>3. QED
      BY <3>1, <3>2
  <2>2. \A m \in Locks : pc'[m] \in {"buying", "storing"} <=> pc[m] \in {"buying", "storing"}
    BY <1>1 DEF Same, Pruned, Slots
  <2>3. \A p \in Requests : pc'[p] \in {"idle", "running", "releasing"}
    BY <1>1 DEF Same, Pruned, Slots, SlotsOK
  <2>4. QED
    BY <1>1, <2>1, <2>2, <2>3 DEF SlotsOK
<1>3. /\ Owed[l] = units[l] /\ units[l] \in Nat /\ Owed'[q] = n
      /\ stack[q] = NoStack /\ NoStack \notin Stacks
  <2>1. Owed[l] = units[l] /\ Owed'[q] = n
    BY <1>1, OwedIs, OwedIsNext DEF Owes
  <2>2. units[l] \in Nat
    BY <1>1 DEF TypeOK
  <2>3. stack[q] = NoStack
    BY <1>1 DEF SlotsOK, Without
  <2>4. NoStack \notin Stacks
    BY DEF Stacks, NoStack
  <2>5. QED
    BY <2>1, <2>2, <2>3, <2>4
<1>4. /\ stranded'[r] = stranded[r] + (units[l] - n)
      /\ \A s \in Stacks \ {r} : stranded'[s] = stranded[s]
  BY <1>1 DEF TypeOK
<1>5. \A j \in Slots \ {q, l} : Owed'[j] = Owed[j] /\ stack'[j] = stack[j]
  BY <1>1, OwesTheSame
<1>6. FreshOK' /\ Capacity'
  BY <1>1, <1>4 DEF Ledger, FreshOK, Capacity
<1>7. Owing'
  <2>1. SUFFICES ASSUME NEW s \in Stacks PROVE IsSum(locked'[s] - stranded'[s], Owed', OfStack(s)')
    BY DEF Owing
  <2>2. PICK f, g, A, B : f = Owed /\ g = Owed' /\ A = OfStack(s) /\ B = OfStack(s)'
    OBVIOUS
  <2>3. A = {j \in Slots : stack[j] = s} /\ B = {j \in Slots : stack'[j] = s}
    BY <2>2 DEF OfStack
  <2>4. PICK c : c = locked[s] - stranded[s]
    OBVIOUS
  <2>5. IsSum(c, f, A)
    BY <1>1, <2>2, <2>4 DEF Ledger, Owing
  <2>6. q \notin A /\ l \notin B
    BY <1>3, <2>3
  <2>7. locked[s] \in Int /\ stranded[s] \in Int
    BY <1>1 DEF TypeOK
  <2>8. CASE s = r
    <3>1. l \in A /\ q \in B /\ A \ {l} = B \ {q} /\ \A j \in A \ {l} : g[j] = f[j]
      BY <1>1, <1>5, <2>2, <2>3, <2>6, <2>8
    <3>2. f[l] = units[l] /\ g[q] = n
      BY <1>3, <2>2
    <3>3. PICK C : C = A \ {l}
      OBVIOUS
    <3>4. IsSum(c - f[l], g, C)
      BY <1>3, <2>5, <3>1, <3>2, <3>3, SumLeave
    <3>5. IsSum(c - f[l] + g[q], g, C \cup {q})
      BY <2>6, <3>2, <3>3, <3>4, SumJoin
    <3>6. C \cup {q} = B
      BY <3>1, <3>3
    <3>7. c - f[l] + g[q] = locked'[s] - stranded'[s]
      BY <1>3, <1>4, <2>4, <2>7, <2>8, <3>2
    <3>8. QED
      BY <2>2, <3>5, <3>6, <3>7
  <2>9. CASE s # r
    <3>1. A = B /\ \A j \in A : g[j] = f[j]
      BY <1>1, <1>5, <2>2, <2>3, <2>6, <2>9
    <3>2. IsSum(c, g, B)
      BY <2>5, <3>1, SumSame
    <3>3. c = locked'[s] - stranded'[s]
      BY <1>4, <2>4, <2>9
    <3>4. QED
      BY <2>2, <3>2, <3>3
  <2>10. QED
    BY <2>8, <2>9
<1>8. QED
  BY <1>2, <1>6, <1>7 DEF Ledger

LEMMA Admits == ASSUME LocksInv, NEW q \in Requests, confidential_compute_middleware(q) PROVE LocksInv'
<1>1. TypeOK /\ ChannelOK /\ SlotsOK /\ Ledger /\ q \in Slots /\ TableTypes /\ q \notin Locks
  BY Tables, SlotsAssumption DEF LocksInv, Ledger, Slots
<1>2. pc[q] = "idle" /\ UNCHANGED <<buyer, bought, rows, computed, locked, closed, unbacked, errors, crashes>>
  BY DEF confidential_compute_middleware, table, faults, history
<1> DEFINE
      Takes(r, e, n, l, S) ==
        /\ pc' = [k \in Slots |-> CASE k = q -> "running"
                                    [] k = l -> "idle"
                                    [] OTHER -> IF k \in S THEN "releasing" ELSE pc[k]]
        /\ stack' = [stack EXCEPT ![q] = r, ![l] = NoStack]
        /\ units' = [units EXCEPT ![q] = n, ![l] = 0]
        /\ endpoint' = [endpoint EXCEPT ![q] = e]
        /\ expired' = expired \ (S \cup {l})
        /\ stranded' = [stranded EXCEPT ![r] = @ + (units[l] - n)]
      Prunes(S) ==
        /\ pc' = [k \in Slots |-> IF k \in S THEN "releasing" ELSE pc[k]]
        /\ expired' = expired \ S
        /\ UNCHANGED <<stack, units, endpoint, stranded>>
      Looks(r, e, n, S) ==
        /\ S = Prunable(HeldOf(r))
        /\ \E order \in Orders(S) : queue' = queue \o Releases(order)
        /\ (\E l \in HeldOf(r) \ S : Takes(r, e, n, l, S)) \/ Prunes(S)
<1>3a. PICK r, e, n, S :
        /\ r \in rows /\ e \in Endpoints /\ n \in Tokens /\ S = Prunable(HeldOf(r))
        /\ \E order \in Orders(S) : queue' = queue \o Releases(order)
        /\ \/ \E l \in {l \in HeldOf(r) \ S : MeetsCriteria(l, n)} : Takes(r, e, n, l, S)
           \/ Prunes(S)
  BY DEF confidential_compute_middleware, Strand
<1>3. r \in rows /\ n \in Tokens /\ e \in Endpoints /\ Looks(r, e, n, S)
  BY <1>3a
<1>4. S \subseteq Held /\ S \subseteq Slots /\ S \subseteq Locks /\ q \notin S /\ r \in Stacks /\ n \in Nat
  BY <1>1, <1>3, RowsAreStacks, UnitsAssumption DEF Prunable, HeldOf, Held, Slots
<1>5. CASE \E l \in HeldOf(r) \ S : Takes(r, e, n, l, S)
  <2>1. PICK l \in HeldOf(r) \ S : Takes(r, e, n, l, S)
    BY <1>5
  <2>2. l \in Locks /\ l \in Slots /\ pc[l] = "held" /\ stack[l] = r /\ l # q /\ l \notin S
    BY <1>1, <2>1 DEF HeldOf, Held, Slots
  <2>3. /\ pc'[q] = "running" /\ pc'[l] = "idle"
        /\ \A j \in Slots \ {q, l} : pc'[j] = IF j \in S THEN "releasing" ELSE pc[j]
    BY <1>1, <2>1, <2>2
  <2>4. /\ stack'[q] = r /\ stack'[l] = NoStack /\ units'[q] = n /\ units'[l] = 0
        /\ \A j \in Slots \ {q, l} : stack'[j] = stack[j] /\ units'[j] = units[j]
    BY <1>1, <2>1, <2>2 DEF TypeOK
  <2>5. (\A j \in S : Pruned(j)) /\ \A j \in Slots \ (S \cup {q, l}) : Same(j)
    BY <1>4, <2>2, <2>3, <2>4 DEF Pruned, Same, Held
  <2>6. \A j \in Slots : pc[j] \in Waits => Same(j)
    BY <1>2, <1>4, <2>2, <2>5 DEF Waits, Held
  <2>7. ChannelOK'
    BY <1>1, <1>2, <1>3, <1>4, <2>5, <2>6, PruneChannel
  <2>8. TypeOK'
    <3>1. pc' \in [Slots -> LockLabels \cup {"running"}]
      <4>1. \A j \in Slots : pc'[j] \in LockLabels \cup {"running"}
        BY <1>1, <2>3 DEF TypeOK, LockLabels
      <4>2. pc' = [j \in Slots |-> pc'[j]]
        BY <2>1
      <4>3. QED
        BY <4>1, <4>2
    <3>2. stack' \in [Slots -> Stacks \cup {NoStack}] /\ units' \in [Slots -> Nat]
      BY <1>1, <1>4, <2>1 DEF TypeOK
    <3>3. endpoint' \in [Slots -> Endpoints \cup {NoEndpoint}]
      <4>1. e \in Endpoints /\ endpoint' = [endpoint EXCEPT ![q] = e]
        BY <1>3, <2>1
      <4>2. QED
        BY <1>1, <4>1 DEF TypeOK
    <3>4. expired' \subseteq Held'
      <4>1. PICK T : T = S \cup {q, l}
        OBVIOUS
      <4>2. expired' = expired \ T
        BY <1>1, <1>2, <2>1, <4>1 DEF TypeOK, Held
      <4>3. \A j \in Slots \ T : pc'[j] = pc[j]
        BY <2>5, <4>1 DEF Same
      <4>4. QED
        BY <1>1, <4>2, <4>3, PrunedTypes
    <3>5. stranded' \in [Stacks -> Int]
      <4>1. units[l] - n \in Int /\ stranded \in [Stacks -> Int]
        BY <1>1, <1>4, <2>2 DEF TypeOK
      <4>2. QED
        BY <1>4, <2>1, <4>1
    <3>6. QED
      BY <1>1, <1>2, <2>7, <3>1, <3>2, <3>3, <3>4, <3>5 DEF TypeOK, ChannelOK, Events
  <2>9. SlotsOK' /\ Ledger'
    <3>1. r \in rows /\ \A j \in Slots \ {q, l} : Same(j) \/ Pruned(j)
      BY <1>3, <2>5
    <3>2. QED
      BY <1>2, <1>4, <2>1, <2>2, <2>3, <2>4, <2>8, <3>1, HandOver
  <2>10. QED
    BY <2>7, <2>8, <2>9 DEF LocksInv, Ledger
<1>6. CASE Prunes(S)
  <2>1. (\A j \in S : Pruned(j)) /\ \A j \in Slots \ S : Same(j)
    BY <1>4, <1>6 DEF Pruned, Same, Held
  <2>2. \A j \in Slots : pc[j] \in Waits => Same(j)
    BY <1>4, <2>1 DEF Waits, Held
  <2>3. ChannelOK'
    BY <1>1, <1>2, <1>3, <1>4, <2>1, <2>2, PruneChannel
  <2>4. TypeOK'
    <3>1. pc' \in [Slots -> LockLabels \cup {"running"}]
      BY <1>1, <1>6 DEF TypeOK, LockLabels
    <3>2. expired' \subseteq Held'
      <4>1. \A j \in Slots \ S : pc'[j] = pc[j]
        BY <2>1 DEF Same
      <4>2. QED
        BY <1>1, <1>6, <4>1, PrunedTypes
    <3>3. QED
      BY <1>1, <1>2, <1>6, <2>3, <3>1, <3>2 DEF TypeOK, ChannelOK, Events
  <2>5. pc'[q] = "idle" /\ stack'[q] = stack[q] /\ Same(q)
    BY <1>1, <1>2, <1>4, <1>6, <2>1
  <2>6. \A j \in Slots \ {q} : Same(j) \/ Pruned(j)
    BY <2>1
  <2>7. SlotsOK'
    <3>1. bought \in Nat /\ bought' = bought /\ rows' = rows /\ buyer' = buyer /\ bought <= bought
      BY <1>1, <1>2 DEF TableTypes
    <3>2. \A j \in Slots \ {q} : pc[j] = "storing" => stack[j] \notin rows
      BY <1>1 DEF SlotsOK
    <3>3. pc'[q] \notin Owes /\ pc'[q] # "storing" /\ stack'[q] = NoStack
      BY <1>1, <1>2, <2>5 DEF Owes, SlotsOK, Without
    <3>4. QED
      BY <1>1, <2>5, <2>6, <3>1, <3>2, <3>3, MoveSlots
  <2>8. Owed'[q] = Owed[q]
    BY <1>1, <2>4, <2>5, OwesTheSame
  <2>9. Ledger'
    BY <1>1, <1>2, <1>6, <2>4, <2>5, <2>6, <2>8, MoveFree
  <2>10. QED
    BY <2>3, <2>4, <2>7, <2>9 DEF LocksInv, Ledger
<1>7. QED
  BY <1>3, <1>5, <1>6

-----------------------------------------------------------------------------
LEMMA NextKeeps == ASSUME LocksInv, [Next]_vars PROVE LocksInv'
<1>1. CASE \E l \in Locks : nodes_create_lock(l) \/ LockStep(l) \/ ChainStep(l) \/ Expire(l)
  <2>1. PICK l \in Locks : nodes_create_lock(l) \/ LockStep(l) \/ ChainStep(l) \/ Expire(l)
    BY <1>1
  <2>2. QED
    BY <2>1, Creates, InMemory, TryLock, ForNode, Acquires, PurchaseFailed, Expires DEF LockStep, ChainStep
<1>2. CASE \E q \in Requests : confidential_compute_middleware(q) \/ NodeStep(q)
  <2>1. PICK q \in Requests : confidential_compute_middleware(q) \/ NodeStep(q)
    BY <1>2
  <2>2. QED
    BY <2>1, Admits, Answers, Abandons
       DEF NodeStep, ImageGenerated, ExtractorRejects, HandlerPanics
<1>3. CASE StateManagerStep
  BY <1>3, Selects, Stores, Updates, LocksRow DEF StateManagerStep
<1>4. CASE DatabaseError
  BY <1>4, Errors
<1>5. CASE \E s \in Stacks : CloseStack(s)
  BY <1>5, Closes
<1>6. CASE Crash
  BY <1>6, Crashes
<1>7. CASE UNCHANGED vars
  BY <1>7, Stutters
<1>8. QED
  BY <1>1, <1>2, <1>3, <1>4, <1>5, <1>6, <1>7 DEF Next

(* The invariant holds in every state the proxy reaches, whatever calls,   *)
(* requests, answers, database errors and crashes it meets, and however    *)
(* the state manager falls behind.                                         *)
THEOREM LocksInvariant == Spec => []LocksInv
<1>1. Init => LocksInv
  BY Starts
<1>2. LocksInv /\ [Next]_vars => LocksInv'
  BY NextKeeps
<1>3. QED
  BY <1>1, <1>2, PTL DEF Spec

(* TypeOK, for any number of slots and stacks: a lock that is expired is   *)
(* in memory, and a stack that is closed has a row.                        *)
THEOREM LocksTypes == Spec => []TypeOK
<1>1. LocksInv => TypeOK
  BY DEF LocksInv
<1>2. QED
  BY <1>1, LocksInvariant, PTL

(* UnitsAccounted: the units locked in a row of the table stacks are those *)
(* of its locks in memory, its running requests and its releases in the    *)
(* channel, each once, and the stranded ones: no interleaving of pruning,  *)
(* use and settlement gives the units of a lock back twice.                *)
THEOREM UnitsAreAccounted == Spec => []UnitsAccounted
<1>1. LocksInv => UnitsAccounted
  <2>1. SUFFICES ASSUME LocksInv, NEW s \in rows
                 PROVE  locked[s] = SumOver(Owed, OfStack(s)) + stranded[s]
    BY DEF UnitsAccounted
  <2>2. s \in Stacks
    BY <2>1, RowsAreStacks DEF LocksInv
  <2>3. PICK n : n = SumOver(Owed, OfStack(s)) /\ n = locked[s] - stranded[s]
    BY <2>1, <2>2 DEF LocksInv, Owing, IsSum
  <2>4. locked[s] \in Int /\ stranded[s] \in Int
    BY <2>1, <2>2 DEF LocksInv, TypeOK
  <2>5. locked[s] = n + stranded[s]
    BY <2>3, <2>4
  <2>6. QED
    BY <2>3, <2>5
<1>2. QED
  BY <1>1, LocksInvariant, PTL

-----------------------------------------------------------------------------
(* What is promised beyond the units of a stack.                           *)

LEMMA BackedKeeps ==
  ASSUME TypeOK, Backed, unbacked' = unbacked,
         \/ stranded' = stranded
         \/ \E s \in Stacks, d \in Nat : stranded' = [stranded EXCEPT ![s] = @ + d]
  PROVE  Backed'
<1>1. CASE stranded' = stranded
  BY <1>1 DEF Backed
<1>2. ASSUME NEW s \in Stacks, NEW d \in Nat, stranded' = [stranded EXCEPT ![s] = @ + d],
             NEW t \in Stacks
      PROVE  stranded'[t] + unbacked'[t] >= 0
  <2>1. stranded[t] \in Int /\ unbacked[t] \in Nat /\ stranded[t] + unbacked[t] >= 0
    BY DEF TypeOK, Backed
  <2>2. stranded'[t] = IF t = s THEN stranded[t] + d ELSE stranded[t]
    BY <1>2 DEF TypeOK
  <2>3. QED
    BY <2>1, <2>2
<1>3. QED
  BY <1>1, <1>2 DEF Backed

(* The stack of a slot that owes is a stack. *)
LEMMA OwesAStack == ASSUME LocksInv, NEW k \in Slots, pc[k] \in Owes PROVE stack[k] \in Stacks
  BY RowsAreStacks DEF LocksInv, SlotsOK

(* The buyer's lock is the one that may be remembered with more units than *)
(* the row has for it, and unbacked counts them.                           *)
LEMMA BackedForNode ==
  ASSUME LocksInv, Backed, NEW l \in Locks, select_node_public_key_for_encryption_for_node(l)
  PROVE  Backed'
<1>1. TypeOK /\ l \in Slots /\ Default \in Nat /\ units[l] \in Nat
  BY UnitsAssumption DEF LocksInv, TypeOK, Slots
<1>2. PICK r \in Stacks : r = stack[l]
  BY <1>1, OwesAStack DEF select_node_public_key_for_encryption_for_node, Owes
<1>3. CASE /\ stranded' = [stranded EXCEPT ![r] = @ + (Default - units[l])]
           /\ unbacked' = [unbacked EXCEPT ![r] = @ + Excess(units[l], Default)]
  <2>1. PICK d \in Int, x \in Nat : /\ d = Default - units[l] /\ x = Excess(units[l], Default)
                                    /\ d + x >= 0
    <3>1. PICK x \in Nat : x = Excess(units[l], Default) /\ Default - units[l] + x >= 0
      BY <1>1 DEF Excess
    <3>2. Default - units[l] \in Int
      BY <1>1
    <3>3. QED
      BY <3>1, <3>2
  <2>2. ASSUME NEW t \in Stacks PROVE stranded'[t] + unbacked'[t] >= 0
    <3>1. stranded[t] \in Int /\ unbacked[t] \in Nat /\ stranded[t] + unbacked[t] >= 0
      BY <1>1 DEF TypeOK, Backed
    <3>2. /\ stranded'[t] = IF t = r THEN stranded[t] + d ELSE stranded[t]
          /\ unbacked'[t] = IF t = r THEN unbacked[t] + x ELSE unbacked[t]
      BY <1>1, <1>3, <2>1 DEF TypeOK
    <3>3. QED
      BY <2>1, <3>1, <3>2
  <2>3. QED
    BY <2>2 DEF Backed
<1>4. CASE stranded' = [stranded EXCEPT ![r] = @ + Default] /\ unbacked' = unbacked
  BY <1>1, <1>4, BackedKeeps
<1>5. QED
  BY <1>2, <1>3, <1>4 DEF select_node_public_key_for_encryption_for_node, Strand

LEMMA BackedLocks ==
  ASSUME LocksInv, Backed, NEW l \in Locks,
         nodes_create_lock(l) \/ LockStep(l) \/ ChainStep(l) \/ Expire(l)
  PROVE  Backed'
<1>1. CASE \/ nodes_create_lock(l) \/ lock_compute_units_in_memory(l) \/ acquire_new_stack(l)
           \/ Expire(l) \/ try_lock(l) \/ PurchaseFails(l)
  <2>1. UNCHANGED <<stranded, unbacked>>
    BY <1>1 DEF nodes_create_lock, lock_compute_units_in_memory, acquire_new_stack, Expire,
         try_lock, PurchaseFails, history
  <2>2. QED
    BY <2>1, BackedKeeps DEF LocksInv
<1>2. QED
  BY <1>1, BackedForNode DEF LockStep, ChainStep

LEMMA BackedRequests ==
  ASSUME LocksInv, Backed, NEW q \in Requests, confidential_compute_middleware(q) \/ NodeStep(q)
  PROVE  Backed'
<1>1. TypeOK /\ q \in Slots /\ units[q] \in Nat
  BY DEF LocksInv, TypeOK, Slots
<1>2. CASE confidential_compute_middleware(q)
  <2>1. unbacked' = unbacked
    BY <1>2 DEF confidential_compute_middleware
  <2>2. CASE stranded' = stranded
    BY <1>1, <2>1, <2>2, BackedKeeps
  <2>3. CASE stranded' # stranded
    <3>1. PICK s \in rows, n \in Tokens, l \in Held :
             /\ MeetsCriteria(l, n)
             /\ stranded' = [stranded EXCEPT ![s] = @ + (units[l] - n)]
      BY <1>2, <2>3 DEF confidential_compute_middleware, HeldOf, Strand
    <3>2. l \in Slots /\ s \in Stacks /\ n \in Nat
      BY <1>1, <3>1, RowsAreStacks, UnitsAssumption DEF Held, Slots
    <3>3. units[l] \in Nat /\ units[l] >= n
      BY <1>1, <3>1, <3>2 DEF TypeOK, MeetsCriteria
    <3>4. PICK d \in Nat : d = units[l] - n
      BY <3>2, <3>3
    <3>5. QED
      BY <1>1, <2>1, <3>1, <3>2, <3>4, BackedKeeps
  <2>4. QED
    BY <2>2, <2>3
<1>3. CASE NodeStep(q)
  <2>1. pc[q] = "running" /\ unbacked' = unbacked
    BY <1>3 DEF NodeStep, HandlerAnswers, ImageGenerated, HandlerFails, HandlerLocked,
         ExtractorRejects, HandlerPanics, Abandon
  <2>2. stack[q] \in Stacks
    BY <1>1, <2>1, OwesAStack DEF Owes
  <2>3. PICK d \in {units[q], units[q] - Estimate(q)} :
          stranded' = [stranded EXCEPT ![stack[q]] = @ + d]
    BY <1>3 DEF NodeStep, HandlerAnswers, ImageGenerated, HandlerFails, HandlerLocked, SettleWith,
         ExtractorRejects, HandlerPanics, Abandon, Strand
  <2>4. Estimate(q) \in Nat /\ Estimate(q) <= units[q]
    BY <1>1, EstimateFits
  <2>5. d \in Nat
    BY <1>1, <2>4
  <2>6. QED
    BY <1>1, <2>1, <2>2, <2>3, <2>5, BackedKeeps
<1>4. QED
  BY <1>2, <1>3

LEMMA BackedManager ==
  ASSUME LocksInv, Backed, StateManagerStep \/ DatabaseError PROVE Backed'
<1>1. queue # <<>>
  BY DEF StateManagerStep, select_node_public_key_for_encryption, NewStackAcquired,
         update_stack_num_tokens, lock_stack, DatabaseError, First
<1>2. PICK e \in Events : e = Head(queue) /\ Fits(e) /\ e.k \in Slots
  BY <1>1, FirstIs
<1>3. TypeOK /\ units[e.k] \in Nat
  BY <1>2 DEF LocksInv, TypeOK
<1>4. unbacked' = unbacked
  BY DEF StateManagerStep, select_node_public_key_for_encryption, NewStackAcquired,
         update_stack_num_tokens, lock_stack, DatabaseError, history
<1>5. \/ stranded' = stranded
      \/ e.op = "UpdateStackNumTokens" /\ stranded' = [stranded EXCEPT ![e.s] = @ + units[e.k]]
  BY <1>2 DEF StateManagerStep, select_node_public_key_for_encryption, NewStackAcquired,
         update_stack_num_tokens, lock_stack, DatabaseError, Strand, First, history
<1>6. e.op = "UpdateStackNumTokens" => e.s \in Stacks
  BY <1>2, OwesAStack DEF Fits, Owes
<1>7. QED
  BY <1>3, <1>4, <1>5, <1>6, BackedKeeps

(* A crash strands all that is locked: what was owed joins what was        *)
(* stranded before.                                                        *)
LEMMA BackedCrash == ASSUME LocksInv, Backed, Crash PROVE Backed'
<1>1. stranded' = locked /\ unbacked' = unbacked
  BY DEF Crash
<1>2. ASSUME NEW s \in Stacks PROVE locked[s] + unbacked[s] >= 0
  <2>1. PICK n, f, A : n = locked[s] - stranded[s] /\ f = Owed /\ A = OfStack(s) /\ IsSum(n, f, A)
    BY DEF LocksInv, Owing
  <2>2. n \in Nat
    BY <2>1, SumIsNat
  <2>3. /\ locked[s] \in Int /\ stranded[s] \in Int /\ unbacked[s] \in Nat
        /\ stranded[s] + unbacked[s] >= 0
    BY DEF LocksInv, TypeOK, Backed
  <2>4. QED
    BY <2>1, <2>2, <2>3
<1>3. QED
  BY <1>1, <1>2 DEF Backed

LEMMA BackedNext == ASSUME LocksInv, Backed, [Next]_vars PROVE Backed'
<1>1. CASE \E l \in Locks : nodes_create_lock(l) \/ LockStep(l) \/ ChainStep(l) \/ Expire(l)
  BY <1>1, BackedLocks
<1>2. CASE \E q \in Requests : confidential_compute_middleware(q) \/ NodeStep(q)
  BY <1>2, BackedRequests
<1>3. CASE StateManagerStep \/ DatabaseError
  BY <1>3, BackedManager
<1>4. CASE (\E s \in Stacks : CloseStack(s)) \/ UNCHANGED vars
  <2>1. UNCHANGED <<stranded, unbacked>>
    BY <1>4 DEF CloseStack, vars, history
  <2>2. QED
    BY <2>1, BackedKeeps DEF LocksInv
<1>5. CASE Crash
  BY <1>5, BackedCrash
<1>6. QED
  BY <1>1, <1>2, <1>3, <1>4, <1>5 DEF Next

(* PromisesFit, whatever clients ask for: what locks and requests may      *)
(* still use exceeds the room of a row by no more than its buyers asked    *)
(* for above the default.  The row locks the default for the lock of its   *)
(* buyer and the map remembers max_num_tokens; that is the one way in      *)
(* which more is promised than the row has.                                *)
THEOREM PromisesAlwaysFit == Spec => []PromisesFit
<1>1. Init => Backed
  BY DEF Init, Backed
<1>2. LocksInv /\ Backed /\ [Next]_vars => Backed'
  BY BackedNext
<1>3. LocksInv /\ Backed => PromisesFit
  <2>1. SUFFICES ASSUME LocksInv, Backed, NEW s \in rows
                 PROVE  computed[s] + SumOver(Owed, OfStack(s)) <= StackSize + unbacked[s]
    BY DEF PromisesFit
  <2>2. s \in Stacks
    BY <2>1, RowsAreStacks DEF LocksInv
  <2>3. PICK n : n = SumOver(Owed, OfStack(s)) /\ n = locked[s] - stranded[s]
    BY <2>1, <2>2 DEF LocksInv, Owing, IsSum
  <2>4. /\ locked[s] \in Int /\ stranded[s] \in Int /\ unbacked[s] \in Nat
        /\ stranded[s] + unbacked[s] >= 0 /\ computed[s] \in Nat
        /\ computed[s] + locked[s] <= StackSize /\ StackSize \in Nat
    BY <2>1, <2>2, UnitsAssumption DEF LocksInv, TypeOK, Backed, Capacity
  <2>5. computed[s] + n <= StackSize + unbacked[s]
    BY <2>3, <2>4
  <2>6. QED
    BY <2>3, <2>5
<1>4. QED
  BY <1>1, <1>2, <1>3, LocksInvariant, PTL DEF Spec
============================================================================
