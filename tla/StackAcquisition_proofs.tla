----------------------- MODULE StackAcquisition_proofs -----------------------
(***************************************************************************)
(* The invariants of StackAcquisition hold for any requests, estimates,    *)
(* prices and bounds.  Together they are inductive: that a settlement      *)
(* finds the units it releases needs the agreement of channel, requests    *)
(* and table, and the accounts of USDC need that only one request buys.    *)
(***************************************************************************)
EXTENDS StackAcquisition, SumTheorems, SequenceTheorems

USE NoRequestAssumption, TokensAssumption, PricesAssumption, SizesAssumption

(* UnitsMatch, and the sums are finite ones. *)
UnitsSum ==
  \A s \in rows : IsSum(locked[s], tokens, {r \in Requests : hold[r] = s})

(* A stack that has no row yet was not used. *)
FreshStacks == \A s \in Stacks \ rows : computed[s] = 0

UnitsAgree == UnitsSum /\ FreshStacks

(* Usage is reported for requests that have ended, of stacks with a row,   *)
(* their settlements carry it, and UsageMatches with finite sums.          *)
Reports ==
  \A r \in Requests : reported[r] > 0 => pc[r] = "ended" /\ stack[r] \in rows
SettlementsReport ==
  \A i \in 1 .. Len(queue) :
    queue[i].op = "UpdateStackNumTokens" => queue[i].used = reported[queue[i].r]
UsageSum == \A s \in rows : IsSum(computed[s], reported, UsersOf(s))

UsageAgree == Reports /\ SettlementsReport /\ UsageSum

Inv ==
  /\ TypeOK /\ OneBuyer /\ UsdcAccounted
  /\ UnitsAgree /\ EventsAgree /\ UsageAgree

(* The requests that have units of a stack. *)
Holders(s) == {r \in Requests : hold[r] = s}

(* The labels of a request that waits for the state manager. *)
Waiting == {"selecting", "polling", "deducting", "storing", "refunding", "ended"}

Messages == [op : Ops, r : Requests, used : Nat]

-----------------------------------------------------------------------------
(* Facts about the channel.                                                *)

(* The event that the state manager handles, and the request it is for. *)
LEMMA HeadFacts ==
  ASSUME TypeOK, QueueAgrees, queue # <<>>
  PROVE  /\ 1 \in 1 .. Len(queue) /\ Head(queue) = queue[1]
         /\ Head(queue) \in Messages
         /\ Head(queue).r \in Requests /\ Head(queue).op \in Ops /\ Head(queue).used \in Nat
         /\ pc[Head(queue).r] = WaitsFor(Head(queue).op)
         /\ Head(queue).op = "UpdateStackNumTokens" =>
              /\ hold[Head(queue).r] = stack[Head(queue).r]
              /\ stack[Head(queue).r] \in rows
<1>1. queue \in Seq(Messages)
  BY DEF TypeOK, Messages
<1>2. 1 \in 1 .. Len(queue) /\ Head(queue) = queue[1] /\ Head(queue) \in Messages
  BY <1>1
<1>3. Head(queue).r \in Requests /\ Head(queue).op \in Ops /\ Head(queue).used \in Nat
  BY <1>2 DEF Messages
<1>4. QED
  BY <1>2, <1>3 DEF QueueAgrees

(* What is left once it is handled. *)
LEMMA TailFacts ==
  ASSUME TypeOK, queue # <<>>
  PROVE  /\ Tail(queue) \in Seq(Messages)
         /\ \A i \in 1 .. Len(Tail(queue)) :
              i + 1 \in 1 .. Len(queue) /\ i + 1 # 1 /\ Tail(queue)[i] = queue[i + 1]
         /\ \A i, j \in 1 .. Len(Tail(queue)) : i + 1 = j + 1 => i = j
<1>1. queue \in Seq(Messages)
  BY DEF TypeOK, Messages
<1>2. QED
  BY <1>1

(* A request has no event in the channel unless it waits for one. *)
LEMMA NotWaiting ==
  ASSUME TypeOK, QueueAgrees, NEW r \in Requests, pc[r] \notin Waiting
  PROVE  \A i \in 1 .. Len(queue) : queue[i].r # r
<1>1. queue \in Seq(Messages)
  BY DEF TypeOK, Messages
<1>2. ASSUME NEW i \in 1 .. Len(queue) PROVE queue[i].r # r
  <2>1. queue[i] \in Messages
    BY <1>1
  <2>2. queue[i].op \in Ops /\ queue[i].r \in Requests
    BY <2>1 DEF Messages
  <2>3. WaitsFor(queue[i].op) \in Waiting
    BY <2>2 DEF WaitsFor, Ops, Waiting
  <2>4. QED
    BY <2>3 DEF QueueAgrees
<1>3. QED
  BY <1>2

(* An event is taken out of the channel and its request goes on. *)
LEMMA Popped ==
  ASSUME TypeOK, QueueAgrees, OneEventEach, queue # <<>>, queue' = Tail(queue),
         \A q \in Requests \ {Head(queue).r} :
           pc'[q] = pc[q] /\ hold'[q] = hold[q] /\ stack'[q] = stack[q],
         rows \subseteq rows'
  PROVE  QueueAgrees' /\ OneEventEach'
<1>1. queue \in Seq(Messages)
  BY DEF TypeOK, Messages
<1>2. ASSUME NEW i \in 1 .. Len(Tail(queue))
      PROVE  /\ i + 1 \in 1 .. Len(queue) /\ Tail(queue)[i] = queue[i + 1]
             /\ queue[i + 1].r \in Requests \ {Head(queue).r}
  <2>1. i + 1 \in 1 .. Len(queue) /\ i + 1 # 1 /\ Tail(queue)[i] = queue[i + 1]
    BY TailFacts
  <2>2. 1 \in 1 .. Len(queue) /\ Head(queue) = queue[1]
    BY HeadFacts
  <2>3. queue[i + 1] \in Messages
    BY <1>1, <2>1
  <2>4. queue[i + 1].r \in Requests
    BY <2>3 DEF Messages
  <2>5. queue[i + 1].r # queue[1].r
    BY <2>1, <2>2 DEF OneEventEach
  <2>6. QED
    BY <2>1, <2>2, <2>4, <2>5
<1>3. QueueAgrees'
  <2>1. SUFFICES ASSUME NEW i \in 1 .. Len(Tail(queue))
                 PROVE  /\ pc'[Tail(queue)[i].r] = WaitsFor(Tail(queue)[i].op)
                        /\ Tail(queue)[i].op = "UpdateStackNumTokens" =>
                             /\ hold'[Tail(queue)[i].r] = stack'[Tail(queue)[i].r]
                             /\ stack'[Tail(queue)[i].r] \in rows'
    BY DEF QueueAgrees, WaitsFor
  <2>2. /\ pc[queue[i + 1].r] = WaitsFor(queue[i + 1].op)
        /\ queue[i + 1].op = "UpdateStackNumTokens" =>
             hold[queue[i + 1].r] = stack[queue[i + 1].r] /\ stack[queue[i + 1].r] \in rows
    BY <1>2 DEF QueueAgrees
  <2>3. QED
    BY <1>2, <2>2
<1>4. OneEventEach'
  <2>1. SUFFICES ASSUME NEW i \in 1 .. Len(Tail(queue)), NEW j \in 1 .. Len(Tail(queue)),
                        Tail(queue)[i].r = Tail(queue)[j].r
                 PROVE  i = j
    BY DEF OneEventEach
  <2>2. i + 1 = j + 1
    BY <1>2, <2>1 DEF OneEventEach
  <2>3. QED
    BY <2>2, TailFacts
<1>5. QED
  BY <1>3, <1>4

(* A request that had no event in the channel sends one and waits. *)
LEMMA Pushed ==
  ASSUME TypeOK, QueueAgrees, OneEventEach, NEW r \in Requests, pc[r] \notin Waiting,
         NEW op \in Ops, NEW used \in Nat,
         Send(op, r, used), Goto(r, WaitsFor(op)),
         \A q \in Requests \ {r} : stack'[q] = stack[q],
         hold' = hold, rows' = rows,
         op = "UpdateStackNumTokens" => hold[r] = stack'[r] /\ stack'[r] \in rows
  PROVE  QueueAgrees' /\ OneEventEach' /\ queue' \in Seq(Messages)
<1> DEFINE e == [op |-> op, r |-> r, used |-> used]
           n == Len(queue) + 1
<1>1. queue \in Seq(Messages)
  BY DEF TypeOK, Messages
<1>2. e \in Messages
  BY DEF Messages
<1>3. queue' = Append(queue, e)
  BY DEF Send
<1>4. queue' \in Seq(Messages) /\ Len(queue') = n /\ queue'[n] = e /\ n \in Nat
      /\ \A i \in 1 .. Len(queue) : queue'[i] = queue[i]
  <2> HIDE DEF e
  <2>1. QED
    BY <1>1, <1>2, <1>3
<1>5. ASSUME NEW i \in 1 .. n, i # n PROVE i \in 1 .. Len(queue)
  BY <1>1, <1>5
<1>6. \A i \in 1 .. Len(queue) : queue[i].r \in Requests \ {r}
  <2>1. \A i \in 1 .. Len(queue) : queue[i] \in Messages
    BY <1>1
  <2>2. QED
    BY <2>1, NotWaiting DEF Messages
<1>7. pc'[r] = WaitsFor(op) /\ \A q \in Requests \ {r} : pc'[q] = pc[q]
  BY DEF Goto, TypeOK
<1>8. e.r = r /\ e.op = op
  OBVIOUS
<1> HIDE DEF e, n
<1>9. QueueAgrees'
  <2>1. SUFFICES ASSUME NEW i \in 1 .. n
                 PROVE  /\ pc'[queue'[i].r] = WaitsFor(queue'[i].op)
                        /\ queue'[i].op = "UpdateStackNumTokens" =>
                             /\ hold'[queue'[i].r] = stack'[queue'[i].r]
                             /\ stack'[queue'[i].r] \in rows'
    BY <1>4 DEF QueueAgrees, WaitsFor
  <2>2. CASE i = n
    BY <1>4, <1>7, <1>8, <2>2
  <2>3. CASE i # n
    <3>1. i \in 1 .. Len(queue)
      BY <1>5, <2>3
    <3>2. queue'[i] = queue[i] /\ queue[i].r \in Requests \ {r}
      BY <1>4, <1>6, <3>1
    <3>3. /\ pc[queue[i].r] = WaitsFor(queue[i].op)
          /\ queue[i].op = "UpdateStackNumTokens" =>
               hold[queue[i].r] = stack[queue[i].r] /\ stack[queue[i].r] \in rows
      BY <3>1 DEF QueueAgrees
    <3>4. QED
      BY <1>7, <3>2, <3>3
  <2>4. QED
    BY <2>2, <2>3
<1>10. OneEventEach'
  <2>1. SUFFICES ASSUME NEW i \in 1 .. n, NEW j \in 1 .. n, queue'[i].r = queue'[j].r
                 PROVE  i = j
    BY <1>4 DEF OneEventEach
  <2>2. CASE i = n /\ j # n
    BY <1>4, <1>5, <1>6, <1>8, <2>1, <2>2
  <2>3. CASE i # n /\ j = n
    BY <1>4, <1>5, <1>6, <1>8, <2>1, <2>3
  <2>4. CASE i # n /\ j # n
    <3>1. i \in 1 .. Len(queue) /\ j \in 1 .. Len(queue)
      BY <1>5, <2>4
    <3>2. queue[i].r = queue[j].r
      BY <1>4, <2>1, <3>1
    <3>3. QED
      BY <3>1, <3>2 DEF OneEventEach
  <2>5. QED
    BY <2>2, <2>3, <2>4
<1>11. QED
  BY <1>4, <1>9, <1>10

(* A request that had no event in the channel goes on without sending one. *)
LEMMA Moved ==
  ASSUME TypeOK, QueueAgrees, OneEventEach, NEW r \in Requests, pc[r] \notin Waiting,
         \A q \in Requests \ {r} : pc'[q] = pc[q],
         queue' = queue, hold' = hold, stack' = stack, rows' = rows
  PROVE  QueueAgrees' /\ OneEventEach'
<1>1. queue \in Seq(Messages)
  BY DEF TypeOK, Messages
<1>2. \A i \in 1 .. Len(queue) : queue[i] \in Messages
  BY <1>1
<1>3. \A i \in 1 .. Len(queue) : queue[i].r \in Requests \ {r}
  BY <1>2, NotWaiting DEF Messages
<1>4. \A i \in 1 .. Len(queue) : pc'[queue[i].r] = pc[queue[i].r]
  BY <1>3
<1>5. QueueAgrees'
  BY <1>4 DEF QueueAgrees, WaitsFor
<1>6. QED
  BY <1>5 DEF OneEventEach

-----------------------------------------------------------------------------
(* Types.                                                                  *)

(* Appending an event of the right type keeps the channel's type. *)
LEMMA SendType ==
  ASSUME TypeOK, NEW r \in Requests, NEW op \in Ops, NEW used \in Nat, Send(op, r, used)
  PROVE  queue' \in Seq([op : Ops, r : Requests, used : Nat])
<1>1. [op |-> op, r |-> r, used |-> used] \in Messages
  BY DEF Messages
<1>2. queue \in Seq(Messages)
  BY DEF TypeOK, Messages
<1>3. Append(queue, [op |-> op, r |-> r, used |-> used]) \in Seq(Messages)
  BY <1>1, <1>2, AppendProperties
<1>4. QED
  BY <1>3 DEF Send, Messages

(* The steps of requests and of the chain keep the types. *)
LEMMA RequestTypeStep ==
  ASSUME TypeOK, NEW r \in Requests, RequestStep(r) \/ ChainStep(r) \/ HandlerStep(r)
  PROVE  TypeOK'
<1> USE DEF TypeOK, Goto, request, table, money, outside
<1>2. {"selecting", "locking", "ended", "deducting", "not_locked", "polling", "refused",
       "on_chain", "storing", "not_acquired", "refunding", "selected", "handling"}
        \subseteq Labels
  BY DEF Labels, Buying, Paying
<1>3. CASE HandleTooEarly(r)
  <2>1. queue' \in Seq([op : Ops, r : Requests, used : Nat])
    BY <1>3, SendType DEF HandleTooEarly, Ops
  <2>2. QED
    BY <1>2, <1>3, <2>1 DEF HandleTooEarly
<1>4. CASE get_cheapest_node(r)
  <2>1. pc' \in [Requests -> Labels] /\ price' \in [Requests -> Nat]
    <3>1. CASE UNCHANGED price /\ Goto(r, "ended")
      BY <1>2, <3>1
    <3>2. CASE (\E p \in Prices : price' = [price EXCEPT ![r] = p]) /\ Goto(r, "locking")
      BY <1>2, <3>2
    <3>3. QED
      BY <1>4, <3>1, <3>2 DEF get_cheapest_node
  <2>2. QED
    BY <1>4, <2>1 DEF get_cheapest_node
<1>5. CASE try_lock(r)
  <2>1. CASE buyer = NoRequest
    <3>1. queue' \in Seq([op : Ops, r : Requests, used : Nat])
      BY <1>5, <2>1, SendType DEF try_lock, Ops
    <3>2. pc' \in [Requests -> Labels] /\ buyer' = r
      <4>1. Goto(r, "deducting") /\ buyer' = r
        BY <1>5, <2>1 DEF try_lock
      <4>2. QED
        BY <1>2, <4>1
    <3>3. QED
      BY <1>5, <3>1, <3>2 DEF try_lock
  <2>2. CASE buyer # NoRequest
    <3>1. Goto(r, "not_locked") /\ UNCHANGED <<buyer, queue>>
      BY <1>5, <2>2 DEF try_lock
    <3>2. pc' \in [Requests -> Labels]
      BY <1>2, <3>1
    <3>3. QED
      BY <1>5, <3>1, <3>2 DEF try_lock
  <2>3. QED
    BY <2>1, <2>2
<1>6. ASSUME AskForStack(r),
             UNCHANGED <<tokens, price, stack, buyer, sui, money, bought, table, hold, outside>>
      PROVE  TypeOK'
  <2>1. queue' \in Seq([op : Ops, r : Requests, used : Nat])
    BY <1>6, SendType DEF AskForStack, Ops
  <2>2. pc' \in [Requests -> Labels] /\ tries' \in [Requests -> Nat]
    BY <1>2, <1>6 DEF AskForStack
  <2>3. QED
    BY <1>6, <2>1, <2>2
<1>7. ASSUME GiveUp(r),
             UNCHANGED <<tokens, price, stack, buyer, sui, money, bought, table, hold, outside>>
      PROVE  TypeOK'
  BY <1>2, <1>7 DEF GiveUp
<1>8. CASE get_stack_if_locked(r)
  <2>1. (AskForStack(r) \/ GiveUp(r))
        /\ UNCHANGED <<tokens, price, stack, buyer, sui, money, bought, table, hold, outside>>
    BY <1>8 DEF get_stack_if_locked
  <2>2. QED
    BY <1>6, <1>7, <2>1
<1>9. CASE PollAgain(r)
  <2>1. (AskForStack(r) \/ GiveUp(r))
        /\ UNCHANGED <<tokens, price, stack, buyer, sui, money, bought, table, hold, outside>>
    BY <1>9 DEF PollAgain
  <2>2. QED
    BY <1>6, <1>7, <2>1
<1>10. CASE acquire_new_stack_entry(r)
  BY <1>2, <1>10 DEF acquire_new_stack_entry
<1>11. CASE refund_usdc(r)
  <2>1. queue' \in Seq([op : Ops, r : Requests, used : Nat])
    BY <1>11, SendType DEF refund_usdc, Ops
  <2>2. QED
    BY <1>2, <1>11, <2>1 DEF refund_usdc
<1>12. CASE DropLockGuard(r)
  BY <1>2, <1>12 DEF DropLockGuard
<1>13. CASE try_validate_stack_for_request(r)
  <2>1. queue' \in Seq([op : Ops, r : Requests, used : Nat])
    BY <1>13, SendType DEF try_validate_stack_for_request, Ops
  <2>2. pc' \in [Requests -> Labels]
    BY <1>2, <1>13 DEF try_validate_stack_for_request
  <2>3. QED
    BY <1>13, <2>1, <2>2 DEF try_validate_stack_for_request
<1>14. CASE ChainBuys(r)
  <2>1. queue' \in Seq([op : Ops, r : Requests, used : Nat])
    BY <1>14, SendType DEF ChainBuys, Ops
  <2>2. bought + 1 \in Stacks /\ bought' \in 0 .. MaxStacks
    BY <1>14 DEF ChainBuys, Stacks
  <2>3. pc' \in [Requests -> Labels] /\ stack' \in [Requests -> Stacks \cup {NoStack}]
    <3>1. CASE stack' = [stack EXCEPT ![r] = bought + 1] /\ Goto(r, "storing")
      BY <1>2, <2>2, <3>1
    <3>2. CASE UNCHANGED stack /\ Goto(r, "not_acquired")
      BY <1>2, <3>2
    <3>3. QED
      BY <1>14, <3>1, <3>2 DEF ChainBuys
  <2>4. sui' = NoRequest
        /\ UNCHANGED <<tokens, price, tries, buyer, money, table, hold, outside>>
    BY <1>14 DEF ChainBuys
  <2>5. QED
    BY <2>1, <2>2, <2>3, <2>4
<1>15. CASE ChainRefuses(r)
  BY <1>2, <1>15 DEF ChainRefuses
<1>16. CASE TransactionFails(r)
  BY <1>2, <1>16 DEF TransactionFails
<1>17. CASE HandlerAnswers(r)
  <2>1. queue' \in Seq([op : Ops, r : Requests, used : Nat])
    <3>1. PICK used \in 0 .. MaxUse : Send("UpdateStackNumTokens", r, used)
      BY <1>17 DEF HandlerAnswers
    <3>2. used \in Nat /\ "UpdateStackNumTokens" \in Ops
      BY DEF Ops
    <3>3. QED
      BY <3>1, <3>2, SendType
  <2>2. reported' \in [Requests -> Nat]
    <3>1. PICK used \in 0 .. MaxUse : reported' = [reported EXCEPT ![r] = used]
      BY <1>17 DEF HandlerAnswers
    <3>2. used \in Nat
      OBVIOUS
    <3>3. QED
      BY <3>1, <3>2
  <2>3. UNCHANGED <<errors, crashes>>
    BY <1>17 DEF HandlerAnswers
  <2>4. QED
    BY <1>2, <1>17, <2>1, <2>2, <2>3 DEF HandlerAnswers
<1>18. CASE HandlerPanics(r)
  BY <1>2, <1>18 DEF HandlerPanics
<1>19. QED
  BY <1>3, <1>4, <1>5, <1>8, <1>9, <1>10, <1>11, <1>12, <1>13, <1>14, <1>15, <1>16, <1>17,
     <1>18 DEF RequestStep, ChainStep, HandlerStep

(* A stack that has room for a request passes the CHECK, so that a request *)
(* is either given its units or told that there are none.                  *)
LEMMA UnitsAnswer ==
  ASSUME TypeOK, NEW h \in Requests, h = Head(queue).r, NEW none, TakeUnits(none)
  PROVE  \/ Answer(none) /\ UNCHANGED <<locked, stack, hold>>
         \/ \E s \in Stacks : /\ Fits(s, h)
                               /\ locked' = [locked EXCEPT ![s] = @ + tokens[h]]
                               /\ stack' = [stack EXCEPT ![h] = s]
                               /\ hold' = [hold EXCEPT ![h] = s]
                               /\ Answer("selected")
<1>1. ASSUME NEW s \in Stacks, Fits(s, h)
      PROVE  CheckHolds(computed[s], locked[s] + tokens[h])
  <2>1. computed[s] \in Nat /\ locked[s] \in Int
    BY DEF TypeOK
  <2>2. tokens[h] \in Nat
    BY DEF TypeOK
  <2>3. StackSize - computed[s] - locked[s] >= tokens[h]
    BY <1>1 DEF Fits, Free
  <2>4. QED
    BY <2>1, <2>2, <2>3 DEF CheckHolds
<1>2. QED
  BY <1>1 DEF TakeUnits

(* The steps of the state manager keep the types. *)
LEMMA ManagerTypeStep ==
  ASSUME TypeOK, EventsAgree, StateManagerStep \/ DatabaseError
  PROVE  TypeOK'
<1> DEFINE h == Head(queue).r
<1> USE DEF TypeOK, request, table, money, outside
<1>1. queue # <<>>
  BY DEF StateManagerStep, DatabaseError, Event, get_stacks_for_model, get_stacks_for_task,
         deduct_from_usdc, NewStackAcquired, RefundUsdc, update_stack_num_tokens
<1>2. h \in Requests /\ Head(queue).op \in Ops /\ Head(queue).used \in Nat
      /\ pc[h] = WaitsFor(Head(queue).op)
  BY <1>1, HeadFacts DEF EventsAgree
<1>0. tokens[h] \in Nat /\ price[h] \in Nat
  BY <1>2
<1>3. Tail(queue) \in Seq([op : Ops, r : Requests, used : Nat])
  BY <1>1, TailFacts DEF Messages
<1> HIDE DEF h
<1>4. ASSUME NEW l \in Labels, Answer(l)
      PROVE  pc' \in [Requests -> Labels]
             /\ queue' \in Seq([op : Ops, r : Requests, used : Nat])
  BY <1>2, <1>3, <1>4 DEF Answer, Goto, h
<1>5. {"selected", "no_stack", "sleeping", "buying", "not_bought", "stored", "not_acquired",
       "ended"} \subseteq Labels
  BY DEF Labels, Buying, Paying
<1>6. ASSUME NEW none \in {"no_stack", "sleeping"}, TakeUnits(none)
      PROVE  TypeOK'
  <2>1. CASE \E s \in Stacks : /\ locked' = [locked EXCEPT ![s] = @ + tokens[h]]
                               /\ stack' = [stack EXCEPT ![h] = s]
                               /\ hold' = [hold EXCEPT ![h] = s]
                               /\ Answer("selected")
    <3>1. PICK s \in Stacks :
            /\ locked' = [locked EXCEPT ![s] = @ + tokens[h]]
            /\ stack' = [stack EXCEPT ![h] = s]
            /\ hold' = [hold EXCEPT ![h] = s]
            /\ Answer("selected")
      BY <2>1
    <3>2. tokens[h] \in Nat
      BY <1>2
    <3>3. locked' \in [Stacks -> Int]
      BY <3>1, <3>2
    <3>4. stack' \in [Requests -> Stacks \cup {NoStack}]
          /\ hold' \in [Requests -> Stacks \cup {NoStack}]
      BY <3>1
    <3>5. pc' \in [Requests -> Labels]
          /\ queue' \in Seq([op : Ops, r : Requests, used : Nat])
      BY <1>4, <1>5, <3>1
    <3>6. QED
      BY <1>6, <3>3, <3>4, <3>5 DEF TakeUnits
  <2>2. CASE Answer(none) /\ UNCHANGED <<locked, stack, hold>>
    <3>1. pc' \in [Requests -> Labels]
          /\ queue' \in Seq([op : Ops, r : Requests, used : Nat])
      BY <1>4, <1>5, <1>6, <2>2
    <3>2. QED
      BY <1>6, <2>2, <3>1 DEF TakeUnits
  <2>3. h = Head(queue).r
    BY DEF h
  <2>4. QED
    BY <1>2, <1>6, <2>1, <2>2, <2>3, UnitsAnswer
<1>7. CASE get_stacks_for_model
  BY <1>6, <1>7 DEF get_stacks_for_model
<1>8. CASE get_stacks_for_task
  BY <1>6, <1>8 DEF get_stacks_for_task
<1>9. CASE deduct_from_usdc
  <2>1. pc' \in [Requests -> Labels]
        /\ queue' \in Seq([op : Ops, r : Requests, used : Nat])
    BY <1>4, <1>5, <1>9 DEF deduct_from_usdc
  <2>2. usdc' \in Nat
    <3>1. usdc' = usdc \/ (usdc >= price[h] /\ usdc' = usdc - price[h])
      BY <1>9 DEF deduct_from_usdc, CanPay, h
    <3>2. QED
      BY <1>0, <3>1
  <2>3. QED
    BY <1>9, <2>1, <2>2 DEF deduct_from_usdc
<1>10. CASE NewStackAcquired
  <2>1. pc' \in [Requests -> Labels]
        /\ queue' \in Seq([op : Ops, r : Requests, used : Nat])
    BY <1>4, <1>5, <1>10 DEF NewStackAcquired
  <2>2. pc[h] = "storing"
    BY <1>2, <1>10 DEF NewStackAcquired, Event, WaitsFor
  <2>3. stack[h] \in Stacks
    <3>1. stack[h] \in 1 .. bought
      BY <1>2, <2>2 DEF EventsAgree, HoldsAgree
    <3>2. QED
      BY <3>1 DEF Stacks
  <2>4. CASE CheckHolds(computed[stack[h]], tokens[h])
    <3>1. /\ rows' = rows \cup {stack[h]}
          /\ locked' = [locked EXCEPT ![stack[h]] = tokens[h]]
          /\ hold' = [hold EXCEPT ![h] = stack[h]]
          /\ spent' = spent + price[h]
      BY <1>10, <2>4 DEF NewStackAcquired, InitialLock, h
    <3>2. locked' \in [Stacks -> Int] /\ spent' \in Nat
      <4>1. tokens[h] \in Nat
        BY <1>2
      <4>2. locked' \in [Stacks -> Int]
        BY <2>3, <3>1, <4>1
      <4>3. spent' = spent + price[h] /\ price[h] \in Nat /\ spent \in Nat
        BY <1>0, <3>1
      <4>4. spent' \in Nat
        BY <4>3
      <4>5. QED
        BY <4>2, <4>4
    <3>3. rows' \subseteq Stacks /\ closed \subseteq rows'
          /\ hold' \in [Requests -> Stacks \cup {NoStack}]
      BY <2>3, <3>1
    <3>4. QED
      BY <1>10, <2>1, <3>2, <3>3 DEF NewStackAcquired
  <2>5. CASE ~CheckHolds(computed[stack[h]], tokens[h])
    BY <1>10, <2>1, <2>5 DEF NewStackAcquired, h
  <2>6. QED
    BY <2>4, <2>5
<1>11. CASE RefundUsdc
  <2>1. pc' \in [Requests -> Labels]
        /\ queue' \in Seq([op : Ops, r : Requests, used : Nat])
    BY <1>4, <1>5, <1>11 DEF RefundUsdc
  <2>2. usdc' \in Nat
    BY <1>0, <1>11 DEF RefundUsdc, Refund, h
  <2>3. QED
    BY <1>11, <2>1, <2>2 DEF RefundUsdc
<1>12. CASE update_stack_num_tokens
  <2>1. queue' \in Seq([op : Ops, r : Requests, used : Nat])
    BY <1>3, <1>12 DEF update_stack_num_tokens
  <2>2. computed' \in [Stacks -> Nat] /\ locked' \in [Stacks -> Int]
        /\ hold' \in [Requests -> Stacks \cup {NoStack}]
    <3>1. tokens[h] \in Nat /\ Head(queue).used \in Nat /\ stack[h] \in Stacks
      BY <1>0, <1>1, <1>2, <1>12, HeadFacts DEF update_stack_num_tokens, Event, EventsAgree, h
    <3>2. CASE UNCHANGED <<computed, locked, hold>>
      BY <3>2
    <3>3. CASE /\ computed' = [computed EXCEPT ![stack[h]] = @ + Head(queue).used]
               /\ locked' = [locked EXCEPT ![stack[h]] = @ - tokens[h]]
               /\ hold' = [hold EXCEPT ![h] = NoStack]
      <4>1. computed' \in [Stacks -> Nat]
        BY <3>1, <3>3
      <4>2. locked' \in [Stacks -> Int]
        <5>1. locked[stack[h]] - tokens[h] \in Int
          BY <3>1
        <5>2. QED
          BY <3>3, <5>1
      <4>3. hold' \in [Requests -> Stacks \cup {NoStack}]
        BY <3>3
      <4>4. QED
        BY <4>1, <4>2, <4>3
    <3>4. QED
      BY <1>12, <3>2, <3>3 DEF update_stack_num_tokens, h
  <2>3. QED
    BY <1>12, <2>1, <2>2 DEF update_stack_num_tokens
<1>13. CASE DatabaseError
  <2>1. AfterError(Head(queue).op) \in Labels
    BY <1>5 DEF AfterError
  <2>2. pc' \in [Requests -> Labels]
        /\ queue' \in Seq([op : Ops, r : Requests, used : Nat])
    BY <1>3, <1>4, <1>13, <2>1 DEF DatabaseError
  <2>3. lost' \in Nat
    <3>1. lost' = lost \/ lost' = lost + price[h]
      BY <1>13 DEF DatabaseError, h
    <3>2. QED
      BY <1>0, <3>1
  <2>4. errors' \in 0 .. MaxErrors
    BY <1>13 DEF DatabaseError
  <2>5. QED
    BY <1>13, <2>2, <2>3, <2>4 DEF DatabaseError
<1>14. QED
  BY <1>7, <1>8, <1>9, <1>10, <1>11, <1>12, <1>13 DEF StateManagerStep

(* So does every step. *)
LEMMA TypeStep ==
  ASSUME TypeOK, EventsAgree, [Next]_vars
  PROVE  TypeOK'
<1>1. ASSUME NEW s \in Stacks, CloseStack(s) PROVE TypeOK'
  BY <1>1 DEF CloseStack, TypeOK, request, money, outside
<1>2. CASE Crash
  <2>1. pc' \in [Requests -> Labels]
    BY <1>2 DEF Crash, TypeOK, Labels
  <2>2. queue' \in Seq([op : Ops, r : Requests, used : Nat])
    BY <1>2 DEF Crash
  <2>3. lost' \in Nat
    <3>1. InFlight \in Nat
      BY DEF TypeOK, InFlight
    <3>2. QED
      BY <1>2, <3>1 DEF Crash, TypeOK
  <2>4. crashes' \in 0 .. MaxCrashes
    BY <1>2 DEF Crash, TypeOK
  <2>5. QED
    BY <1>2, <2>1, <2>2, <2>3, <2>4 DEF Crash, TypeOK, table
<1>3. CASE UNCHANGED vars
  BY <1>3 DEF vars, request, table, money, outside, TypeOK
<1>4. QED
  BY <1>1, <1>2, <1>3, RequestTypeStep, ManagerTypeStep DEF Next

-----------------------------------------------------------------------------
(* The buyer and its money.                                                *)

(* A request that does not buy moves: nothing changes for the one that     *)
(* does.                                                                   *)
LEMMA OthersMove ==
  ASSUME TypeOK, OneBuyer, UsdcAccounted, NEW r \in Requests, NEW l,
         pc[r] \notin Buying, l \notin Buying, Goto(r, l),
         \A q \in Requests \ {r} : price'[q] = price[q],
         UNCHANGED <<buyer, sui, usdc, spent, lost>>
  PROVE  OneBuyer' /\ UsdcAccounted'
<1>1. pc'[r] = l /\ \A q \in Requests \ {r} : pc'[q] = pc[q]
  BY DEF TypeOK, Goto
<1>2. buyer # r /\ sui # r
  BY DEF OneBuyer, Buying, Paying
<1>3. OneBuyer'
  BY <1>1, <1>2 DEF OneBuyer, TypeOK
<1>4. InFlight' = InFlight
  BY <1>1, <1>2 DEF InFlight, TypeOK
<1>5. QED
  BY <1>3, <1>4 DEF UsdcAccounted

(* What a buyer at a label has in its hands, when the stack costs p. *)
InHand(label, p) == IF label \in Paying THEN p ELSE 0

(* What moves between four accounts stays in their sum. *)
LEMMA Balance ==
  ASSUME NEW u \in Int, NEW f \in Int, NEW s \in Int, NEW l \in Int,
         NEW u1 \in Int, NEW f1 \in Int, NEW s1 \in Int, NEW l1 \in Int,
         (u1 + s1 + l1) + f1 = (u + s + l) + f
  PROVE  u1 + f1 + s1 + l1 = u + f + s + l
  OBVIOUS

(* The buyer moves and goes on to buy; what it has in its hands changes by *)
(* what leaves or enters the other accounts.                               *)
LEMMA BuyerMoves ==
  ASSUME TypeOK, OneBuyer, UsdcAccounted, NEW r \in Requests, NEW l \in Buying,
         pc[r] \in Buying, Goto(r, l), buyer' = buyer, price' = price,
         sui' \in {NoRequest, r}, sui' = r => l = "on_chain",
         usdc' \in Int, spent' \in Int, lost' \in Int,
         (usdc' + spent' + lost') + InHand(l, price[r])
           = (usdc + spent + lost) + InHand(pc[r], price[r])
  PROVE  OneBuyer' /\ UsdcAccounted'
<1>1. pc'[r] = l /\ \A q \in Requests \ {r} : pc'[q] = pc[q]
  BY DEF TypeOK, Goto
<1>2. buyer = r
  BY DEF OneBuyer
<1>3. OneBuyer'
  <2>1. \A q \in Requests : pc'[q] \in Buying => buyer' = q
    BY <1>1, <1>2 DEF OneBuyer
  <2>2. pc'[buyer'] \in Buying
    BY <1>1, <1>2
  <2>3. sui' # NoRequest => pc'[sui'] = "on_chain"
    BY <1>1
  <2>4. QED
    BY <2>1, <2>2, <2>3 DEF OneBuyer
<1>4. InFlight = InHand(pc[r], price[r])
      /\ InFlight' = InHand(l, price[r])
  BY <1>1, <1>2 DEF InFlight, InHand
<1>5. price[r] \in Nat /\ usdc \in Nat /\ spent \in Nat /\ lost \in Nat
  BY DEF TypeOK
<1>6. usdc + InFlight + spent + lost = InitialUsdc
  BY DEF UsdcAccounted
<1>7. usdc' + InFlight' + spent' + lost' = InitialUsdc
  <2>1. InFlight \in Int /\ InFlight' \in Int
    BY <1>4, <1>5 DEF InHand
  <2>2. (usdc' + spent' + lost') + InFlight' = (usdc + spent + lost) + InFlight
    BY <1>4
  <2>3. usdc' + InFlight' + spent' + lost' = usdc + InFlight + spent + lost
    BY <1>5, <2>1, <2>2, Balance
  <2>4. QED
    BY <1>6, <2>3
<1>8. QED
  BY <1>3, <1>7 DEF UsdcAccounted

(* The buyer, with nothing in its hands afterwards, is done. *)
LEMMA BuyerLeaves ==
  ASSUME TypeOK, OneBuyer, UsdcAccounted, NEW r \in Requests, NEW l, l \notin Buying,
         pc[r] \in Buying, Goto(r, l), buyer' = NoRequest, price' = price,
         sui' = NoRequest, usdc' = usdc, spent' = spent,
         lost' = lost + InHand(pc[r], price[r])
  PROVE  OneBuyer' /\ UsdcAccounted'
<1>1. pc'[r] = l /\ \A q \in Requests \ {r} : pc'[q] = pc[q]
  BY DEF TypeOK, Goto
<1>2. buyer = r
  BY DEF OneBuyer
<1>3. \A q \in Requests \ {r} : pc[q] \notin Buying
  BY <1>2 DEF OneBuyer
<1>4. OneBuyer'
  BY <1>1, <1>3 DEF OneBuyer
<1>5. InFlight = InHand(pc[r], price[r]) /\ InFlight' = 0
  BY <1>2 DEF InFlight, InHand
<1>6. price[r] \in Nat /\ usdc \in Nat /\ spent \in Nat /\ lost \in Nat
  BY DEF TypeOK
<1>7. usdc' + InFlight' + spent' + lost' = usdc + InFlight + spent + lost
  <2>1. InHand(pc[r], price[r]) \in Int
    BY <1>6 DEF InHand
  <2>2. QED
    BY <1>5, <1>6, <2>1
<1>8. QED
  BY <1>4, <1>7 DEF UsdcAccounted

(* Only one request buys, and no USDC gets lost or made, in every step of  *)
(* a request ...                                                           *)
LEMMA RequestBuyerStep ==
  ASSUME TypeOK, OneBuyer, UsdcAccounted, NEW r \in Requests,
         RequestStep(r) \/ ChainStep(r) \/ HandlerStep(r)
  PROVE  OneBuyer' /\ UsdcAccounted'
<1> USE DEF request, money, Buying, Paying, InHand
<1>0. usdc \in Int /\ spent \in Int /\ lost \in Int /\ price[r] \in Int
  BY DEF TypeOK
<1>1. CASE HandleTooEarly(r)
  <2>1. Goto(r, "selecting") /\ pc[r] \notin Buying
        /\ UNCHANGED <<price, buyer, sui, usdc, spent, lost>>
    BY <1>1 DEF HandleTooEarly
  <2>2. QED
    BY <2>1, OthersMove
<1>2. CASE get_cheapest_node(r)
  <2>1. pc[r] \notin Buying /\ UNCHANGED <<buyer, sui, usdc, spent, lost>>
        /\ \A q \in Requests \ {r} : price'[q] = price[q]
    BY <1>2 DEF get_cheapest_node, TypeOK
  <2>2. Goto(r, "locking") \/ Goto(r, "ended")
    BY <1>2 DEF get_cheapest_node
  <2>3. QED
    BY <2>1, <2>2, OthersMove
<1>3. CASE try_lock(r)
  <2>1. CASE buyer = NoRequest
    <3>1. pc[r] = "locking" /\ buyer' = r /\ Goto(r, "deducting")
          /\ UNCHANGED <<price, sui, usdc, spent, lost>>
      BY <1>3, <2>1 DEF try_lock
    <3>2. pc'[r] = "deducting" /\ \A q \in Requests \ {r} : pc'[q] = pc[q]
      BY <3>1 DEF TypeOK, Goto
    <3>3. \A q \in Requests : pc[q] \notin Buying
      BY <2>1 DEF OneBuyer
    <3>4. sui = NoRequest
      <4>1. sui \in Requests \cup {NoRequest}
        BY DEF TypeOK
      <4>2. sui \in Requests => pc[sui] # "on_chain"
        BY <3>3
      <4>3. QED
        BY <4>1, <4>2 DEF OneBuyer
    <3>5. OneBuyer'
      BY <3>1, <3>2, <3>3, <3>4 DEF OneBuyer
    <3>6. InFlight = 0 /\ InFlight' = 0
      BY <2>1, <3>1, <3>2 DEF InFlight
    <3>7. QED
      BY <3>1, <3>5, <3>6 DEF UsdcAccounted
  <2>2. CASE buyer # NoRequest
    <3>1. Goto(r, "not_locked") /\ pc[r] \notin Buying
          /\ UNCHANGED <<price, buyer, sui, usdc, spent, lost>>
      BY <1>3, <2>2 DEF try_lock
    <3>2. QED
      BY <3>1, OthersMove
  <2>3. QED
    BY <2>1, <2>2
<1>4. CASE get_stack_if_locked(r) \/ PollAgain(r)
  <2>1. (Goto(r, "polling") \/ Goto(r, "refused")) /\ pc[r] \notin Buying
        /\ UNCHANGED <<price, buyer, sui, usdc, spent, lost>>
    BY <1>4 DEF get_stack_if_locked, PollAgain, AskForStack, GiveUp
  <2>2. QED
    BY <2>1, OthersMove
<1>5. CASE acquire_new_stack_entry(r)
  <2>1. pc[r] = "buying" /\ Goto(r, "on_chain") /\ sui' = r
        /\ UNCHANGED <<price, buyer, usdc, spent, lost>>
    BY <1>5 DEF acquire_new_stack_entry
  <2>2. QED
    BY <1>0, <2>1, BuyerMoves
<1>6. CASE refund_usdc(r)
  <2>1. pc[r] = "not_acquired" /\ Goto(r, "refunding")
        /\ UNCHANGED <<price, sui, buyer, usdc, spent, lost>>
    BY <1>6 DEF refund_usdc
  <2>2. sui = NoRequest
    BY <2>1 DEF OneBuyer, TypeOK
  <2>3. QED
    BY <1>0, <2>1, <2>2, BuyerMoves
<1>7. CASE DropLockGuard(r)
  <2>1. pc[r] \in {"stored", "not_bought"} /\ buyer' = NoRequest
        /\ (Goto(r, "selected") \/ Goto(r, "ended"))
        /\ UNCHANGED <<price, sui, usdc, spent, lost>>
    BY <1>7 DEF DropLockGuard
  <2>2. sui = NoRequest
    BY <2>1 DEF OneBuyer, TypeOK
  <2>3. lost' = lost + InHand(pc[r], price[r])
    BY <1>0, <2>1
  <2>4. QED
    BY <2>1, <2>2, <2>3, BuyerLeaves
<1>8. CASE try_validate_stack_for_request(r)
  <2>1. (Goto(r, "handling") \/ Goto(r, "ended")) /\ pc[r] \notin Buying
        /\ UNCHANGED <<price, buyer, sui, usdc, spent, lost>>
    BY <1>8 DEF try_validate_stack_for_request
  <2>2. QED
    BY <2>1, OthersMove
<1>9. CASE ChainBuys(r)
  <2>1. pc[r] = "on_chain" /\ sui' = NoRequest
        /\ (Goto(r, "storing") \/ Goto(r, "not_acquired"))
        /\ UNCHANGED <<price, buyer, usdc, spent, lost>>
    BY <1>9 DEF ChainBuys
  <2>2. QED
    BY <1>0, <2>1, BuyerMoves
<1>10. CASE ChainRefuses(r)
  <2>1. pc[r] = "on_chain" /\ sui' = NoRequest /\ Goto(r, "not_acquired")
        /\ UNCHANGED <<price, buyer, usdc, spent, lost>>
    BY <1>10 DEF ChainRefuses
  <2>2. QED
    BY <1>0, <2>1, BuyerMoves
<1>11. CASE TransactionFails(r)
  <2>1. pc[r] = "on_chain" /\ sui' = NoRequest /\ buyer' = NoRequest /\ Goto(r, "ended")
        /\ lost' = lost + price[r] /\ UNCHANGED <<price, usdc, spent>>
    BY <1>11 DEF TransactionFails
  <2>2. QED
    BY <2>1, BuyerLeaves
<1>12. CASE HandlerStep(r)
  <2>1. Goto(r, "ended") /\ pc[r] \notin Buying
        /\ UNCHANGED <<price, buyer, sui, usdc, spent, lost>>
    BY <1>12 DEF HandlerStep, HandlerAnswers, HandlerPanics
  <2>2. QED
    BY <2>1, OthersMove
<1>13. QED
  BY <1>1, <1>2, <1>3, <1>4, <1>5, <1>6, <1>7, <1>8, <1>9, <1>10, <1>11, <1>12
     DEF RequestStep, ChainStep

(* ... and of the state manager. *)
LEMMA ManagerBuyerStep ==
  ASSUME TypeOK, OneBuyer, UsdcAccounted, EventsAgree, StateManagerStep \/ DatabaseError
  PROVE  OneBuyer' /\ UsdcAccounted'
<1> DEFINE h == Head(queue).r
<1>1. queue # <<>>
  BY DEF StateManagerStep, DatabaseError, Event, get_stacks_for_model, get_stacks_for_task,
         deduct_from_usdc, NewStackAcquired, RefundUsdc, update_stack_num_tokens
<1>2. h \in Requests /\ Head(queue).op \in Ops /\ pc[h] = WaitsFor(Head(queue).op)
  BY <1>1, HeadFacts DEF EventsAgree
<1>3. usdc \in Int /\ spent \in Int /\ lost \in Int /\ price[h] \in Nat
  BY <1>2 DEF TypeOK
<1> HIDE DEF h
<1>4. pc[h] # "on_chain" => sui # h
  BY <1>2 DEF OneBuyer
<1>5. ASSUME pc[h] \in Buying \ {"on_chain"} PROVE sui = NoRequest
  <2>1. buyer = h
    BY <1>2, <1>5 DEF OneBuyer
  <2>2. sui # NoRequest => sui = buyer
    BY DEF OneBuyer, TypeOK, Buying, Paying
  <2>3. QED
    BY <1>4, <1>5, <2>1, <2>2
<1> USE DEF request, money, Buying, Paying
<1>6. CASE get_stacks_for_model \/ get_stacks_for_task
  <2>1. pc[h] \in {"selecting", "polling"}
    BY <1>2, <1>6 DEF get_stacks_for_model, get_stacks_for_task, Event, WaitsFor
  <2>2. UNCHANGED <<price, buyer, sui, usdc, spent, lost>>
    BY <1>6 DEF get_stacks_for_model, get_stacks_for_task, TakeUnits
  <2>3. \E l \in {"selected", "no_stack", "sleeping", "ended"} : Goto(h, l)
    BY <1>6 DEF get_stacks_for_model, get_stacks_for_task, TakeUnits, Answer, h
  <2>4. QED
    BY <1>2, <2>1, <2>2, <2>3, OthersMove
<1>7. CASE deduct_from_usdc
  <2>1. pc[h] = "deducting" /\ UNCHANGED <<price, buyer, sui, spent, lost>>
    BY <1>2, <1>7 DEF deduct_from_usdc, Event, WaitsFor
  <2>2. (usdc' = usdc - price[h] /\ Goto(h, "buying")) \/ (usdc' = usdc /\ Goto(h, "not_bought"))
    BY <1>7 DEF deduct_from_usdc, Answer, h
  <2>3. QED
    BY <1>2, <1>3, <1>5, <2>1, <2>2, BuyerMoves DEF InHand
<1>8. CASE NewStackAcquired
  <2>1. pc[h] = "storing" /\ UNCHANGED <<price, buyer, sui, usdc, lost>>
    BY <1>2, <1>8 DEF NewStackAcquired, Event, WaitsFor
  <2>2. \/ spent' = spent + price[h] /\ Goto(h, "stored")
        \/ spent' = spent /\ Goto(h, "not_acquired")
    BY <1>8 DEF NewStackAcquired, Answer, h
  <2>3. QED
    BY <1>2, <1>3, <1>5, <2>1, <2>2, BuyerMoves DEF InHand
<1>9. CASE RefundUsdc
  <2>1. pc[h] = "refunding" /\ UNCHANGED <<price, buyer, sui, spent, lost>>
    BY <1>2, <1>9 DEF RefundUsdc, Event, WaitsFor
  <2>2. usdc' = usdc + price[h] /\ Goto(h, "not_bought")
    BY <1>9 DEF RefundUsdc, Refund, Answer, h
  <2>3. QED
    BY <1>2, <1>3, <1>5, <2>1, <2>2, BuyerMoves DEF InHand
<1>10. CASE update_stack_num_tokens
  <2>1. UNCHANGED <<pc, price, buyer, sui, usdc, spent, lost>>
    BY <1>10 DEF update_stack_num_tokens
  <2>2. InFlight' = InFlight
    BY <2>1 DEF InFlight
  <2>3. QED
    BY <2>1, <2>2 DEF OneBuyer, UsdcAccounted
<1>11. CASE DatabaseError
  <2>1. UNCHANGED <<price, buyer, sui, usdc, spent>>
    BY <1>11 DEF DatabaseError
  <2>2. CASE Head(queue).op = "UpdateStackNumTokens"
    <3>1. UNCHANGED <<pc, lost>>
      BY <1>11, <2>2 DEF DatabaseError
    <3>2. InFlight' = InFlight
      BY <2>1, <3>1 DEF InFlight
    <3>3. QED
      BY <2>1, <3>1, <3>2 DEF OneBuyer, UsdcAccounted
  <2>3. CASE Head(queue).op = "RefundUsdc"
    <3>1. pc[h] = "refunding" /\ Goto(h, "not_bought") /\ lost' = lost + price[h]
      BY <1>2, <1>11, <2>3 DEF DatabaseError, WaitsFor, Answer, AfterError, h
    <3>2. QED
      BY <1>2, <1>3, <1>5, <2>1, <3>1, BuyerMoves DEF InHand
  <2>4. CASE Head(queue).op = "DeductFromUsdc"
    <3>1. pc[h] = "deducting" /\ Goto(h, "not_bought") /\ lost' = lost
      BY <1>2, <1>11, <2>4 DEF DatabaseError, WaitsFor, Answer, AfterError, h
    <3>2. QED
      BY <1>2, <1>3, <1>5, <2>1, <3>1, BuyerMoves DEF InHand
  <2>5. CASE Head(queue).op = "NewStackAcquired"
    <3>1. pc[h] = "storing" /\ Goto(h, "not_acquired") /\ lost' = lost
      BY <1>2, <1>11, <2>5 DEF DatabaseError, WaitsFor, Answer, AfterError, h
    <3>2. QED
      BY <1>2, <1>3, <1>5, <2>1, <3>1, BuyerMoves DEF InHand
  <2>6. CASE Head(queue).op \in {"GetStacksForModel", "GetStacksForTask"}
    <3>1. pc[h] \in {"selecting", "polling"} /\ Goto(h, "ended") /\ lost' = lost
      BY <1>2, <1>11, <2>6 DEF DatabaseError, WaitsFor, Answer, AfterError, h
    <3>2. QED
      BY <1>2, <2>1, <3>1, OthersMove
  <2>7. QED
    BY <1>2, <2>2, <2>3, <2>4, <2>5, <2>6 DEF Ops
<1>12. QED
  BY <1>6, <1>7, <1>8, <1>9, <1>10, <1>11 DEF StateManagerStep

(* So it is in every step. *)
LEMMA BuyerStep ==
  ASSUME TypeOK, OneBuyer, UsdcAccounted, EventsAgree, [Next]_vars
  PROVE  OneBuyer' /\ UsdcAccounted'
<1>1. ASSUME UNCHANGED <<pc, price, buyer, sui, usdc, spent, lost>>
      PROVE  OneBuyer' /\ UsdcAccounted'
  <2>1. InFlight' = InFlight
    BY <1>1 DEF InFlight
  <2>2. QED
    BY <1>1, <2>1 DEF OneBuyer, UsdcAccounted
<1>2. ASSUME NEW s \in Stacks, CloseStack(s) PROVE OneBuyer' /\ UsdcAccounted'
  BY <1>1, <1>2 DEF CloseStack, request, money
<1>3. CASE Crash
  <2>1. \A q \in Requests : pc'[q] \notin Buying
    BY <1>3 DEF Crash, Buying, Paying
  <2>2. OneBuyer'
    BY <1>3, <2>1 DEF Crash, OneBuyer
  <2>3. InFlight' = 0
    BY <1>3 DEF Crash, InFlight
  <2>4. InFlight \in Int /\ usdc \in Int /\ spent \in Int /\ lost \in Int
    BY DEF InFlight, TypeOK
  <2>5. usdc' = usdc /\ spent' = spent /\ lost' = lost + InFlight
    BY <1>3 DEF Crash
  <2>6. usdc' + InFlight' + spent' + lost' = usdc + InFlight + spent + lost
    BY <2>3, <2>4, <2>5
  <2>7. QED
    BY <2>2, <2>6 DEF UsdcAccounted
<1>4. CASE UNCHANGED vars
  BY <1>1, <1>4 DEF vars, request, money
<1>5. QED
  BY <1>2, <1>3, <1>4, RequestBuyerStep, ManagerBuyerStep DEF Next

-----------------------------------------------------------------------------
(* The units of a stack.                                                   *)

(* Units that a request takes from a stack with room. *)
LEMMA UnitsTaken ==
  ASSUME TypeOK, UnitsAgree, NEW h \in Requests, hold[h] = NoStack, NEW s \in Stacks,
         Fits(s, h), locked' = [locked EXCEPT ![s] = @ + tokens[h]],
         hold' = [hold EXCEPT ![h] = s], UNCHANGED <<tokens, rows, computed>>
  PROVE  UnitsAgree'
<1>1. s \in rows /\ s # NoStack
  BY DEF Fits, Stacks, NoStack
<1>2. tokens[h] \in Nat /\ locked[s] \in Int /\ computed[s] \in Nat
  BY DEF TypeOK
<1>3. locked'[s] = locked[s] + tokens[h] /\ \A x \in rows \ {s} : locked'[x] = locked[x]
  BY <1>1 DEF TypeOK
<1>4. UnitsSum'
  <2>1. SUFFICES ASSUME NEW x \in rows PROVE IsSum(locked'[x], tokens, Holders(x)')
    BY DEF UnitsSum, Holders
  <2>2. IsSum(locked[x], tokens, Holders(x))
    BY DEF UnitsAgree, UnitsSum, Holders
  <2>3. CASE x = s
    <3>1. h \notin Holders(s) /\ Holders(s)' = Holders(s) \cup {h}
      BY <1>1 DEF Holders, TypeOK
    <3>2. IsSum(locked[s] + tokens[h], tokens, Holders(s) \cup {h})
      BY <1>2, <2>2, <2>3, <3>1, SumAdd
    <3>3. QED
      BY <1>3, <2>3, <3>1, <3>2
  <2>4. CASE x # s
    <3>1. x # NoStack
      BY DEF TypeOK, Stacks, NoStack
    <3>2. Holders(x)' = Holders(x)
      BY <2>4, <3>1 DEF Holders, TypeOK
    <3>3. QED
      BY <1>3, <2>2, <2>4, <3>2
  <2>5. QED
    BY <2>3, <2>4
<1>5. FreshStacks'
  BY DEF FreshStacks, UnitsAgree
<1>6. QED
  BY <1>4, <1>5 DEF UnitsAgree

(* Units of a stack that its buyer stores. *)
LEMMA UnitsOfNewRow ==
  ASSUME TypeOK, UnitsAgree, HoldsAgree, NEW h \in Requests, hold[h] = NoStack,
         NEW s \in Stacks \ rows, rows' = rows \cup {s},
         locked' = [locked EXCEPT ![s] = tokens[h]],
         hold' = [hold EXCEPT ![h] = s], UNCHANGED <<tokens, computed>>
  PROVE  UnitsAgree'
<1>1. s # NoStack
  BY DEF Stacks, NoStack
<1>2. tokens[h] \in Nat
  BY DEF TypeOK
<1>3. locked'[s] = tokens[h] /\ \A x \in rows : locked'[x] = locked[x]
  BY DEF TypeOK
<1>4. UnitsSum'
  <2>1. SUFFICES ASSUME NEW x \in rows' PROVE IsSum(locked'[x], tokens, Holders(x)')
    BY DEF UnitsSum, Holders
  <2>2. CASE x = s
    <3>1. Holders(s) = {}
      BY <1>1 DEF Holders, HoldsAgree
    <3>2. Holders(s)' = {} \cup {h}
      BY <3>1 DEF Holders, TypeOK
    <3>3. IsSum(0 + tokens[h], tokens, {} \cup {h})
      BY <1>2, SumEmpty, SumAdd
    <3>4. 0 + tokens[h] = tokens[h]
      BY <1>2
    <3>5. QED
      BY <1>3, <2>2, <3>2, <3>3, <3>4
  <2>3. CASE x # s
    <3>1. x \in rows /\ x # NoStack
      BY <2>3 DEF TypeOK, Stacks, NoStack
    <3>2. IsSum(locked[x], tokens, Holders(x))
      BY <3>1 DEF UnitsAgree, UnitsSum, Holders
    <3>3. Holders(x)' = Holders(x)
      BY <2>3, <3>1 DEF Holders, TypeOK
    <3>4. QED
      BY <1>3, <3>1, <3>2, <3>3
  <2>4. QED
    BY <2>2, <2>3
<1>5. FreshStacks'
  BY DEF FreshStacks, UnitsAgree
<1>6. QED
  BY <1>4, <1>5 DEF UnitsAgree

(* Units that a settlement releases. *)
LEMMA UnitsReleased ==
  ASSUME TypeOK, UnitsAgree, NEW h \in Requests, NEW s \in rows, hold[h] = s,
         NEW used \in Nat,
         computed' = [computed EXCEPT ![s] = @ + used],
         locked' = [locked EXCEPT ![s] = @ - tokens[h]],
         hold' = [hold EXCEPT ![h] = NoStack], UNCHANGED <<tokens, rows>>
  PROVE  UnitsAgree'
<1>1. s # NoStack /\ s \in Stacks
  BY DEF TypeOK, Stacks, NoStack
<1>2. tokens[h] \in Nat /\ locked[s] \in Int /\ computed[s] \in Nat
  BY <1>1 DEF TypeOK
<1>3. locked'[s] = locked[s] - tokens[h] /\ \A x \in rows \ {s} : locked'[x] = locked[x]
  BY <1>1 DEF TypeOK
<1>4. computed'[s] = computed[s] + used /\ \A x \in Stacks \ {s} : computed'[x] = computed[x]
  BY <1>1 DEF TypeOK
<1>5. UnitsSum'
  <2>1. SUFFICES ASSUME NEW x \in rows PROVE IsSum(locked'[x], tokens, Holders(x)')
    BY DEF UnitsSum, Holders
  <2>2. IsSum(locked[x], tokens, Holders(x))
    BY DEF UnitsAgree, UnitsSum, Holders
  <2>3. x # NoStack
    BY DEF TypeOK, Stacks, NoStack
  <2>4. CASE x = s
    <3>1. h \in Holders(s) /\ Holders(s)' = Holders(s) \ {h}
      BY <1>1 DEF Holders, TypeOK
    <3>2. IsSum(locked[s] - tokens[h], tokens, Holders(s) \ {h})
      BY <1>2, <2>2, <2>4, <3>1, SumRemove
    <3>3. QED
      BY <1>3, <2>4, <3>1, <3>2
  <2>5. CASE x # s
    <3>1. Holders(x)' = Holders(x)
      BY <2>3, <2>5 DEF Holders, TypeOK
    <3>2. QED
      BY <1>3, <2>2, <2>5, <3>1
  <2>6. QED
    BY <2>4, <2>5
<1>6. FreshStacks'
  BY <1>4 DEF FreshStacks, UnitsAgree
<1>7. QED
  BY <1>5, <1>6 DEF UnitsAgree

(* Every step keeps the units of the stacks in order. *)
LEMMA UnitsStep ==
  ASSUME TypeOK, UnitsAgree, EventsAgree, [Next]_vars
  PROVE  UnitsAgree'
<1> DEFINE h == Head(queue).r
<1> USE DEF request, table, money, outside
<1>1. ASSUME UNCHANGED <<tokens, rows, computed, locked, hold>> PROVE UnitsAgree'
  BY <1>1 DEF UnitsAgree, UnitsSum, FreshStacks
<1>2. ASSUME NEW r \in Requests, RequestStep(r) \/ ChainStep(r) \/ HandlerStep(r)
      PROVE  UnitsAgree'
  <2>1. UNCHANGED <<tokens, rows, computed, locked, hold>>
    BY <1>2 DEF RequestStep, ChainStep, HandlerStep, HandlerAnswers, HandlerPanics,
         HandleTooEarly, get_cheapest_node,
         try_lock, get_stack_if_locked, PollAgain, acquire_new_stack_entry, refund_usdc,
         DropLockGuard, try_validate_stack_for_request, ChainBuys, ChainRefuses,
         TransactionFails
  <2>2. QED
    BY <1>1, <2>1
<1>3. ASSUME queue # <<>>
      PROVE  h \in Requests /\ pc[h] = WaitsFor(Head(queue).op) /\ Head(queue).used \in Nat
             /\ (Head(queue).op = "UpdateStackNumTokens" =>
                   hold[h] = stack[h] /\ stack[h] \in rows)
  BY <1>3, HeadFacts DEF EventsAgree
<1>4. CASE get_stacks_for_model \/ get_stacks_for_task
  <2>1. queue # <<>> /\ Head(queue).op \in {"GetStacksForModel", "GetStacksForTask"}
        /\ (TakeUnits("no_stack") \/ TakeUnits("sleeping"))
    BY <1>4 DEF get_stacks_for_model, get_stacks_for_task, Event
  <2>2. h \in Requests /\ pc[h] \in {"selecting", "polling"}
    BY <1>3, <2>1 DEF WaitsFor
  <2>3. hold[h] = NoStack
    BY <2>2 DEF EventsAgree, HoldsAgree
  <2>4. UNCHANGED <<tokens, rows, computed>>
    BY <2>1 DEF TakeUnits
  <2>5. \/ UNCHANGED <<locked, hold>>
        \/ \E s \in Stacks : /\ Fits(s, h)
                              /\ locked' = [locked EXCEPT ![s] = @ + tokens[h]]
                              /\ hold' = [hold EXCEPT ![h] = s]
    BY <2>1, <2>2, UnitsAnswer
  <2> HIDE DEF h
  <2>6. QED
    BY <1>1, <2>2, <2>3, <2>4, <2>5, UnitsTaken
<1>5. CASE NewStackAcquired
  <2>1. queue # <<>> /\ Head(queue).op = "NewStackAcquired"
    BY <1>5 DEF NewStackAcquired, Event
  <2>2. h \in Requests /\ pc[h] = "storing"
    BY <1>3, <2>1 DEF WaitsFor
  <2>3. hold[h] = NoStack /\ stack[h] \in (1 .. bought) \ rows
    BY <2>2 DEF EventsAgree, HoldsAgree
  <2>4. stack[h] \in Stacks \ rows
    BY <2>3 DEF TypeOK, Stacks
  <2>5. UNCHANGED <<tokens, computed>>
    BY <1>5 DEF NewStackAcquired
  <2>6. \/ UNCHANGED <<rows, locked, hold>>
        \/ /\ rows' = rows \cup {stack[h]}
           /\ locked' = [locked EXCEPT ![stack[h]] = tokens[h]]
           /\ hold' = [hold EXCEPT ![h] = stack[h]]
    BY <1>5 DEF NewStackAcquired, InitialLock
  <2>7. HoldsAgree
    BY DEF EventsAgree
  <2> HIDE DEF h
  <2>8. QED
    BY <1>1, <2>2, <2>3, <2>4, <2>5, <2>6, <2>7, UnitsOfNewRow
<1>6. CASE update_stack_num_tokens
  <2>1. queue # <<>> /\ Head(queue).op = "UpdateStackNumTokens"
    BY <1>6 DEF update_stack_num_tokens, Event
  <2>2. h \in Requests /\ hold[h] = stack[h] /\ stack[h] \in rows /\ Head(queue).used \in Nat
    BY <1>3, <2>1
  <2>3. UNCHANGED <<tokens, rows>>
    BY <1>6 DEF update_stack_num_tokens
  <2>4. \/ UNCHANGED <<computed, locked, hold>>
        \/ /\ computed' = [computed EXCEPT ![stack[h]] = @ + Head(queue).used]
           /\ locked' = [locked EXCEPT ![stack[h]] = @ - tokens[h]]
           /\ hold' = [hold EXCEPT ![h] = NoStack]
    BY <1>6 DEF update_stack_num_tokens
  <2> HIDE DEF h
  <2>5. QED
    BY <1>1, <2>2, <2>3, <2>4, UnitsReleased
<1>7. CASE deduct_from_usdc \/ RefundUsdc \/ DatabaseError
  <2>1. UNCHANGED <<tokens, rows, computed, locked, hold>>
    BY <1>7 DEF deduct_from_usdc, RefundUsdc, DatabaseError
  <2>2. QED
    BY <1>1, <2>1
<1>8. CASE Crash \/ (\E s \in Stacks : CloseStack(s)) \/ UNCHANGED vars
  <2>1. UNCHANGED <<tokens, rows, computed, locked, hold>>
    BY <1>8 DEF Crash, CloseStack, vars
  <2>2. QED
    BY <1>1, <2>1
<1>9. QED
  BY <1>2, <1>4, <1>5, <1>6, <1>7, <1>8 DEF Next, StateManagerStep

-----------------------------------------------------------------------------
(* Channel, requests and table agree.                                      *)

(* HoldsAgree for one request. *)
HoldOf(r) ==
  /\ hold[r] \in rows \cup {NoStack}
  /\ pc[r] \in {"stored", "selected", "handling"} => stack[r] \in rows /\ hold[r] = stack[r]
  /\ pc[r] = "storing" => stack[r] \in (1 .. bought) \ rows
  /\ pc[r] \notin {"stored", "selected", "handling", "ended"} => hold[r] = NoStack

(* A step of one request disturbs no other, as only one stores a stack. *)
LEMMA HoldsKept ==
  ASSUME TypeOK, HoldsAgree, NEW r \in Requests, HoldOf(r)',
         \A q \in Requests \ {r} :
           pc'[q] = pc[q] /\ stack'[q] = stack[q] /\ hold'[q] = hold[q],
         bought' \in Nat, bought <= bought',
         \/ rows' = rows
         \/ rows \subseteq rows' /\ \A q \in Requests \ {r} : pc[q] # "storing"
  PROVE  HoldsAgree'
<1>1. SUFFICES ASSUME NEW q \in Requests PROVE HoldOf(q)'
  BY DEF HoldsAgree, HoldOf
<1>2. HoldOf(q)
  BY DEF HoldsAgree, HoldOf
<1>3. CASE q # r
  <2>1. 1 .. bought \subseteq 1 .. bought'
    BY DEF TypeOK
  <2>2. pc'[q] = pc[q] /\ stack'[q] = stack[q] /\ hold'[q] = hold[q]
    BY <1>3
  <2>3. QED
    BY <1>2, <1>3, <2>1, <2>2 DEF HoldOf
<1>4. QED
  BY <1>3

(* A step of a request that sends nothing. *)
LEMMA QuietStep ==
  ASSUME TypeOK, EventsAgree, NEW r \in Requests, NEW l, Goto(r, l),
         pc[r] \notin Waiting, l # "storing",
         l \in {"stored", "selected", "handling"} =>
           pc[r] \in {"stored", "selected", "handling"},
         l \notin {"stored", "selected", "handling", "ended"} =>
           pc[r] \notin {"stored", "selected", "handling"},
         bought' \in Nat, bought <= bought',
         UNCHANGED <<stack, rows, queue, hold>>
  PROVE  EventsAgree'
<1>1. pc'[r] = l /\ \A q \in Requests \ {r} : pc'[q] = pc[q]
  BY DEF TypeOK, Goto
<1>2. QueueAgrees' /\ OneEventEach'
  BY <1>1, Moved DEF EventsAgree
<1>3. HoldOf(r)
  BY DEF EventsAgree, HoldsAgree, HoldOf
<1>4. pc[r] # "ended"
  BY DEF Waiting
<1>5. HoldOf(r)'
  BY <1>1, <1>3, <1>4 DEF HoldOf
<1>6. HoldsAgree'
  BY <1>1, <1>5, HoldsKept DEF EventsAgree
<1>7. rows' \subseteq 1 .. bought'
  <2>1. rows \subseteq 1 .. bought /\ bought \in Nat
    BY DEF EventsAgree, TypeOK
  <2>2. QED
    BY <2>1
<1>8. QED
  BY <1>2, <1>6, <1>7 DEF EventsAgree

(* A step of a request that sends an event and waits for its answer. *)
LEMMA SendingStep ==
  ASSUME TypeOK, EventsAgree, NEW r \in Requests, NEW op \in Ops, NEW used \in Nat,
         Send(op, r, used), Goto(r, WaitsFor(op)), pc[r] \notin Waiting,
         op = "UpdateStackNumTokens" <=> pc[r] \in {"selected", "handling"},
         pc[r] # "stored",
         op = "NewStackAcquired" => stack'[r] \in (1 .. bought') \ rows,
         op # "NewStackAcquired" => stack' = stack,
         \A q \in Requests \ {r} : stack'[q] = stack[q],
         bought' \in Nat, bought <= bought',
         UNCHANGED <<rows, hold>>
  PROVE  EventsAgree'
<1>1. pc'[r] = WaitsFor(op) /\ \A q \in Requests \ {r} : pc'[q] = pc[q]
  BY DEF TypeOK, Goto
<1>2. HoldOf(r)
  BY DEF EventsAgree, HoldsAgree, HoldOf
<1>3. op = "UpdateStackNumTokens" => hold[r] = stack'[r] /\ stack'[r] \in rows
  BY <1>2 DEF HoldOf
<1>4. QueueAgrees' /\ OneEventEach'
  BY <1>3, Pushed DEF EventsAgree
<1>5. HoldOf(r)'
  <2>1. CASE op = "UpdateStackNumTokens"
    BY <1>1, <1>2, <2>1 DEF HoldOf, WaitsFor
  <2>2. CASE op # "UpdateStackNumTokens"
    <3>1. hold[r] = NoStack
      BY <1>2, <2>2 DEF HoldOf, Waiting
    <3>2. CASE op = "NewStackAcquired"
      BY <1>1, <3>1, <3>2 DEF HoldOf, WaitsFor
    <3>3. CASE op \in {"GetStacksForModel", "GetStacksForTask", "DeductFromUsdc", "RefundUsdc"}
      BY <1>1, <3>1, <3>3 DEF HoldOf, WaitsFor
    <3>4. QED
      BY <2>2, <3>2, <3>3 DEF Ops
  <2>3. QED
    BY <2>1, <2>2
<1>6. HoldsAgree'
  BY <1>1, <1>5, HoldsKept DEF EventsAgree
<1>7. rows' \subseteq 1 .. bought'
  <2>1. rows \subseteq 1 .. bought /\ bought \in Nat
    BY DEF EventsAgree, TypeOK
  <2>2. QED
    BY <2>1
<1>8. QED
  BY <1>4, <1>6, <1>7 DEF EventsAgree

(* A step of the state manager: the request at the head goes on. *)
LEMMA AnswerStep ==
  ASSUME TypeOK, EventsAgree, queue # <<>>, queue' = Tail(queue),
         NEW h \in Requests, h = Head(queue).r, HoldOf(h)',
         \A q \in Requests \ {h} :
           pc'[q] = pc[q] /\ stack'[q] = stack[q] /\ hold'[q] = hold[q],
         bought' = bought, rows' \subseteq 1 .. bought,
         \/ rows' = rows
         \/ rows \subseteq rows' /\ \A q \in Requests \ {h} : pc[q] # "storing"
  PROVE  EventsAgree'
<1>1. QueueAgrees' /\ OneEventEach'
  BY Popped DEF EventsAgree
<1>2. bought' \in Nat /\ bought <= bought'
  BY DEF TypeOK
<1>3. HoldsAgree'
  BY <1>2, HoldsKept DEF EventsAgree
<1>4. QED
  BY <1>1, <1>3 DEF EventsAgree

(* The steps of requests and of the chain keep the agreement ... *)
LEMMA RequestEventsStep ==
  ASSUME TypeOK, EventsAgree, NEW r \in Requests,
         RequestStep(r) \/ ChainStep(r) \/ HandlerStep(r)
  PROVE  EventsAgree'
<1> USE DEF table, Waiting, WaitsFor, Ops
<1>0. bought \in Nat /\ bought <= bought /\ 0 \in Nat
  BY DEF TypeOK
<1>1. CASE HandleTooEarly(r)
  <2>1. pc[r] = "too_early" /\ Send("GetStacksForModel", r, 0) /\ Goto(r, "selecting")
        /\ UNCHANGED <<stack, bought, rows, hold>>
    BY <1>1 DEF HandleTooEarly
  <2>2. QED
    BY <1>0, <2>1, SendingStep
<1>2. CASE get_cheapest_node(r)
  <2>1. pc[r] = "no_stack" /\ (Goto(r, "locking") \/ Goto(r, "ended"))
        /\ UNCHANGED <<stack, bought, rows, queue, hold>>
    BY <1>2 DEF get_cheapest_node
  <2>2. QED
    BY <1>0, <2>1, QuietStep
<1>3. CASE try_lock(r)
  <2>1. pc[r] = "locking" /\ UNCHANGED <<stack, bought, rows, hold>>
        /\ \/ Goto(r, "not_locked") /\ UNCHANGED queue
           \/ Send("DeductFromUsdc", r, 0) /\ Goto(r, "deducting")
    BY <1>3 DEF try_lock
  <2>2. QED
    BY <1>0, <2>1, QuietStep, SendingStep
<1>4. CASE get_stack_if_locked(r) \/ PollAgain(r)
  <2>1. pc[r] \in {"not_locked", "sleeping"} /\ UNCHANGED <<stack, bought, rows, hold>>
        /\ \/ Goto(r, "refused") /\ UNCHANGED queue
           \/ Send("GetStacksForTask", r, 0) /\ Goto(r, "polling")
    BY <1>4 DEF get_stack_if_locked, PollAgain, AskForStack, GiveUp
  <2>2. QED
    BY <1>0, <2>1, QuietStep, SendingStep
<1>5. CASE acquire_new_stack_entry(r)
  <2>1. pc[r] = "buying" /\ Goto(r, "on_chain") /\ UNCHANGED <<stack, bought, rows, queue, hold>>
    BY <1>5 DEF acquire_new_stack_entry
  <2>2. QED
    BY <1>0, <2>1, QuietStep
<1>6. CASE refund_usdc(r)
  <2>1. pc[r] = "not_acquired" /\ Send("RefundUsdc", r, 0) /\ Goto(r, "refunding")
        /\ UNCHANGED <<stack, bought, rows, hold>>
    BY <1>6 DEF refund_usdc
  <2>2. QED
    BY <1>0, <2>1, SendingStep
<1>7. CASE DropLockGuard(r)
  <2>1. UNCHANGED <<stack, bought, rows, queue, hold>>
        /\ \/ pc[r] = "stored" /\ Goto(r, "selected")
           \/ pc[r] = "not_bought" /\ Goto(r, "ended")
    BY <1>7 DEF DropLockGuard
  <2>2. QED
    BY <1>0, <2>1, QuietStep
<1>8. CASE try_validate_stack_for_request(r)
  <2>1. pc[r] = "selected" /\ UNCHANGED <<stack, bought, rows, hold>>
        /\ \/ Goto(r, "handling") /\ UNCHANGED queue
           \/ Send("UpdateStackNumTokens", r, 0) /\ Goto(r, "ended")
    BY <1>8 DEF try_validate_stack_for_request
  <2>2. QED
    BY <1>0, <2>1, QuietStep, SendingStep
<1>9. CASE ChainBuys(r)
  <2>1. pc[r] = "on_chain" /\ bought' = bought + 1 /\ UNCHANGED <<rows, hold>>
    BY <1>9 DEF ChainBuys
  <2>2. bought' \in Nat /\ bought <= bought'
    BY <1>0, <2>1
  <2>3. CASE stack' = [stack EXCEPT ![r] = bought + 1] /\ Send("NewStackAcquired", r, 0)
             /\ Goto(r, "storing")
    <3>1. stack'[r] = bought + 1 /\ \A q \in Requests \ {r} : stack'[q] = stack[q]
      BY <2>3 DEF TypeOK
    <3>2. rows \subseteq 1 .. bought
      BY DEF EventsAgree
    <3>3. bought + 1 \in (1 .. bought') \ rows
      BY <1>0, <2>1, <3>2
    <3>4. QED
      BY <1>0, <2>1, <2>2, <2>3, <3>1, <3>3, SendingStep
  <2>4. CASE Goto(r, "not_acquired") /\ UNCHANGED <<stack, queue>>
    BY <2>1, <2>2, <2>4, QuietStep
  <2>5. QED
    BY <1>9, <2>3, <2>4 DEF ChainBuys
<1>10. CASE ChainRefuses(r)
  <2>1. pc[r] = "on_chain" /\ Goto(r, "not_acquired")
        /\ UNCHANGED <<stack, bought, rows, queue, hold>>
    BY <1>10 DEF ChainRefuses
  <2>2. QED
    BY <1>0, <2>1, QuietStep
<1>11. CASE TransactionFails(r)
  <2>1. pc[r] = "on_chain" /\ Goto(r, "ended") /\ UNCHANGED <<stack, bought, rows, queue, hold>>
    BY <1>11 DEF TransactionFails
  <2>2. QED
    BY <1>0, <2>1, QuietStep
<1>12. CASE HandlerAnswers(r)
  <2>1. PICK used \in 0 .. MaxUse : Send("UpdateStackNumTokens", r, used)
    BY <1>12 DEF HandlerAnswers
  <2>2. pc[r] = "handling" /\ Goto(r, "ended") /\ UNCHANGED <<stack, bought, rows, hold>>
    BY <1>12 DEF HandlerAnswers
  <2>3. used \in Nat
    OBVIOUS
  <2>4. QED
    BY <1>0, <2>1, <2>2, <2>3, SendingStep
<1>13. CASE HandlerPanics(r)
  <2>1. pc[r] = "handling" /\ Goto(r, "ended") /\ UNCHANGED <<stack, bought, rows, queue, hold>>
    BY <1>13 DEF HandlerPanics
  <2>2. QED
    BY <1>0, <2>1, QuietStep
<1>14. QED
  BY <1>1, <1>2, <1>3, <1>4, <1>5, <1>6, <1>7, <1>8, <1>9, <1>10, <1>11, <1>12, <1>13
     DEF RequestStep, ChainStep, HandlerStep

(* ... and those of the state manager. *)
LEMMA ManagerEventsStep ==
  ASSUME TypeOK, OneBuyer, EventsAgree, StateManagerStep \/ DatabaseError
  PROVE  EventsAgree'
<1> USE DEF table, request
<1>1. queue # <<>>
  BY DEF StateManagerStep, DatabaseError, Event, get_stacks_for_model, get_stacks_for_task,
         deduct_from_usdc, NewStackAcquired, RefundUsdc, update_stack_num_tokens
<1>2. PICK h \in Requests :
        /\ h = Head(queue).r
        /\ Head(queue).op \in Ops /\ pc[h] = WaitsFor(Head(queue).op)
        /\ (Head(queue).op = "UpdateStackNumTokens" => hold[h] = stack[h] /\ stack[h] \in rows)
  BY <1>1, HeadFacts DEF EventsAgree
<1>3. HoldOf(h)
  BY <1>2 DEF EventsAgree, HoldsAgree, HoldOf
<1>4. rows \subseteq 1 .. bought
  BY DEF EventsAgree
<1>5. ASSUME NEW l, Answer(l)
      PROVE  queue' = Tail(queue) /\ pc'[h] = l /\ \A q \in Requests \ {h} : pc'[q] = pc[q]
  BY <1>2, <1>5 DEF Answer, Goto, TypeOK
<1>6. ASSUME NEW l, Answer(l), UNCHANGED <<stack, hold, rows, bought>>, hold[h] = NoStack,
             l \notin {"stored", "selected", "handling", "storing"}
      PROVE  EventsAgree'
  <2>1. HoldOf(h)'
    BY <1>5, <1>6 DEF HoldOf
  <2>2. QED
    BY <1>1, <1>2, <1>4, <1>5, <1>6, <2>1, AnswerStep
<1>7. ASSUME NEW none \in {"no_stack", "sleeping"}, TakeUnits(none),
             pc[h] \in {"selecting", "polling"}
      PROVE  EventsAgree'
  <2>1. hold[h] = NoStack /\ UNCHANGED <<rows, bought>>
    BY <1>3, <1>7 DEF HoldOf, TakeUnits
  <2>2. CASE Answer(none) /\ UNCHANGED <<locked, stack, hold>>
    BY <1>6, <1>7, <2>1, <2>2
  <2>3. CASE \E s \in Stacks : /\ Fits(s, h)
                               /\ stack' = [stack EXCEPT ![h] = s]
                               /\ hold' = [hold EXCEPT ![h] = s]
                               /\ Answer("selected")
    <3>1. PICK s \in rows : /\ stack' = [stack EXCEPT ![h] = s]
                            /\ hold' = [hold EXCEPT ![h] = s]
                            /\ Answer("selected")
      BY <2>3 DEF Fits
    <3>2. stack'[h] = s /\ hold'[h] = s
          /\ \A q \in Requests \ {h} : stack'[q] = stack[q] /\ hold'[q] = hold[q]
      BY <1>2, <3>1 DEF TypeOK
    <3>3. HoldOf(h)'
      BY <1>5, <2>1, <3>1, <3>2 DEF HoldOf
    <3>4. QED
      BY <1>1, <1>2, <1>4, <1>5, <2>1, <3>1, <3>2, <3>3, AnswerStep
  <2>4. QED
    BY <1>2, <1>7, <2>2, <2>3, UnitsAnswer
<1>8. CASE get_stacks_for_model
  <2>1. pc[h] = "selecting" /\ TakeUnits("no_stack")
    BY <1>2, <1>8 DEF get_stacks_for_model, Event, WaitsFor
  <2>2. QED
    BY <1>7, <2>1
<1>9. CASE get_stacks_for_task
  <2>1. pc[h] = "polling" /\ TakeUnits("sleeping")
    BY <1>2, <1>9 DEF get_stacks_for_task, Event, WaitsFor
  <2>2. QED
    BY <1>7, <2>1
<1>10. CASE deduct_from_usdc
  <2>1. pc[h] = "deducting"
    BY <1>2, <1>10 DEF deduct_from_usdc, Event, WaitsFor
  <2>2. hold[h] = NoStack
    BY <1>3, <2>1 DEF HoldOf
  <2>3. (Answer("buying") \/ Answer("not_bought")) /\ UNCHANGED <<stack, hold, rows, bought>>
    BY <1>10 DEF deduct_from_usdc
  <2>4. QED
    BY <1>6, <2>2, <2>3
<1>11. CASE RefundUsdc
  <2>1. pc[h] = "refunding"
    BY <1>2, <1>11 DEF RefundUsdc, Event, WaitsFor
  <2>2. hold[h] = NoStack
    BY <1>3, <2>1 DEF HoldOf
  <2>3. Answer("not_bought") /\ UNCHANGED <<stack, hold, rows, bought>>
    BY <1>11 DEF RefundUsdc
  <2>4. QED
    BY <1>6, <2>2, <2>3
<1>12. CASE NewStackAcquired
  <2>1. pc[h] = "storing"
    BY <1>2, <1>12 DEF NewStackAcquired, Event, WaitsFor
  <2>2. hold[h] = NoStack /\ stack[h] \in (1 .. bought) \ rows
    BY <1>3, <2>1 DEF HoldOf
  <2>3. UNCHANGED <<stack, bought>>
    BY <1>12 DEF NewStackAcquired
  <2>4. CASE Answer("not_acquired") /\ UNCHANGED <<rows, hold>>
    BY <1>6, <2>2, <2>3, <2>4
  <2>5. CASE /\ rows' = rows \cup {stack[h]}
             /\ hold' = [hold EXCEPT ![h] = stack[h]]
             /\ Answer("stored")
    <3>1. hold'[h] = stack[h] /\ \A q \in Requests \ {h} : hold'[q] = hold[q]
      BY <1>2, <2>5 DEF TypeOK
    <3>2. HoldOf(h)'
      BY <1>5, <2>3, <2>5, <3>1 DEF HoldOf
    <3>3. \A q \in Requests \ {h} : pc[q] # "storing"
      BY <1>2, <2>1 DEF OneBuyer, Buying, Paying
    <3>4. rows \subseteq rows' /\ rows' \subseteq 1 .. bought
      BY <1>4, <2>2, <2>5
    <3>5. QED
      BY <1>1, <1>2, <1>5, <2>3, <2>5, <3>1, <3>2, <3>3, <3>4, AnswerStep
  <2>6. QED
    BY <1>2, <1>12, <2>4, <2>5 DEF NewStackAcquired
<1>13. CASE update_stack_num_tokens
  <2>1. pc[h] = "ended" /\ hold[h] \in rows
    BY <1>2, <1>13 DEF update_stack_num_tokens, Event, WaitsFor
  <2>2. queue' = Tail(queue) /\ UNCHANGED <<pc, stack, rows, bought>>
    BY <1>13 DEF update_stack_num_tokens
  <2>3. hold' = hold \/ hold' = [hold EXCEPT ![h] = NoStack]
    BY <1>2, <1>13 DEF update_stack_num_tokens
  <2>4. hold'[h] \in rows \cup {NoStack} /\ \A q \in Requests \ {h} : hold'[q] = hold[q]
    BY <1>2, <2>1, <2>3 DEF TypeOK
  <2>5. HoldOf(h)'
    BY <2>1, <2>2, <2>4 DEF HoldOf
  <2>6. QED
    BY <1>1, <1>2, <1>4, <2>2, <2>4, <2>5, AnswerStep
<1>14. CASE DatabaseError
  <2>1. UNCHANGED <<stack, hold, rows, bought>>
    BY <1>14 DEF DatabaseError
  <2>2. CASE Head(queue).op = "UpdateStackNumTokens"
    <3>1. queue' = Tail(queue) /\ UNCHANGED pc
      BY <1>14, <2>2 DEF DatabaseError
    <3>2. HoldOf(h)'
      BY <1>3, <2>1, <3>1 DEF HoldOf
    <3>3. QED
      BY <1>1, <1>2, <1>4, <2>1, <3>1, <3>2, AnswerStep
  <2>3. CASE Head(queue).op # "UpdateStackNumTokens"
    <3>1. pc[h] \in {"selecting", "polling", "deducting", "storing", "refunding"}
      BY <1>2, <2>3 DEF WaitsFor, Ops
    <3>2. hold[h] = NoStack
      BY <1>3, <3>1 DEF HoldOf
    <3>3. Answer(AfterError(Head(queue).op))
      BY <1>14, <2>3 DEF DatabaseError
    <3>4. AfterError(Head(queue).op) \in {"not_acquired", "not_bought", "ended"}
      BY DEF AfterError
    <3>5. QED
      BY <1>6, <2>1, <3>2, <3>3, <3>4
  <2>4. QED
    BY <2>2, <2>3
<1>15. QED
  BY <1>8, <1>9, <1>10, <1>11, <1>12, <1>13, <1>14 DEF StateManagerStep

(* So does every step. *)
LEMMA EventsStep ==
  ASSUME TypeOK, OneBuyer, EventsAgree, [Next]_vars
  PROVE  EventsAgree'
<1>1. ASSUME UNCHANGED <<pc, stack, rows, queue, hold, bought>> PROVE EventsAgree'
  BY <1>1 DEF EventsAgree, QueueAgrees, OneEventEach, HoldsAgree, WaitsFor
<1>2. ASSUME NEW s \in Stacks, CloseStack(s) PROVE EventsAgree'
  BY <1>1, <1>2 DEF CloseStack, request
<1>3. CASE Crash
  <2>1. queue' = <<>> /\ UNCHANGED <<stack, rows, hold, bought>>
    BY <1>3 DEF Crash, table
  <2>2. QueueAgrees' /\ OneEventEach'
    BY <2>1 DEF QueueAgrees, OneEventEach
  <2>3. \A q \in Requests : pc'[q] \in {"too_early", "ended"}
                             /\ (pc'[q] = "too_early" => pc[q] = "too_early")
    BY <1>3 DEF Crash
  <2>4. HoldsAgree'
    BY <2>1, <2>3 DEF EventsAgree, HoldsAgree
  <2>5. QED
    BY <2>1, <2>2, <2>4 DEF EventsAgree
<1>4. CASE UNCHANGED vars
  BY <1>1, <1>4 DEF vars, request, table
<1>5. QED
  BY <1>2, <1>3, <1>4, RequestEventsStep, ManagerEventsStep DEF Next

-----------------------------------------------------------------------------
(* What the stacks were used for.                                          *)

(* Steps that take nothing from a request for which usage was reported,    *)
(* and leave the rows and their usage alone.                               *)
LEMMA UsageKept ==
  ASSUME TypeOK, UsageAgree, UNCHANGED <<reported, rows, computed>>, SettlementsReport',
         \A q \in Requests : reported[q] > 0 =>
           pc'[q] = pc[q] /\ stack'[q] = stack[q] /\ hold'[q] = hold[q]
  PROVE  UsageAgree'
<1>1. Reports'
  BY DEF UsageAgree, Reports
<1>2. \A s \in rows : UsersOf(s)' = UsersOf(s)
  BY DEF UsersOf
<1>3. UsageSum'
  BY <1>2 DEF UsageAgree, UsageSum
<1>4. QED
  BY <1>1, <1>3 DEF UsageAgree

(* The settlements that are left when one event is handled. *)
LEMMA ReportsLeft ==
  ASSUME TypeOK, SettlementsReport, queue # <<>>, queue' = Tail(queue), reported' = reported
  PROVE  SettlementsReport'
<1>1. \A i \in 1 .. Len(Tail(queue)) :
        i + 1 \in 1 .. Len(queue) /\ Tail(queue)[i] = queue[i + 1]
  BY TailFacts
<1>2. QED
  BY <1>1 DEF SettlementsReport

(* A request sends an event, which carries its usage if it is a settlement. *)
LEMMA ReportSent ==
  ASSUME TypeOK, SettlementsReport, NEW r \in Requests, NEW op \in Ops, NEW used \in Nat,
         Send(op, r, used), reported'[r] = used,
         \A i \in 1 .. Len(queue) : reported'[queue[i].r] = reported[queue[i].r]
  PROVE  SettlementsReport'
<1> DEFINE e == [op |-> op, r |-> r, used |-> used]
           n == Len(queue) + 1
<1>1. queue \in Seq(Messages)
  BY DEF TypeOK, Messages
<1>2. e \in Messages
  BY DEF Messages
<1>3. queue' = Append(queue, e)
  BY DEF Send
<1>4. e.r = r /\ e.used = used
  OBVIOUS
<1> HIDE DEF e
<1>5. Len(queue') = n /\ queue'[n] = e /\ \A i \in 1 .. Len(queue) : queue'[i] = queue[i]
  BY <1>1, <1>2, <1>3
<1>6. ASSUME NEW i \in 1 .. n, queue'[i].op = "UpdateStackNumTokens"
      PROVE  queue'[i].used = reported'[queue'[i].r]
  <2>1. CASE i = n
    BY <1>4, <1>5, <2>1
  <2>2. CASE i # n
    <3>1. i \in 1 .. Len(queue)
      BY <1>1, <2>2
    <3>2. QED
      BY <1>5, <1>6, <3>1 DEF SettlementsReport
  <2>3. QED
    BY <2>1, <2>2
<1>7. QED
  BY <1>5, <1>6 DEF SettlementsReport

(* A request that has not ended goes on, and sends an event or none. *)
LEMMA UsageWhenMoved ==
  ASSUME TypeOK, UsageAgree, NEW r \in Requests, pc[r] # "ended",
         UNCHANGED <<reported, rows, computed, hold>>, NEW l, Goto(r, l),
         \A q \in Requests \ {r} : stack'[q] = stack[q],
         queue' = queue \/ \E op \in Ops : Send(op, r, 0)
  PROVE  UsageAgree'
<1>1. \A q \in Requests \ {r} : pc'[q] = pc[q]
  BY DEF Goto, TypeOK
<1>2. reported[r] = 0 /\ 0 \in Nat
  BY DEF UsageAgree, Reports, TypeOK
<1>3. SettlementsReport'
  <2>1. CASE queue' = queue
    BY <2>1 DEF UsageAgree, SettlementsReport
  <2>2. CASE \E op \in Ops : Send(op, r, 0)
    BY <1>2, <2>2, ReportSent DEF UsageAgree
  <2>3. QED
    BY <2>1, <2>2
<1>4. \A q \in Requests : reported[q] > 0 =>
        pc'[q] = pc[q] /\ stack'[q] = stack[q] /\ hold'[q] = hold[q]
  BY <1>1, <1>2
<1>5. QED
  BY <1>3, <1>4, UsageKept

(* The steps of requests and of the chain keep the usage. *)
LEMMA RequestUsageStep ==
  ASSUME TypeOK, UsageAgree, NEW r \in Requests, RequestStep(r) \/ ChainStep(r)
  PROVE  UsageAgree'
<1> USE DEF table, outside, Ops
<1>1. UNCHANGED <<reported, rows, computed, hold>> /\ pc[r] # "ended"
  BY DEF RequestStep, ChainStep, HandleTooEarly, get_cheapest_node,
         try_lock, get_stack_if_locked, PollAgain, acquire_new_stack_entry, refund_usdc,
         DropLockGuard, try_validate_stack_for_request, ChainBuys, ChainRefuses,
         TransactionFails
<1>2. \E l : Goto(r, l)
  BY DEF RequestStep, ChainStep, HandleTooEarly, get_cheapest_node, AskForStack, GiveUp,
         try_lock, get_stack_if_locked, PollAgain, acquire_new_stack_entry, refund_usdc,
         DropLockGuard, try_validate_stack_for_request, ChainBuys, ChainRefuses,
         TransactionFails
<1>3. \A q \in Requests \ {r} : stack'[q] = stack[q]
  <2>1. stack' = stack \/ stack' = [stack EXCEPT ![r] = bought + 1]
    BY DEF RequestStep, ChainStep, HandleTooEarly, get_cheapest_node,
         try_lock, get_stack_if_locked, PollAgain, acquire_new_stack_entry, refund_usdc,
         DropLockGuard, try_validate_stack_for_request, ChainBuys, ChainRefuses,
         TransactionFails
  <2>2. QED
    BY <2>1 DEF TypeOK
<1>4. queue' = queue \/ \E op \in Ops : Send(op, r, 0)
  BY DEF RequestStep, ChainStep, HandleTooEarly, get_cheapest_node, AskForStack, GiveUp,
         try_lock, get_stack_if_locked, PollAgain, acquire_new_stack_entry, refund_usdc,
         DropLockGuard, try_validate_stack_for_request, ChainBuys, ChainRefuses,
         TransactionFails
<1>5. QED
  BY <1>1, <1>2, <1>3, <1>4, UsageWhenMoved

(* A handler that answers reports usage, of a stack whose units it holds. *)
LEMMA HandlerUsageStep ==
  ASSUME TypeOK, EventsAgree, UsageAgree, NEW r \in Requests, HandlerStep(r)
  PROVE  UsageAgree'
<1>1. CASE HandlerPanics(r)
  <2>1. pc[r] # "ended" /\ UNCHANGED <<reported, rows, computed, hold, stack, queue>>
        /\ Goto(r, "ended")
    BY <1>1 DEF HandlerPanics, table, outside
  <2>2. QED
    BY <2>1, UsageWhenMoved
<1>2. CASE HandlerAnswers(r)
  <2>1. PICK used \in 0 .. MaxUse :
          Send("UpdateStackNumTokens", r, used) /\ reported' = [reported EXCEPT ![r] = used]
    BY <1>2 DEF HandlerAnswers
  <2>2. pc[r] = "handling" /\ Goto(r, "ended") /\ UNCHANGED <<rows, computed, hold, stack>>
    BY <1>2 DEF HandlerAnswers, table
  <2>3. used \in Nat /\ "UpdateStackNumTokens" \in Ops
    BY DEF Ops
  <2>4. reported'[r] = used /\ \A q \in Requests \ {r} : reported'[q] = reported[q]
    BY <2>1 DEF TypeOK
  <2>5. pc'[r] = "ended" /\ \A q \in Requests \ {r} : pc'[q] = pc[q]
    BY <2>2 DEF Goto, TypeOK
  <2>6. hold[r] = stack[r] /\ stack[r] \in rows /\ stack[r] # NoStack
    BY <2>2 DEF EventsAgree, HoldsAgree, TypeOK, Stacks, NoStack
  <2>7. Reports'
    BY <2>2, <2>4, <2>5, <2>6 DEF UsageAgree, Reports
  <2>8. SettlementsReport'
    <3>1. \A i \in 1 .. Len(queue) : queue[i].r # r /\ queue[i].r \in Requests
      <4>1. \A i \in 1 .. Len(queue) : queue[i].r # r
        BY <2>2, NotWaiting DEF EventsAgree, Waiting
      <4>2. queue \in Seq(Messages)
        BY DEF TypeOK, Messages
      <4>3. \A i \in 1 .. Len(queue) : queue[i] \in Messages
        BY <4>2
      <4>4. QED
        BY <4>1, <4>3 DEF Messages
    <3>2. QED
      BY <2>1, <2>3, <2>4, <3>1, ReportSent DEF UsageAgree
  <2>9. UsageSum'
    <3>1. SUFFICES ASSUME NEW s \in rows PROVE IsSum(computed[s], reported', UsersOf(s)')
      BY <2>2 DEF UsageSum
    <3>2. r \notin UsersOf(s) /\ UsersOf(s)' = UsersOf(s)
      BY <2>2, <2>4, <2>6 DEF UsersOf
    <3>3. \A q \in UsersOf(s) : reported'[q] = reported[q]
      BY <2>4, <3>2 DEF UsersOf
    <3>4. QED
      BY <3>2, <3>3, SumSame DEF UsageAgree, UsageSum
  <2>10. QED
    BY <2>7, <2>8, <2>9 DEF UsageAgree
<1>3. QED
  BY <1>1, <1>2 DEF HandlerStep

(* A stack that is stored was used by nobody. *)
LEMMA UsageOfNewRow ==
  ASSUME TypeOK, UnitsAgree, UsageAgree, NEW h \in Requests, pc[h] # "ended",
         NEW s \in Stacks \ rows, rows' = rows \cup {s}, SettlementsReport',
         UNCHANGED <<reported, computed, stack>>,
         \A q \in Requests \ {h} : pc'[q] = pc[q] /\ hold'[q] = hold[q]
  PROVE  UsageAgree'
<1>1. reported[h] = 0
  BY DEF UsageAgree, Reports, TypeOK
<1>2. Reports'
  BY <1>1 DEF UsageAgree, Reports
<1>3. \A x \in Stacks : UsersOf(x)' = UsersOf(x)
  BY <1>1 DEF UsersOf
<1>4. UsersOf(s) = {} /\ computed[s] = 0
  BY DEF UsersOf, UsageAgree, Reports, UnitsAgree, FreshStacks
<1>5. UsageSum'
  <2>1. SUFFICES ASSUME NEW x \in rows' PROVE IsSum(computed[x], reported, UsersOf(x))
    BY <1>3 DEF UsageSum, TypeOK
  <2>2. CASE x = s
    BY <1>4, <2>2, SumEmpty
  <2>3. CASE x # s
    BY <2>3 DEF UsageAgree, UsageSum
  <2>4. QED
    BY <2>2, <2>3
<1>6. QED
  BY <1>2, <1>5 DEF UsageAgree

(* A settlement charges what was reported, when it releases the estimate. *)
LEMMA UsageCharged ==
  ASSUME TypeOK, UsageAgree, NEW h \in Requests, NEW s \in rows, hold[h] = s, stack[h] = s,
         computed' = [computed EXCEPT ![s] = @ + reported[h]],
         hold' = [hold EXCEPT ![h] = NoStack], SettlementsReport',
         UNCHANGED <<pc, stack, reported, rows>>
  PROVE  UsageAgree'
<1>1. Reports'
  BY DEF UsageAgree, Reports
<1>2. s \in Stacks /\ s # NoStack /\ computed[s] \in Nat /\ reported[h] \in Nat
  BY DEF TypeOK, Stacks, NoStack
<1>3. computed'[s] = computed[s] + reported[h]
      /\ \A x \in rows \ {s} : computed'[x] = computed[x]
  BY <1>2 DEF TypeOK
<1>4. hold'[h] = NoStack /\ \A q \in Requests \ {h} : hold'[q] = hold[q]
  BY DEF TypeOK
<1>5. UsageSum'
  <2>1. SUFFICES ASSUME NEW x \in rows PROVE IsSum(computed'[x], reported, UsersOf(x)')
    BY DEF UsageSum
  <2>2. IsSum(computed[x], reported, UsersOf(x))
    BY DEF UsageAgree, UsageSum
  <2>3. CASE x # s
    <3>1. UsersOf(x)' = UsersOf(x)
      BY <1>4, <2>3 DEF UsersOf
    <3>2. QED
      BY <1>3, <2>2, <2>3, <3>1
  <2>4. CASE x = s /\ reported[h] = 0
    <3>1. UsersOf(x)' = UsersOf(x)
      BY <1>4, <2>4 DEF UsersOf
    <3>2. computed'[x] = computed[x]
      BY <1>2, <1>3, <2>4
    <3>3. QED
      BY <2>2, <3>1, <3>2
  <2>5. CASE x = s /\ reported[h] # 0
    <3>1. h \notin UsersOf(s) /\ UsersOf(s)' = UsersOf(s) \cup {h}
      <4>1. reported[h] > 0
        BY <1>2, <2>5
      <4>2. QED
        BY <1>2, <1>4, <4>1 DEF UsersOf
    <3>2. IsSum(computed[s] + reported[h], reported, UsersOf(s) \cup {h})
      BY <1>2, <2>2, <2>5, <3>1, SumAdd
    <3>3. QED
      BY <1>3, <2>5, <3>1, <3>2
  <2>6. QED
    BY <2>3, <2>4, <2>5
<1>6. QED
  BY <1>1, <1>5 DEF UsageAgree

(* The steps of the state manager keep the usage. *)
LEMMA ManagerUsageStep ==
  ASSUME TypeOK, UnitsAgree, EventsAgree, UsageAgree, StateManagerStep \/ DatabaseError
  PROVE  UsageAgree'
<1> USE DEF table, request, outside
<1>1. queue # <<>> /\ reported' = reported
  BY DEF StateManagerStep, DatabaseError, Event, get_stacks_for_model, get_stacks_for_task,
         deduct_from_usdc, NewStackAcquired, RefundUsdc, update_stack_num_tokens, TakeUnits
<1>2. PICK h \in Requests :
        /\ h = Head(queue).r
        /\ Head(queue).op \in Ops /\ pc[h] = WaitsFor(Head(queue).op)
        /\ (Head(queue).op = "UpdateStackNumTokens" => hold[h] = stack[h] /\ stack[h] \in rows)
  BY <1>1, HeadFacts DEF EventsAgree
<1>3. queue' = Tail(queue)
  BY DEF StateManagerStep, DatabaseError, get_stacks_for_model, get_stacks_for_task,
         deduct_from_usdc, NewStackAcquired, RefundUsdc, update_stack_num_tokens, TakeUnits,
         Answer
<1>4. SettlementsReport'
  BY <1>1, <1>3, ReportsLeft DEF UsageAgree
<1>5. Head(queue).op = "UpdateStackNumTokens" => Head(queue).used = reported[h]
  BY <1>1, <1>2, HeadFacts DEF EventsAgree, UsageAgree, SettlementsReport
<1>6. ASSUME NEW l, Goto(h, l) PROVE \A q \in Requests \ {h} : pc'[q] = pc[q]
  BY <1>2, <1>6 DEF Goto, TypeOK
<1>7. ASSUME Head(queue).op # "UpdateStackNumTokens" PROVE pc[h] # "ended" /\ reported[h] = 0
  <2>1. pc[h] # "ended"
    BY <1>2, <1>7 DEF WaitsFor, Ops
  <2>2. QED
    BY <1>2, <2>1 DEF UsageAgree, Reports, TypeOK
<1>8. CASE get_stacks_for_model \/ get_stacks_for_task
  <2>1. Head(queue).op # "UpdateStackNumTokens" /\ UNCHANGED <<rows, computed>>
        /\ (TakeUnits("no_stack") \/ TakeUnits("sleeping"))
    BY <1>8 DEF get_stacks_for_model, get_stacks_for_task, Event, TakeUnits
  <2>2. \/ UNCHANGED <<stack, hold>>
        \/ \E s \in Stacks : stack' = [stack EXCEPT ![h] = s] /\ hold' = [hold EXCEPT ![h] = s]
    BY <1>2, <2>1, UnitsAnswer
  <2>3. \A q \in Requests \ {h} : stack'[q] = stack[q] /\ hold'[q] = hold[q]
    BY <1>2, <2>2 DEF TypeOK
  <2>4. \E l : Goto(h, l)
    BY <1>2, <2>1 DEF TakeUnits, Answer
  <2>5. \A q \in Requests : reported[q] > 0 =>
          pc'[q] = pc[q] /\ stack'[q] = stack[q] /\ hold'[q] = hold[q]
    BY <1>6, <1>7, <2>1, <2>3, <2>4
  <2>6. QED
    BY <1>1, <1>4, <2>1, <2>5, UsageKept
<1>9. CASE deduct_from_usdc \/ RefundUsdc
  <2>1. Head(queue).op # "UpdateStackNumTokens" /\ UNCHANGED <<rows, computed, stack, hold>>
    BY <1>9 DEF deduct_from_usdc, RefundUsdc, Event
  <2>2. \E l : Goto(h, l)
    BY <1>2, <1>9 DEF deduct_from_usdc, RefundUsdc, Answer
  <2>3. \A q \in Requests : reported[q] > 0 => pc'[q] = pc[q]
    BY <1>6, <1>7, <2>1, <2>2
  <2>4. QED
    BY <1>1, <1>4, <2>1, <2>3, UsageKept
<1>10. CASE DatabaseError
  <2>1. UNCHANGED <<rows, computed, stack, hold>>
    BY <1>10 DEF DatabaseError
  <2>2. \A q \in Requests : reported[q] > 0 => pc'[q] = pc[q]
    <3>1. CASE Head(queue).op = "UpdateStackNumTokens"
      BY <1>10, <3>1 DEF DatabaseError
    <3>2. CASE Head(queue).op # "UpdateStackNumTokens"
      <4>1. \E l : Goto(h, l)
        BY <1>2, <1>10, <3>2 DEF DatabaseError, Answer
      <4>2. QED
        BY <1>6, <1>7, <3>2, <4>1
    <3>3. QED
      BY <3>1, <3>2
  <2>3. QED
    BY <1>1, <1>4, <2>1, <2>2, UsageKept
<1>11. CASE NewStackAcquired
  <2>1. Head(queue).op = "NewStackAcquired" /\ UNCHANGED <<computed, stack>>
    BY <1>11 DEF NewStackAcquired, Event
  <2>2. pc[h] = "storing"
    BY <1>2, <2>1 DEF WaitsFor
  <2>3. stack[h] \in Stacks \ rows
    BY <2>2 DEF EventsAgree, HoldsAgree, TypeOK, Stacks
  <2>4. \A q \in Requests \ {h} : pc'[q] = pc[q]
    <3>1. \E l : Goto(h, l)
      BY <1>2, <1>11 DEF NewStackAcquired, Answer
    <3>2. QED
      BY <1>6, <3>1
  <2>5. CASE UNCHANGED <<rows, hold>>
    <3>1. \A q \in Requests : reported[q] > 0 =>
            pc'[q] = pc[q] /\ stack'[q] = stack[q] /\ hold'[q] = hold[q]
      BY <1>7, <2>1, <2>4, <2>5
    <3>2. QED
      BY <1>1, <1>4, <2>1, <2>5, <3>1, UsageKept
  <2>6. CASE rows' = rows \cup {stack[h]} /\ hold' = [hold EXCEPT ![h] = stack[h]]
    <3>1. \A q \in Requests \ {h} : hold'[q] = hold[q]
      BY <1>2, <2>6 DEF TypeOK
    <3>2. pc[h] # "ended"
      BY <2>2
    <3>3. QED
      BY <1>1, <1>2, <1>4, <2>1, <2>3, <2>4, <2>6, <3>1, <3>2, UsageOfNewRow
  <2>7. QED
    BY <1>2, <1>11, <2>5, <2>6 DEF NewStackAcquired
<1>12. CASE update_stack_num_tokens
  <2>1. Head(queue).op = "UpdateStackNumTokens" /\ UNCHANGED <<pc, stack, rows>>
    BY <1>12 DEF update_stack_num_tokens, Event
  <2>2. hold[h] = stack[h] /\ stack[h] \in rows /\ Head(queue).used = reported[h]
    BY <1>2, <1>5, <2>1
  <2>3. CASE UNCHANGED <<computed, hold>>
    BY <1>1, <1>4, <2>1, <2>3, UsageKept
  <2>4. CASE /\ computed' = [computed EXCEPT ![stack[h]] = @ + reported[h]]
             /\ hold' = [hold EXCEPT ![h] = NoStack]
    BY <1>1, <1>2, <1>4, <2>1, <2>2, <2>4, UsageCharged
  <2>5. QED
    BY <1>2, <1>12, <2>2, <2>3, <2>4 DEF update_stack_num_tokens
<1>13. QED
  BY <1>8, <1>9, <1>10, <1>11, <1>12 DEF StateManagerStep

(* So does every step. *)
LEMMA UsageStep ==
  ASSUME TypeOK, UnitsAgree, EventsAgree, UsageAgree, [Next]_vars
  PROVE  UsageAgree'
<1>1. ASSUME UNCHANGED <<pc, stack, hold, reported, rows, computed, queue>> PROVE UsageAgree'
  <2>1. SettlementsReport'
    BY <1>1 DEF UsageAgree, SettlementsReport
  <2>2. QED
    BY <1>1, <2>1, UsageKept
<1>2. ASSUME NEW s \in Stacks, CloseStack(s) PROVE UsageAgree'
  BY <1>1, <1>2 DEF CloseStack, request, outside
<1>3. CASE Crash
  <2>1. queue' = <<>> /\ UNCHANGED <<stack, hold, reported, rows, computed>>
    BY <1>3 DEF Crash, table
  <2>2. SettlementsReport'
    BY <2>1 DEF SettlementsReport
  <2>3. \A q \in Requests : reported[q] > 0 => pc'[q] = pc[q]
    BY <1>3 DEF Crash, UsageAgree, Reports
  <2>4. QED
    BY <2>1, <2>2, <2>3, UsageKept
<1>4. CASE UNCHANGED vars
  BY <1>1, <1>4 DEF vars, request, table, outside
<1>5. QED
  BY <1>2, <1>3, <1>4, RequestUsageStep, HandlerUsageStep, ManagerUsageStep DEF Next

-----------------------------------------------------------------------------
(* The theorems.                                                           *)

(* The invariant is inductive. *)
LEMMA InvInit == Init => Inv
<1> SUFFICES ASSUME Init PROVE Inv
  OBVIOUS
<1>1. queue \in Seq([op : Ops, r : Requests, used : Nat])
  BY DEF Init
<1>2. TypeOK
  BY <1>1 DEF Init, TypeOK, Labels, Stacks, NoStack
<1>3. OneBuyer
  BY DEF Init, OneBuyer, Buying, Paying
<1>4. UsdcAccounted
  BY DEF Init, UsdcAccounted, InFlight
<1>5. UnitsAgree
  BY DEF Init, UnitsAgree, UnitsSum, FreshStacks
<1>6. EventsAgree
  BY DEF Init, EventsAgree, QueueAgrees, OneEventEach, HoldsAgree
<1>7. UsageAgree
  BY DEF Init, UsageAgree, Reports, SettlementsReport, UsageSum
<1>8. QED
  BY <1>2, <1>3, <1>4, <1>5, <1>6, <1>7 DEF Inv

LEMMA InvStep == Inv /\ [Next]_vars => Inv'
<1> SUFFICES ASSUME Inv, [Next]_vars PROVE Inv'
  OBVIOUS
<1>1. TypeOK /\ OneBuyer /\ UsdcAccounted /\ UnitsAgree /\ EventsAgree /\ UsageAgree
  BY DEF Inv
<1>2. QED
  BY <1>1, TypeStep, BuyerStep, UnitsStep, EventsStep, UsageStep DEF Inv

LEMMA Invariance == Spec => []Inv
  BY InvInit, InvStep, PTL DEF Spec

(* The variables keep their types, and the USDC balance and the units used *)
(* are never negative.                                                     *)
THEOREM StackTypeCorrect == Spec => []TypeOK
<1>1. Inv => TypeOK
  BY DEF Inv
<1>2. QED
  BY <1>1, Invariance, PTL

(* The buy lock is exclusive and is held exactly while its owner pays,     *)
(* buys and stores, whatever fails.                                        *)
THEOREM StackOneBuyer == Spec => []OneBuyer
<1>1. Inv => OneBuyer
  BY DEF Inv
<1>2. QED
  BY <1>1, Invariance, PTL

(* deduct_usdc, the purchase and refund_usdc neither make nor lose USDC.   *)
THEOREM StackUsdcAccounted == Spec => []UsdcAccounted
<1>1. Inv => UsdcAccounted
  BY DEF Inv
<1>2. QED
  BY <1>1, Invariance, PTL

(* locked_compute_units is the sum of the estimates that are not settled.  *)
THEOREM StackUnitsMatch == Spec => []UnitsMatch
<1>1. Inv => UnitsMatch
  BY DEF Inv, UnitsAgree, UnitsSum, UnitsMatch, IsSum
<1>2. QED
  BY <1>1, Invariance, PTL

(* already_computed_units is what nodes reported for the requests that the *)
(* stack has settled: each is charged once, to the stack that gave it the  *)
(* units, and in the statement that releases its estimate.                 *)
THEOREM StackUsageMatches == Spec => []UsageMatches
<1>1. Inv => UsageMatches
  BY DEF Inv, UsageAgree, UsageSum, UsageMatches, IsSum
<1>2. QED
  BY <1>1, Invariance, PTL

(* Events in the channel, requests and the table of stacks agree. *)
THEOREM StackEventsAgree == Spec => []EventsAgree
<1>1. Inv => EventsAgree
  BY DEF Inv
<1>2. QED
  BY <1>1, Invariance, PTL
=============================================================================
