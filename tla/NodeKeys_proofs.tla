-------------------------- MODULE NodeKeys_proofs --------------------------
(***************************************************************************)
(* Theorems about NodeKeys, for any number of nodes, devices and keys and  *)
(* any number of events, errors and restarts: the keys that are given out  *)
(* are attested, and a replay changes nothing.                             *)
(***************************************************************************)
EXTENDS NodeKeys, SumTheorems, SequenceTheorems

-----------------------------------------------------------------------------
(* The invariant.                                                          *)

RotationEvents == [type : {"NewKeyRotation"}, epoch : Nat, counter : Nat]
CommitmentEvents ==
  [type : {"NodePublicKeyCommittment"}, owner : Owners, key : Keys, counter : Nat, nonce : Int,
   ppcie : BOOLEAN, flaw : Flaws \cup {"none"}]
Events == RotationEvents \cup CommitmentEvents

(* What the contract makes sure of for one event ... *)
EventOK(i) ==
  /\ IsRotation(i) => chain[i].epoch \in 1 .. i /\ chain[i].counter \in 1 .. i
  /\ ~IsRotation(i) =>
       /\ RotationsBefore(i) # {} /\ chain[i].counter = LastRotation(i).counter
       /\ chain[i].nonce \in {chain[i].counter, chain[i].counter - 1}
       /\ chain[i].flaw # "none" => chain[i].nonce = chain[i].counter
       /\ chain[i].flaw \in {"nvswitch", "topology"} => chain[i].ppcie

(* ... and for two: the counter grows, the epoch does not fall. *)
Grows(i, j) == chain[i].counter < chain[j].counter /\ chain[i].epoch <= chain[j].epoch

ChainOK ==
  /\ chain \in Seq(Events) /\ Len(chain) <= MaxEvents
  /\ \A i \in 1 .. Len(chain) : EventOK(i)
  /\ \A i, j \in 1 .. Len(chain) : i < j /\ IsRotation(i) /\ IsRotation(j) => Grows(i, j)

(* A row of key_rotations is a rotation of the chain, and without errors   *)
(* it is not older than any that was handled since the restart.            *)
RotationIs(e, i) == IsRotation(i) /\ chain[i].epoch = e /\ chain[i].counter = rotations[e]
RotationsOK ==
  /\ \A e \in Epochs : rotations[e] > 0 => \E i \in 1 .. Len(chain) : RotationIs(e, i)
  /\ errors = 0 =>
       \A j \in 1 .. next - 1 : IsRotation(j) => rotations[chain[j].epoch] >= chain[j].counter

(* The commitments that the row of an owner has to show once they were     *)
(* handled: those that count and that no rotation has made obsolete.       *)
Superseded(i) == \E j \in i + 1 .. Len(chain) : IsRotation(j)
Needed(j, o) == IsCommitment(j, o) /\ Counts(j) /\ ~Superseded(j)

(* The row of the owner o is the commitment i. *)
RowFrom(o, i) ==
  /\ IsCommitment(i, o)
  /\ counter[o] = chain[i].counter /\ key[o] = chain[i].key /\ evidence[o] = chain[i].nonce
  /\ crashes = 0 => /\ i < next
                    /\ valid[o] /\ evidence[o] # counter[o] => \A e \in Epochs : rotations[e] # counter[o]
  /\ errors = 0 => /\ Counts(i) /\ (valid[o] => Passes(i))
                   /\ Passes(i) => valid[o] \/ Superseded(i)
                   /\ \A j \in 1 .. next - 1 : Needed(j, o) => j <= i
NoRow(o) == counter[o] = 0 /\ ~valid[o] /\ (errors = 0 => \A j \in 1 .. next - 1 : ~Needed(j, o))
RowsOK == \A o \in Owners : NoRow(o) \/ \E i \in 1 .. Len(chain) : RowFrom(o, i)

KeysInv == TypeOK /\ ChainOK /\ RotationsOK /\ RowsOK

-----------------------------------------------------------------------------
(* Maxima.                                                                 *)

LEMMA MaxOfIs ==
  ASSUME NEW n \in Nat, NEW S, S \subseteq 1 .. n, S # {}
  PROVE  MaxOf(S) \in S /\ \A y \in S : y <= MaxOf(S)
<1>1. \E m \in S : \A y \in S : y <= m
  BY LargestExists
<1>2. QED
  BY <1>1 DEF MaxOf

LEMMA MaxOfEquals ==
  ASSUME NEW S, S \subseteq Int, NEW m \in S, \A y \in S : y <= m PROVE MaxOf(S) = m
<1>1. MaxOf(S) \in S /\ \A y \in S : y <= MaxOf(S)
  BY DEF MaxOf
<1>2. MaxOf(S) \in Int /\ m \in Int /\ m <= MaxOf(S) /\ MaxOf(S) <= m
  BY <1>1
<1>3. QED
  BY <1>2

-----------------------------------------------------------------------------
(* The chain.                                                              *)

LEMMA ChainTypes ==
  ASSUME ChainOK
  PROVE  /\ Len(chain) \in Nat
         /\ \A i \in 1 .. Len(chain) :
              /\ chain[i] \in Events /\ chain[i].counter \in Nat
              /\ IsRotation(i) => chain[i].epoch \in Nat
              /\ ~IsRotation(i) => /\ chain[i].type = "NodePublicKeyCommittment"
                                   /\ chain[i].owner \in Owners /\ chain[i].key \in Keys
                                   /\ chain[i].nonce \in Int /\ chain[i].ppcie \in BOOLEAN
                                   /\ chain[i].flaw \in Flaws \cup {"none"}
<1>1. chain \in Seq(Events) /\ Len(chain) \in Nat
  BY DEF ChainOK
<1>2. ASSUME NEW i \in 1 .. Len(chain)
      PROVE  /\ chain[i] \in Events /\ chain[i].counter \in Nat
             /\ IsRotation(i) => chain[i].epoch \in Nat
             /\ ~IsRotation(i) => /\ chain[i].type = "NodePublicKeyCommittment"
                                  /\ chain[i].owner \in Owners /\ chain[i].key \in Keys
                                  /\ chain[i].nonce \in Int /\ chain[i].ppcie \in BOOLEAN
                                  /\ chain[i].flaw \in Flaws \cup {"none"}
  <2>1. PICK e \in Events : e = chain[i]
    BY <1>1
  <2>2. CASE e \in RotationEvents
    BY <2>1, <2>2 DEF RotationEvents, IsRotation
  <2>3. CASE e \in CommitmentEvents
    BY <2>1, <2>3 DEF CommitmentEvents, IsRotation
  <2>4. QED
    BY <2>2, <2>3 DEF Events
<1>3. QED
  BY <1>1, <1>2

(* The last rotation before an event. *)
LEMMA LastRotationIs ==
  ASSUME ChainOK, NEW i \in 1 .. Len(chain) + 1, RotationsBefore(i) # {}
  PROVE  \E m \in 1 .. Len(chain) :
           /\ m < i /\ IsRotation(m) /\ LastRotation(i) = chain[m]
           /\ \A j \in 1 .. Len(chain) : j < i /\ IsRotation(j) => j <= m
<1>1. Len(chain) \in Nat /\ i \in Nat /\ i - 1 \in Nat
  BY ChainTypes
<1>2. PICK S : S = RotationsBefore(i)
  OBVIOUS
<1>3. S = {j \in 1 .. i - 1 : IsRotation(j)} /\ S # {}
  BY <1>2 DEF RotationsBefore
<1>4. PICK m : m = MaxOf(S)
  OBVIOUS
<1>5. m \in S /\ \A y \in S : y <= m
  BY <1>1, <1>3, <1>4, MaxOfIs
<1>6. m \in 1 .. Len(chain) /\ m < i /\ IsRotation(m)
  BY <1>1, <1>3, <1>5
<1>7. ASSUME NEW j \in 1 .. Len(chain), j < i, IsRotation(j) PROVE j <= m
  BY <1>1, <1>3, <1>5, <1>7
<1>8. LastRotation(i) = chain[m]
  BY <1>2, <1>4 DEF LastRotation
<1>9. QED
  BY <1>6, <1>7, <1>8

LEMMA NoLastRotation ==
  ASSUME NEW i, RotationsBefore(i) = {} PROVE LastRotation(i) = NoRotation
  BY DEF LastRotation

(* The chain grows at its end, or not at all. *)
Extends ==
  /\ Len(chain) \in Nat /\ Len(chain') \in Nat /\ Len(chain) <= Len(chain')
  /\ \A j \in 1 .. Len(chain) : chain'[j] = chain[j]

LEMMA PrefixStays ==
  ASSUME Extends, NEW i \in 1 .. Len(chain) + 1
  PROVE  RotationsBefore(i)' = RotationsBefore(i) /\ LastRotation(i)' = LastRotation(i)
<1>1. Len(chain) \in Nat /\ i \in Nat
  BY DEF Extends
<1>2. \A j \in 1 .. i - 1 : j \in 1 .. Len(chain)
  BY <1>1
<1>3. \A j \in 1 .. i - 1 : chain'[j] = chain[j]
  BY <1>2 DEF Extends
<1>4. RotationsBefore(i)' = RotationsBefore(i)
  BY <1>3 DEF RotationsBefore, IsRotation
<1>5. PICK S : S = RotationsBefore(i) /\ S = RotationsBefore(i)'
  BY <1>4
<1>6. CASE S = {}
  BY <1>5, <1>6, <1>4 DEF LastRotation, NoRotation, Rotation
<1>7. CASE S # {}
  <2>1. PICK m : m = MaxOf(S)
    OBVIOUS
  <2>2. S \subseteq 1 .. i - 1 /\ i - 1 \in Nat
    BY <1>1, <1>5 DEF RotationsBefore
  <2>3. m \in 1 .. i - 1
    BY <1>7, <2>1, <2>2, MaxOfIs
  <2>4. LastRotation(i) = chain[m]
    BY <1>5, <1>7, <2>1 DEF LastRotation
  <2>5. LastRotation(i)' = chain'[m]
    BY <1>5, <1>7, <2>1 DEF LastRotation
  <2>6. QED
    BY <1>3, <1>4, <2>3, <2>4, <2>5
<1>8. QED
  BY <1>6, <1>7

(* An event keeps its meaning. *)
LEMMA EventStays ==
  ASSUME Extends, NEW i \in 1 .. Len(chain)
  PROVE  /\ IsRotation(i)' <=> IsRotation(i)
         /\ Passes(i)' <=> Passes(i)
         /\ Counts(i)' <=> Counts(i)
         /\ \A o \in Owners : IsCommitment(i, o)' <=> IsCommitment(i, o)
         /\ EventOK(i)' <=> EventOK(i)
         /\ Superseded(i) => Superseded(i)'
<1>1. chain'[i] = chain[i] /\ i \in 1 .. Len(chain) + 1
  BY DEF Extends
<1>2. RotationsBefore(i)' = RotationsBefore(i) /\ LastRotation(i)' = LastRotation(i)
  BY <1>1, PrefixStays
<1>3. IsRotation(i)' <=> IsRotation(i)
  BY <1>1 DEF IsRotation
<1>4. Passes(i)' <=> Passes(i)
  BY <1>1, <1>2 DEF Passes
<1>5. Counts(i)' <=> Counts(i)
  BY <1>1, <1>4 DEF Counts
<1>6. \A o \in Owners : IsCommitment(i, o)' <=> IsCommitment(i, o)
  BY <1>1 DEF IsCommitment
<1>7. EventOK(i)' <=> EventOK(i)
  BY <1>1, <1>2, <1>3 DEF EventOK
<1>8. Superseded(i) => Superseded(i)'
  BY DEF Superseded, Extends, IsRotation
<1>9. QED
  BY <1>3, <1>4, <1>5, <1>6, <1>7, <1>8

(* A commitment is for the last rotation before it, and so older than all  *)
(* rotations after it.                                                     *)
LEMMA CommitmentIs ==
  ASSUME ChainOK, NEW i \in 1 .. Len(chain), ~IsRotation(i)
  PROVE  /\ \E m \in 1 .. Len(chain) :
              /\ m < i /\ IsRotation(m) /\ chain[m].counter = chain[i].counter
              /\ \A j \in 1 .. Len(chain) : j < i /\ IsRotation(j) => j <= m
         /\ LastRotation(i).counter = chain[i].counter /\ chain[i].counter \in 1 .. i
         /\ \A j \in 1 .. Len(chain) : j > i /\ IsRotation(j) => chain[j].counter > chain[i].counter
<1>1. /\ RotationsBefore(i) # {} /\ chain[i].counter = LastRotation(i).counter
      /\ Len(chain) \in Nat /\ i \in 1 .. Len(chain) + 1
  BY ChainTypes DEF ChainOK, EventOK
<1>2. PICK m \in 1 .. Len(chain) :
           /\ m < i /\ IsRotation(m) /\ LastRotation(i) = chain[m]
           /\ \A j \in 1 .. Len(chain) : j < i /\ IsRotation(j) => j <= m
  BY <1>1, LastRotationIs
<1>3. chain[m].counter \in 1 .. m /\ chain[m].counter = chain[i].counter
  BY <1>1, <1>2 DEF ChainOK, EventOK
<1>4. chain[i].counter \in 1 .. i
  BY <1>1, <1>2, <1>3
<1>5. ASSUME NEW j \in 1 .. Len(chain), j > i, IsRotation(j) PROVE chain[j].counter > chain[i].counter
  <2>1. m < j
    BY <1>1, <1>2, <1>5
  <2>2. chain[m].counter < chain[j].counter
    BY <1>2, <1>5, <2>1 DEF ChainOK, Grows
  <2>3. chain[j].counter \in Nat
    BY ChainTypes
  <2>4. QED
    BY <1>3, <2>2, <2>3
<1>6. QED
  BY <1>1, <1>2, <1>3, <1>4, <1>5

LEMMA EmitExtends ==
  ASSUME ChainOK, NEW e \in Events, chain' = Append(chain, e)
  PROVE  /\ Extends /\ chain' \in Seq(Events)
         /\ Len(chain') = Len(chain) + 1 /\ chain'[Len(chain) + 1] = e
  BY DEF ChainOK, Extends

LEMMA ChainStays == ASSUME ChainOK, UNCHANGED chain PROVE ChainOK' /\ Extends
<1>1. Extends
  BY ChainTypes DEF Extends
<1>2. \A i \in 1 .. Len(chain) : (EventOK(i)' <=> EventOK(i)) /\ (IsRotation(i)' <=> IsRotation(i))
  BY <1>1, EventStays
<1>3. QED
  BY <1>1, <1>2 DEF ChainOK, Grows

(* An event that agrees with the chain is added to it. *)
LEMMA ChainGrows ==
  ASSUME ChainOK, NEW e \in Events, Len(chain) < MaxEvents, chain' = Append(chain, e),
         NEW n \in Nat, n = Len(chain), EventOK(n + 1)',
         \A i \in 1 .. Len(chain) : IsRotation(i) /\ e.type = "NewKeyRotation" =>
           chain[i].counter < e.counter /\ chain[i].epoch <= e.epoch
  PROVE  ChainOK' /\ Extends
<1>1. /\ Extends /\ chain' \in Seq(Events)
      /\ Len(chain') = Len(chain) + 1 /\ chain'[Len(chain) + 1] = e
  BY EmitExtends
<1>2. n = Len(chain)
  OBVIOUS
<1>3. \A i \in 1 .. n + 1 : i \in 1 .. n \/ i = n + 1
  OBVIOUS
<1>4. ASSUME NEW i \in 1 .. n + 1 PROVE EventOK(i)'
  <2>1. CASE i \in 1 .. n
    BY <1>1, <1>2, <2>1, EventStays DEF ChainOK
  <2>2. CASE i = n + 1
    BY <2>2
  <2>3. QED
    BY <1>3, <2>1, <2>2
<1>5. ASSUME NEW i \in 1 .. n + 1, NEW j \in 1 .. n + 1, i < j, IsRotation(i)', IsRotation(j)'
      PROVE  Grows(i, j)'
  <2>1. i \in 1 .. n /\ chain'[i] = chain[i] /\ IsRotation(i)
    BY <1>1, <1>2, <1>5 DEF Extends, IsRotation
  <2>2. CASE j \in 1 .. n
    <3>1. chain'[j] = chain[j] /\ IsRotation(j)
      BY <1>1, <1>2, <1>5, <2>2 DEF Extends, IsRotation
    <3>2. QED
      BY <1>2, <1>5, <2>1, <2>2, <3>1 DEF ChainOK, Grows
  <2>3. CASE j = n + 1
    BY <1>1, <1>2, <1>5, <2>1, <2>3 DEF Grows, IsRotation
  <2>4. QED
    BY <1>3, <2>2, <2>3
<1>6. Len(chain') <= MaxEvents
  BY <1>1, <1>2, BoundsAssumption
<1>7. QED
  BY <1>1, <1>2, <1>4, <1>5, <1>6 DEF ChainOK

(* What the contract knows of the rotations so far. *)
LEMMA ChainRotationIs ==
  ASSUME ChainOK
  PROVE  /\ ChainRotation.counter \in 0 .. Len(chain) /\ ChainRotation.epoch \in 0 .. Len(chain)
         /\ ChainRotation # NoRotation => RotationsBefore(Len(chain) + 1) # {} /\ ChainRotation.counter > 0
         /\ \A i \in 1 .. Len(chain) : IsRotation(i) =>
              chain[i].counter <= ChainRotation.counter /\ chain[i].epoch <= ChainRotation.epoch
<1>1. PICK n \in Nat : n = Len(chain)
  BY ChainTypes
<1>2. CASE RotationsBefore(n + 1) = {}
  <2>1. ChainRotation = NoRotation
    BY <1>1, <1>2, NoLastRotation DEF ChainRotation
  <2>2. \A i \in 1 .. n : ~IsRotation(i)
    BY <1>2 DEF RotationsBefore
  <2>3. QED
    BY <1>1, <2>1, <2>2 DEF NoRotation, Rotation
<1>3. CASE RotationsBefore(n + 1) # {}
  <2>1. PICK m \in 1 .. n :
           /\ IsRotation(m) /\ ChainRotation = chain[m]
           /\ \A j \in 1 .. n : j < n + 1 /\ IsRotation(j) => j <= m
    BY <1>1, <1>3, LastRotationIs DEF ChainRotation
  <2>2. chain[m].counter \in 1 .. m /\ chain[m].epoch \in 1 .. m
    BY <1>1, <2>1 DEF ChainOK, EventOK
  <2>3. ASSUME NEW i \in 1 .. n, IsRotation(i)
        PROVE  chain[i].counter <= chain[m].counter /\ chain[i].epoch <= chain[m].epoch
    <3>1. chain[i].counter \in Nat /\ chain[i].epoch \in Nat
      BY <1>1, <2>3, ChainTypes
    <3>2. i < n + 1
      BY <1>1
    <3>3. i <= m
      BY <2>1, <2>3, <3>2
    <3>4. CASE i = m
      BY <2>2, <3>4
    <3>5. CASE i < m
      BY <1>1, <2>1, <2>2, <2>3, <3>1, <3>5 DEF ChainOK, Grows
    <3>6. QED
      BY <3>3, <3>4, <3>5
  <2>4. QED
    BY <1>1, <1>3, <2>1, <2>2, <2>3
<1>4. QED
  BY <1>2, <1>3

LEMMA Rotates == ASSUME ChainOK, ChainRotates PROVE ChainOK' /\ Extends
<1>1. PICK step \in {0, 1} : /\ ChainRotation.epoch + step > 0
                             /\ Emit(Rotation(ChainRotation.epoch + step, ChainRotation.counter + 1))
  BY DEF ChainRotates
<1>2. PICK n \in Nat : n = Len(chain)
  BY ChainTypes
<1>3. PICK p \in 1 .. n + 1, c \in 1 .. n + 1 :
        p = ChainRotation.epoch + step /\ c = ChainRotation.counter + 1
  BY <1>1, <1>2, ChainRotationIs
<1>4. PICK e \in Events : e = Rotation(p, c)
  <2>1. p \in Nat /\ c \in Nat
    BY <1>3
  <2>2. Rotation(p, c) \in Events
    BY <2>1 DEF Events, RotationEvents, Rotation
  <2>3. QED
    BY <2>2
<1>5. e.type = "NewKeyRotation" /\ e.epoch = p /\ e.counter = c
  BY <1>4 DEF Rotation
<1>6. n < MaxEvents /\ chain' = Append(chain, e)
  BY <1>1, <1>2, <1>3, <1>4 DEF Emit
<1>7. chain'[n + 1] = e
  BY <1>2, <1>6, EmitExtends
<1>8. EventOK(n + 1)'
  BY <1>5, <1>7 DEF EventOK, IsRotation
<1>9. ASSUME NEW i \in 1 .. n, IsRotation(i) PROVE chain[i].counter < c /\ chain[i].epoch <= p
  <2>1. /\ chain[i].counter \in Nat /\ chain[i].epoch \in Nat
        /\ ChainRotation.counter \in Nat /\ ChainRotation.epoch \in Nat
    BY <1>2, <1>9, ChainTypes, ChainRotationIs
  <2>2. chain[i].counter <= ChainRotation.counter /\ chain[i].epoch <= ChainRotation.epoch
    BY <1>2, <1>9, ChainRotationIs
  <2>3. QED
    BY <1>3, <2>1, <2>2
<1>10. QED
  BY <1>2, <1>5, <1>6, <1>8, <1>9, ChainGrows

LEMMA Commits ==
  ASSUME ChainOK, NEW o \in Owners, NodeCommits(o) PROVE ChainOK' /\ Extends
<1>1. PICK n \in Nat : n = Len(chain)
  BY ChainTypes
<1>2. PICK c \in Nat : c = ChainRotation.counter
  BY <1>1, ChainRotationIs
<1>3. PICK k \in Keys, ppcie \in BOOLEAN, nonce \in {c, c - 1}, flaw \in Flaws \cup {"none"} :
        /\ flaw \in FlawsOf(ppcie) \cup {"none"} /\ (flaw # "none" => nonce = c)
        /\ Emit(Commitment(o, k, c, nonce, ppcie, flaw))
  BY <1>2 DEF NodeCommits, FlawsOf
<1>4. nonce \in Int /\ flaw \in Flaws \cup {"none"} /\ (flaw \in {"nvswitch", "topology"} => ppcie)
  <2>1. nonce \in Int
    BY <1>2, <1>3
  <2>2. flaw \in Flaws \cup {"none"} /\ (flaw \in {"nvswitch", "topology"} => ppcie)
    BY <1>3 DEF FlawsOf
  <2>3. QED
    BY <2>1, <2>2
<1>5. PICK e \in Events : e = Commitment(o, k, c, nonce, ppcie, flaw)
  <2>1. Commitment(o, k, c, nonce, ppcie, flaw) \in Events
    BY <1>3, <1>4 DEF Events, CommitmentEvents, Commitment
  <2>2. QED
    BY <2>1
<1>6. /\ e.type = "NodePublicKeyCommittment" /\ e.counter = c /\ e.nonce = nonce
      /\ e.ppcie = ppcie /\ e.flaw = flaw
  BY <1>5 DEF Commitment
<1>7. n < MaxEvents /\ chain' = Append(chain, e)
  BY <1>1, <1>3, <1>5 DEF Emit
<1>8. Extends /\ chain'[n + 1] = e
  BY <1>1, <1>7, EmitExtends
<1>9. RotationsBefore(n + 1)' = RotationsBefore(n + 1) /\ LastRotation(n + 1)' = LastRotation(n + 1)
  BY <1>1, <1>8, PrefixStays
<1>10. RotationsBefore(n + 1) # {} /\ LastRotation(n + 1).counter = c
  BY <1>1, <1>2, ChainRotationIs DEF NodeCommits, ChainRotation
<1>11. EventOK(n + 1)'
  BY <1>3, <1>4, <1>6, <1>8, <1>9, <1>10 DEF EventOK, IsRotation
<1>12. QED
  BY <1>1, <1>6, <1>7, <1>11, ChainGrows

-----------------------------------------------------------------------------
(* What the tables know.                                                   *)

(* The nonce that evidence is checked against is the one of the latest     *)
(* rotation: the row of the highest epoch has the highest counter.         *)
LEMMA LatestIs ==
  ASSUME TypeOK, ChainOK, RotationsOK, Known # {}
  PROVE  /\ get_contract_key_rotation_nonce = latest_rotation /\ latest_rotation \in Nat
         /\ latest_rotation > 0
         /\ \A e \in Epochs : rotations[e] <= latest_rotation
         /\ \E p \in 1 .. Len(chain) : IsRotation(p) /\ chain[p].counter = latest_rotation
<1>1. PICK K : K = Known /\ K # {} /\ K \subseteq 1 .. MaxEvents /\ K = {e \in Epochs : rotations[e] > 0}
  BY DEF Known, Epochs
<1>2. PICK x : x = MaxOf(K)
  OBVIOUS
<1>3. x \in K /\ \A y \in K : y <= x
  BY <1>1, <1>2, MaxOfIs, BoundsAssumption
<1>4. \A e \in Epochs : rotations[e] \in Nat
  BY DEF TypeOK
<1>5. PICK p \in 1 .. Len(chain) : RotationIs(x, p)
  BY <1>1, <1>3 DEF RotationsOK
<1>6. ASSUME NEW y \in K PROVE rotations[y] <= rotations[x]
  <2>1. PICK q \in 1 .. Len(chain) : RotationIs(y, q)
    BY <1>1 DEF RotationsOK
  <2>2. Len(chain) \in Nat /\ x \in Nat /\ y \in Nat /\ y <= x /\ rotations[x] \in Nat /\ rotations[y] \in Nat
    BY <1>1, <1>3, <1>4, ChainTypes DEF Epochs
  <2>3. CASE p < q
    <3>1. chain[p].counter < chain[q].counter /\ chain[p].epoch <= chain[q].epoch
      BY <1>5, <2>1, <2>3 DEF ChainOK, Grows, RotationIs
    <3>2. x <= y
      BY <1>5, <2>1, <3>1 DEF RotationIs
    <3>3. x = y
      BY <2>2, <3>2
    <3>4. QED
      BY <2>2, <3>3
  <2>4. CASE q < p
    <3>1. chain[q].counter < chain[p].counter
      BY <1>5, <2>1, <2>4 DEF ChainOK, Grows, RotationIs
    <3>2. QED
      BY <1>5, <2>1, <2>2, <3>1 DEF RotationIs
  <2>5. CASE p = q
    BY <1>5, <2>1, <2>2, <2>5 DEF RotationIs
  <2>6. QED
    BY <2>2, <2>3, <2>4, <2>5
<1>7. PICK S : S = {rotations[e] : e \in K}
  OBVIOUS
<1>8. S \subseteq Int /\ rotations[x] \in S /\ \A y \in S : y <= rotations[x]
  BY <1>1, <1>3, <1>4, <1>6, <1>7
<1>9. MaxOf(S) = rotations[x]
  BY <1>8, MaxOfEquals
<1>10. latest_rotation = rotations[x]
  BY <1>1, <1>7, <1>9 DEF latest_rotation
<1>11. get_contract_key_rotation_nonce = rotations[x]
  BY <1>1, <1>2 DEF get_contract_key_rotation_nonce
<1>12. rotations[x] \in Nat /\ rotations[x] > 0
  BY <1>1, <1>3, <1>4
<1>13. ASSUME NEW e \in Epochs PROVE rotations[e] <= rotations[x]
  <2>1. CASE e \in K
    BY <1>6, <2>1
  <2>2. CASE e \notin K
    BY <1>1, <1>4, <1>12, <2>2
  <2>3. QED
    BY <2>1, <2>2
<1>14. QED
  BY <1>5, <1>10, <1>11, <1>12, <1>13 DEF RotationIs

(* Without errors the proxy knows every rotation before the event that it  *)
(* handles: evidence that it accepts is what the chain accepts, and it     *)
(* refuses good evidence only when it already knows a later rotation.      *)
LEMMA AttestedPasses ==
  ASSUME TypeOK, ChainOK, RotationsOK, errors = 0, next <= Len(chain), ~IsRotation(next), Readable(chain[next])
  PROVE  /\ Attested(chain[next]) => Passes(next)
         /\ Passes(next) => Attested(chain[next]) \/ Superseded(next)
<1>1. PICK i \in 1 .. Len(chain) : i = next
  BY ChainTypes DEF TypeOK
<1>2. PICK m \in 1 .. Len(chain) :
              /\ m < i /\ IsRotation(m) /\ chain[m].counter = chain[i].counter
              /\ \A j \in 1 .. Len(chain) : j < i /\ IsRotation(j) => j <= m
  BY <1>1, CommitmentIs
<1>3. PICK c \in Nat : c = chain[i].counter /\ c > 0 /\ LastRotation(i).counter = c
  BY <1>1, CommitmentIs
<1>4. chain[m].epoch \in Epochs /\ Len(chain) \in Nat
  BY <1>2, ChainTypes, BoundsAssumption DEF ChainOK, EventOK, Epochs
<1>5. m \in 1 .. next - 1
  BY <1>1, <1>2, <1>4
<1>6. rotations[chain[m].epoch] >= c /\ rotations[chain[m].epoch] \in Nat
  BY <1>2, <1>3, <1>4, <1>5 DEF RotationsOK, TypeOK
<1>7. Known # {}
  BY <1>3, <1>4, <1>6 DEF Known
<1>8. PICK r \in Nat : r = latest_rotation /\ r = get_contract_key_rotation_nonce
  BY <1>7, LatestIs
<1>9. r >= c
  BY <1>3, <1>4, <1>6, <1>7, <1>8, LatestIs
<1>10. PICK p \in 1 .. Len(chain) : IsRotation(p) /\ chain[p].counter = r
  BY <1>7, <1>8, LatestIs
<1>11. /\ chain[i].nonce \in {c, c - 1} /\ (chain[i].flaw \in {"nvswitch", "topology"} => chain[i].ppcie)
       /\ chain[i].flaw \in Flaws \cup {"none"} /\ chain[i].flaw # "encoding"
  BY <1>1, <1>3, ChainTypes DEF ChainOK, EventOK, Readable
<1>12. Passes(i) <=> chain[i].nonce = c /\ chain[i].flaw = "none"
  BY <1>3 DEF Passes
<1>13. Attested(chain[i]) <=> chain[i].nonce = r /\ chain[i].flaw = "none"
  BY <1>7, <1>8, <1>11, FlawsAssumption DEF Attested, attest_nvidia_gpu_evidence_list,
       attest_nvidia_nvswitch_evidence_list, verify_topology, NonceAgrees
<1>14. chain[i].nonce = r => r = c
  BY <1>3, <1>9, <1>11
<1>15. r # c => Superseded(i)
  <2>1. SUFFICES ASSUME r # c PROVE Superseded(i)
    OBVIOUS
  <2>2. r > c
    BY <1>9, <2>1
  <2>3. ~(p < i)
    <3>1. SUFFICES ASSUME p < i PROVE FALSE
      OBVIOUS
    <3>2. p <= m
      BY <1>2, <1>10, <3>1
    <3>3. CASE p = m
      BY <1>2, <1>3, <1>10, <2>1, <3>3
    <3>4. CASE p < m
      BY <1>2, <1>3, <1>10, <2>2, <3>4 DEF ChainOK, Grows
    <3>5. QED
      BY <3>2, <3>3, <3>4
  <2>4. p # i
    BY <1>1, <1>10
  <2>5. p \in i + 1 .. Len(chain)
    BY <1>4, <2>3, <2>4
  <2>6. QED
    BY <1>10, <2>5 DEF Superseded
<1>16. QED
  BY <1>1, <1>12, <1>13, <1>14, <1>15

-----------------------------------------------------------------------------
(* Rows.                                                                   *)

(* The row of o stays, and stays up to date. *)
LEMMA RowStays ==
  ASSUME Extends, NEW o \in Owners, NEW i \in 1 .. Len(chain), RowFrom(o, i),
         counter'[o] = counter[o], key'[o] = key[o], valid'[o] = valid[o], evidence'[o] = evidence[o],
         crashes' = 0 => /\ crashes = 0 /\ (i < next => i < next')
                         /\ \A e \in Epochs : rotations'[e] = rotations[e] \/ rotations'[e] # counter[o],
         errors' = 0 => errors = 0,
         errors' = 0 => \A j \in 1 .. next' - 1 : Needed(j, o)' => j \in 1 .. next - 1 /\ Needed(j, o)
  PROVE  RowFrom(o, i)'
<1>1. /\ Passes(i)' <=> Passes(i)
      /\ Counts(i)' <=> Counts(i)
      /\ IsCommitment(i, o)' <=> IsCommitment(i, o)
      /\ Superseded(i) => Superseded(i)'
      /\ chain'[i] = chain[i]
  BY EventStays DEF Extends
<1>2. IsCommitment(i, o)' /\ counter'[o] = chain'[i].counter /\ key'[o] = chain'[i].key /\ evidence'[o] = chain'[i].nonce
  BY <1>1 DEF RowFrom
<1>3. crashes' = 0 =>
        /\ i < next'
        /\ valid'[o] /\ evidence'[o] # counter'[o] => \A e \in Epochs : rotations'[e] # counter'[o]
  BY DEF RowFrom
<1>4. errors' = 0 => /\ Counts(i)' /\ (valid'[o] => Passes(i)')
                     /\ Passes(i)' => valid'[o] \/ Superseded(i)'
  BY <1>1 DEF RowFrom
<1>5. errors' = 0 => \A j \in 1 .. next' - 1 : Needed(j, o)' => j <= i
  BY DEF RowFrom
<1>6. QED
  BY <1>2, <1>3, <1>4, <1>5 DEF RowFrom

LEMMA NoRowStays ==
  ASSUME NEW o \in Owners, NoRow(o), counter'[o] = counter[o], valid'[o] = valid[o],
         errors' = 0 => errors = 0,
         errors' = 0 => \A j \in 1 .. next' - 1 : Needed(j, o)' => j \in 1 .. next - 1 /\ Needed(j, o)
  PROVE  NoRow(o)'
<1>1. counter'[o] = 0 /\ ~valid'[o]
  BY DEF NoRow
<1>2. errors' = 0 => \A j \in 1 .. next' - 1 : ~Needed(j, o)'
  BY DEF NoRow
<1>3. QED
  BY <1>1, <1>2 DEF NoRow

(* What has to be shown does not grow with the chain. *)
LEMMA NeededStays ==
  ASSUME Extends, NEW o \in Owners, NEW j \in 1 .. Len(chain), Needed(j, o)' PROVE Needed(j, o)
<1>1. Counts(j) /\ IsCommitment(j, o) /\ ~Superseded(j)
  BY EventStays DEF Needed
<1>2. QED
  BY <1>1 DEF Needed

LEMMA Within ==
  ASSUME NEW a \in Nat, NEW b \in Nat, NEW n \in Nat, b <= a, a <= n + 1
  PROVE  \A j \in 1 .. b - 1 : j \in 1 .. a - 1 /\ j \in 1 .. n
  OBVIOUS

(* The chain grows, and the tables do not change: nothing was handled, or  *)
(* the proxy goes back to the cursor.                                      *)
LEMMA TablesStay ==
  ASSUME KeysInv, ChainOK', Extends, UNCHANGED tables,
         next' \in 1 .. next, crashes' = 0 => crashes = 0 /\ next' = next,
         errors' = 0 => errors = 0
  PROVE  RotationsOK' /\ RowsOK'
<1>1. TypeOK /\ ChainOK /\ RotationsOK /\ RowsOK /\ UNCHANGED <<rotations, counter, key, valid, evidence>>
  BY DEF KeysInv, tables
<1>2. PICK n \in Nat : n = Len(chain) /\ next \in 1 .. n + 1
  BY <1>1, ChainTypes DEF TypeOK
<1>3. \A j \in 1 .. next' - 1 : j \in 1 .. next - 1 /\ j \in 1 .. n
  <2>1. PICK a \in Nat, b \in Nat : a = next /\ b = next' /\ a <= n + 1 /\ b <= a
    BY <1>2
  <2>2. \A j \in 1 .. b - 1 : j \in 1 .. a - 1 /\ j \in 1 .. n
    BY <2>1, Within
  <2>3. QED
    BY <2>1, <2>2
<1>4. \A i \in 1 .. n : i \in 1 .. Len(chain') /\ chain'[i] = chain[i] /\ (IsRotation(i)' <=> IsRotation(i))
  BY <1>2, EventStays DEF Extends
<1>5. RotationsOK'
  <2>1. ASSUME NEW e \in Epochs, rotations'[e] > 0 PROVE \E i \in 1 .. Len(chain') : RotationIs(e, i)'
    <3>1. PICK i \in 1 .. n : RotationIs(e, i)
      BY <1>1, <1>2, <2>1 DEF RotationsOK
    <3>2. RotationIs(e, i)' /\ i \in 1 .. Len(chain')
      BY <1>1, <1>4, <3>1 DEF RotationIs
    <3>3. QED
      BY <3>2
  <2>2. ASSUME errors' = 0, NEW j \in 1 .. next' - 1, IsRotation(j)'
        PROVE  rotations'[chain'[j].epoch] >= chain'[j].counter
    BY <1>1, <1>3, <1>4, <2>2 DEF RotationsOK
  <2>3. QED
    BY <2>1, <2>2 DEF RotationsOK
<1>6. ASSUME NEW o \in Owners PROVE NoRow(o)' \/ \E i \in 1 .. Len(chain') : RowFrom(o, i)'
  <2>1. \A j \in 1 .. next' - 1 : Needed(j, o)' => j \in 1 .. next - 1 /\ Needed(j, o)
    BY <1>2, <1>3, NeededStays
  <2>2. CASE NoRow(o)
    BY <1>1, <2>1, <2>2, NoRowStays
  <2>3. CASE \E i \in 1 .. Len(chain) : RowFrom(o, i)
    <3>1. PICK i \in 1 .. Len(chain) : RowFrom(o, i)
      BY <2>3
    <3>2. RowFrom(o, i)'
      BY <1>1, <2>1, <3>1, RowStays
    <3>3. QED
      BY <1>2, <1>4, <3>2
  <2>4. QED
    BY <1>1, <2>2, <2>3 DEF RowsOK
<1>7. QED
  BY <1>5, <1>6 DEF RowsOK

LEMMA ChainStep ==
  ASSUME KeysInv, ChainRotates \/ \E o \in Owners : NodeCommits(o) PROVE KeysInv'
<1>1. TypeOK /\ ChainOK
  BY DEF KeysInv
<1>2. ChainOK' /\ Extends
  BY <1>1, Rotates, Commits
<1>3. UNCHANGED <<next, cursor, tables, faults>>
  BY DEF ChainRotates, NodeCommits, Emit
<1>4. UNCHANGED <<rotations, counter, key, valid, evidence, errors, crashes>>
  BY <1>3 DEF tables, faults
<1>5. next' \in 1 .. Len(chain') + 1
  BY <1>1, <1>2, <1>3 DEF TypeOK, Extends
<1>6. TypeOK'
  BY <1>1, <1>3, <1>4, <1>5 DEF TypeOK
<1>7. next' \in 1 .. next
  BY <1>1, <1>3, ChainTypes DEF TypeOK
<1>8. RotationsOK' /\ RowsOK'
  BY <1>2, <1>3, <1>4, <1>7, TablesStay
<1>9. QED
  BY <1>2, <1>6, <1>8 DEF KeysInv

LEMMA Subscriber == ASSUME KeysInv, SaveCursor \/ Crash \/ UNCHANGED vars PROVE KeysInv'
<1>1. TypeOK /\ ChainOK /\ Len(chain) \in Nat
  BY ChainTypes DEF KeysInv
<1>2. UNCHANGED <<chain, tables, errors>>
  BY DEF SaveCursor, Crash, vars, faults
<1>3. ChainOK' /\ Extends
  BY <1>1, <1>2, ChainStays
<1>4. UNCHANGED <<rotations, counter, key, valid, evidence>>
  BY <1>2 DEF tables
<1>5. /\ next' \in 1 .. next /\ cursor' \in 1 .. next' /\ crashes' \in 0 .. MaxCrashes
      /\ crashes' = 0 => crashes = 0 /\ next' = next
  <2>1. CASE SaveCursor \/ UNCHANGED vars
    <3>1. UNCHANGED <<next, crashes>> /\ cursor' \in {cursor, next}
      BY <2>1 DEF SaveCursor, vars, faults
    <3>2. QED
      BY <1>1, <3>1 DEF TypeOK
  <2>2. CASE Crash
    <3>1. next' = cursor /\ cursor' = cursor /\ crashes' = crashes + 1 /\ crashes < MaxCrashes
      BY <2>2 DEF Crash
    <3>2. QED
      BY <1>1, <3>1, BoundsAssumption DEF TypeOK
  <2>3. QED
    BY <2>1, <2>2
<1>6. next' \in 1 .. Len(chain') + 1
  BY <1>1, <1>2, <1>5 DEF TypeOK
<1>7. TypeOK'
  BY <1>1, <1>2, <1>4, <1>5, <1>6 DEF TypeOK
<1>8. RotationsOK' /\ RowsOK'
  BY <1>2, <1>3, <1>5, TablesStay
<1>9. QED
  BY <1>3, <1>7, <1>8 DEF KeysInv

-----------------------------------------------------------------------------
(* The state manager.                                                      *)

(* An event is handled: what changes in the tables is left to show. *)
LEMMA Handling ==
  ASSUME KeysInv, next <= Len(chain), UNCHANGED <<chain, cursor, crashes>>, next' = next + 1
  PROVE  /\ TypeOK /\ ChainOK /\ RotationsOK /\ RowsOK /\ ChainOK' /\ Extends
         /\ next \in Nat /\ next \in 1 .. Len(chain) /\ Len(chain) \in Nat
         /\ next' \in 1 .. Len(chain') + 1 /\ cursor' \in 1 .. next' /\ crashes' \in 0 .. MaxCrashes
         /\ \A j \in 1 .. next' - 1 : j \in 1 .. Len(chain) /\ (j \in 1 .. next - 1 \/ j = next)
<1>1. TypeOK /\ ChainOK /\ RotationsOK /\ RowsOK /\ Len(chain) \in Nat
  BY ChainTypes DEF KeysInv
<1>2. ChainOK' /\ Extends
  BY <1>1, ChainStays
<1>3. next \in Nat /\ next \in 1 .. Len(chain) /\ cursor \in 1 .. next /\ crashes \in 0 .. MaxCrashes
  BY <1>1 DEF TypeOK
<1>4. /\ next' \in 1 .. Len(chain') + 1 /\ cursor' \in 1 .. next' /\ crashes' \in 0 .. MaxCrashes
      /\ \A j \in 1 .. next' - 1 : j \in 1 .. Len(chain) /\ (j \in 1 .. next - 1 \/ j = next)
  BY <1>1, <1>3
<1>5. QED
  BY <1>1, <1>2, <1>3, <1>4

LEMMA HandlesRotation == ASSUME KeysInv, handle_new_key_rotation_event PROVE KeysInv'
<1>1. /\ next <= Len(chain) /\ IsRotation(next) /\ next' = next + 1
      /\ rotations' = [rotations EXCEPT ![chain[next].epoch] = chain[next].counter]
      /\ UNCHANGED <<chain, cursor, counter, key, valid, evidence, errors, crashes>>
  BY DEF handle_new_key_rotation_event, Pending, insert_new_key_rotation, IsRotation, faults
<1>2. /\ TypeOK /\ ChainOK /\ RotationsOK /\ RowsOK /\ ChainOK' /\ Extends
      /\ next \in Nat /\ next \in 1 .. Len(chain) /\ Len(chain) \in Nat
      /\ next' \in 1 .. Len(chain') + 1 /\ cursor' \in 1 .. next' /\ crashes' \in 0 .. MaxCrashes
      /\ \A j \in 1 .. next' - 1 : j \in 1 .. Len(chain) /\ (j \in 1 .. next - 1 \/ j = next)
  BY <1>1, Handling
<1>3. PICK x \in Epochs, c \in 1 .. MaxEvents : x = chain[next].epoch /\ c = chain[next].counter
  <2>1. chain[next].epoch \in 1 .. next /\ chain[next].counter \in 1 .. next /\ Len(chain) <= MaxEvents
    BY <1>1, <1>2 DEF ChainOK, EventOK
  <2>2. chain[next].epoch \in 1 .. MaxEvents /\ chain[next].counter \in 1 .. MaxEvents
    BY <1>2, <2>1, BoundsAssumption
  <2>3. QED
    BY <2>2 DEF Epochs
<1>4. /\ rotations'[x] = c /\ rotations' \in [Epochs -> 0 .. MaxEvents]
      /\ \A e \in Epochs \ {x} : rotations'[e] = rotations[e]
  BY <1>1, <1>2, <1>3, BoundsAssumption DEF TypeOK
<1>5. TypeOK'
  BY <1>1, <1>2, <1>4 DEF TypeOK
<1>6. RotationsOK'
  <2>1. ASSUME NEW e \in Epochs, rotations'[e] > 0 PROVE \E i \in 1 .. Len(chain') : RotationIs(e, i)'
    <3>1. CASE e = x
      BY <1>1, <1>2, <1>3, <1>4, <3>1 DEF RotationIs, IsRotation
    <3>2. CASE e # x
      <4>1. PICK i \in 1 .. Len(chain) : RotationIs(e, i)
        BY <1>2, <1>4, <2>1, <3>2 DEF RotationsOK
      <4>2. QED
        BY <1>1, <1>4, <3>2, <4>1 DEF RotationIs, IsRotation
    <3>3. QED
      BY <3>1, <3>2
  <2>2. ASSUME errors' = 0, NEW j \in 1 .. next' - 1, IsRotation(j)'
        PROVE  rotations'[chain'[j].epoch] >= chain'[j].counter
    <3>1. j \in 1 .. Len(chain) /\ IsRotation(j) /\ chain'[j] = chain[j]
      BY <1>1, <1>2, <2>2 DEF IsRotation
    <3>2. CASE j = next
      BY <1>3, <1>4, <3>1, <3>2
    <3>3. CASE j \in 1 .. next - 1
      <4>1. PICK y \in Nat, d \in Nat : y = chain[j].epoch /\ d = chain[j].counter
        BY <1>2, <3>1, ChainTypes
      <4>2. j < next
        BY <1>2, <3>3
      <4>3. d < c
        BY <1>1, <1>2, <1>3, <3>1, <4>1, <4>2 DEF ChainOK, Grows
      <4>4. y \in 1 .. j /\ j <= MaxEvents
        BY <1>2, <3>1, <4>1, BoundsAssumption DEF ChainOK, EventOK
      <4>5. y \in Epochs
        BY <3>1, <4>4, BoundsAssumption DEF Epochs
      <4>6. rotations[y] >= d
        BY <1>1, <1>2, <2>2, <3>1, <3>3, <4>1 DEF RotationsOK
      <4>7. rotations'[y] >= d
        BY <1>4, <4>3, <4>5, <4>6
      <4>8. QED
        BY <3>1, <4>1, <4>7
    <3>4. QED
      BY <1>2, <3>2, <3>3
  <2>3. QED
    BY <2>1, <2>2 DEF RotationsOK
<1>7. ASSUME NEW o \in Owners PROVE NoRow(o)' \/ \E i \in 1 .. Len(chain') : RowFrom(o, i)'
  <2>1. ASSUME NEW j \in 1 .. next' - 1, Needed(j, o)' PROVE j \in 1 .. next - 1 /\ Needed(j, o)
    <3>1. j \in 1 .. Len(chain) /\ Needed(j, o)
      BY <1>2, <2>1, NeededStays
    <3>2. j # next
      BY <1>1, <3>1 DEF Needed, IsCommitment, IsRotation
    <3>3. QED
      BY <1>2, <3>1, <3>2
  <2>2. CASE NoRow(o)
    BY <1>1, <2>1, <2>2, NoRowStays
  <2>3. CASE \E i \in 1 .. Len(chain) : RowFrom(o, i)
    <3>1. PICK i \in 1 .. Len(chain) : RowFrom(o, i)
      BY <2>3
    <3>2. ASSUME crashes = 0
          PROVE  i < next' /\ \A e \in Epochs : rotations'[e] = rotations[e] \/ rotations'[e] # counter[o]
      <4>1. i < next /\ counter[o] = chain[i].counter /\ ~IsRotation(i)
        BY <3>1, <3>2 DEF RowFrom, IsCommitment, IsRotation
      <4>2. chain[i].counter \in 1 .. i /\ c > chain[i].counter
        BY <1>1, <1>2, <1>3, <4>1, CommitmentIs
      <4>3. c # counter[o]
        BY <4>1, <4>2
      <4>4. i < next'
        BY <1>1, <1>2, <4>1
      <4>5. QED
        BY <1>4, <4>3, <4>4
    <3>3. RowFrom(o, i)'
      BY <1>1, <1>2, <2>1, <3>1, <3>2, RowStays
    <3>4. QED
      BY <1>1, <3>3
  <2>4. QED
    BY <1>2, <2>2, <2>3 DEF RowsOK
<1>8. QED
  BY <1>2, <1>5, <1>6, <1>7 DEF KeysInv, RowsOK

(* A commitment is not a rotation: key_rotations stays as it is. *)
LEMMA RotationsStay ==
  ASSUME KeysInv, next <= Len(chain), UNCHANGED <<chain, cursor, crashes, rotations>>, next' = next + 1,
         errors' = 0 => errors = 0 /\ ~IsRotation(next)
  PROVE  RotationsOK'
<1>1. /\ RotationsOK
      /\ \A j \in 1 .. next' - 1 : j \in 1 .. Len(chain) /\ (j \in 1 .. next - 1 \/ j = next)
  BY Handling
<1>2. ASSUME NEW e \in Epochs, rotations'[e] > 0 PROVE \E i \in 1 .. Len(chain') : RotationIs(e, i)'
  <2>1. PICK i \in 1 .. Len(chain) : RotationIs(e, i)
    BY <1>1, <1>2 DEF RotationsOK
  <2>2. QED
    BY <2>1 DEF RotationIs, IsRotation
<1>3. ASSUME errors' = 0, NEW j \in 1 .. next' - 1, IsRotation(j)'
      PROVE  rotations'[chain'[j].epoch] >= chain'[j].counter
  <2>1. IsRotation(j) /\ j # next
    BY <1>3 DEF IsRotation
  <2>2. QED
    BY <1>1, <1>3, <2>1 DEF RotationsOK
<1>4. QED
  BY <1>2, <1>3 DEF RotationsOK

(* The row of another owner, or one that the event does not change. *)
LEMMA OtherRow ==
  ASSUME KeysInv, next <= Len(chain), UNCHANGED <<chain, cursor, crashes, rotations>>, next' = next + 1,
         NEW o \in Owners,
         counter'[o] = counter[o], key'[o] = key[o], valid'[o] = valid[o], evidence'[o] = evidence[o],
         errors' = 0 => errors = 0 /\ ~Needed(next, o)
  PROVE  NoRow(o)' \/ \E i \in 1 .. Len(chain') : RowFrom(o, i)'
<1>1. /\ RowsOK /\ Extends /\ next \in Nat /\ Len(chain) \in Nat
      /\ \A j \in 1 .. next' - 1 : j \in 1 .. Len(chain) /\ (j \in 1 .. next - 1 \/ j = next)
  BY Handling
<1>2. ASSUME errors' = 0, NEW j \in 1 .. next' - 1, Needed(j, o)' PROVE j \in 1 .. next - 1 /\ Needed(j, o)
  <2>1. Needed(j, o) /\ j # next
    BY <1>1, <1>2, NeededStays
  <2>2. QED
    BY <1>1, <2>1
<1>3. CASE NoRow(o)
  BY <1>2, <1>3, NoRowStays
<1>4. CASE \E i \in 1 .. Len(chain) : RowFrom(o, i)
  <2>1. PICK i \in 1 .. Len(chain) : RowFrom(o, i)
    BY <1>4
  <2>2. i < next => i < next'
    BY <1>1
  <2>3. RowFrom(o, i)'
    BY <1>1, <1>2, <2>1, <2>2, RowStays
  <2>4. QED
    BY <2>3
<1>5. QED
  BY <1>1, <1>3, <1>4 DEF RowsOK

(* The row of the owner becomes the commitment that is handled. *)
LEMMA NewRow ==
  ASSUME KeysInv, next <= Len(chain), UNCHANGED <<chain, cursor, crashes, rotations>>, next' = next + 1,
         ~IsRotation(next), Readable(chain[next]), NEW ok \in BOOLEAN,
         update_node_public_key(chain[next], ok), ok => Attested(chain[next]),
         errors' = 0 => /\ errors = 0 /\ (ok <=> Attested(chain[next]))
                        /\ chain[next].ppcie => Attested(chain[next])
  PROVE  /\ counter' \in [Owners -> 0 .. MaxEvents] /\ key' \in [Owners -> Keys \cup {NoKey}]
         /\ valid' \in [Owners -> BOOLEAN] /\ evidence' \in [Owners -> 0 .. MaxEvents]
         /\ RowsOK'
<1>1. /\ TypeOK /\ ChainOK /\ RotationsOK /\ RowsOK /\ ChainOK' /\ Extends
      /\ next \in Nat /\ next \in 1 .. Len(chain) /\ Len(chain) \in Nat
      /\ \A j \in 1 .. next' - 1 : j \in 1 .. Len(chain) /\ (j \in 1 .. next - 1 \/ j = next)
  BY Handling
<1>2. PICK i \in 1 .. Len(chain) : i = next
  BY <1>1
<1>3. /\ chain[i].owner \in Owners /\ chain[i].key \in Keys /\ chain[i].nonce \in Int
      /\ chain[i].type = "NodePublicKeyCommittment" /\ chain[i].ppcie \in BOOLEAN
  BY <1>1, <1>2, ChainTypes
<1>4. chain[i].counter \in 1 .. i /\ chain[i].nonce \in {chain[i].counter, chain[i].counter - 1}
  BY <1>1, <1>2, CommitmentIs DEF ChainOK, EventOK
<1>5. PICK c \in 1 .. MaxEvents, v \in 0 .. MaxEvents, p \in Owners, k \in Keys :
        c = chain[i].counter /\ v = chain[i].nonce /\ p = chain[i].owner /\ k = chain[i].key /\ v <= c
  <2>1. i <= MaxEvents
    BY <1>1, BoundsAssumption DEF ChainOK
  <2>2. /\ chain[i].counter \in 1 .. MaxEvents /\ chain[i].nonce \in 0 .. MaxEvents
        /\ chain[i].nonce <= chain[i].counter
    BY <1>4, <2>1, BoundsAssumption
  <2>3. QED
    BY <1>3, <2>2
<1>6. /\ counter' = [counter EXCEPT ![p] = c] /\ key' = [key EXCEPT ![p] = k]
      /\ valid' = [valid EXCEPT ![p] = ok] /\ evidence' = [evidence EXCEPT ![p] = v]
  BY <1>2, <1>5 DEF update_node_public_key
<1>7. c \in 0 .. MaxEvents
  BY <1>5, BoundsAssumption
<1>8. /\ counter' \in [Owners -> 0 .. MaxEvents] /\ key' \in [Owners -> Keys \cup {NoKey}]
      /\ valid' \in [Owners -> BOOLEAN] /\ evidence' \in [Owners -> 0 .. MaxEvents]
      /\ counter'[p] = c /\ key'[p] = k /\ (valid'[p] <=> ok) /\ evidence'[p] = v
      /\ \A o \in Owners \ {p} : /\ counter'[o] = counter[o] /\ key'[o] = key[o]
                                 /\ valid'[o] = valid[o] /\ evidence'[o] = evidence[o]
  <2>1. counter' \in [Owners -> 0 .. MaxEvents] /\ counter'[p] = c /\ \A o \in Owners \ {p} : counter'[o] = counter[o]
    BY <1>1, <1>6, <1>7 DEF TypeOK
  <2>2. key' \in [Owners -> Keys \cup {NoKey}] /\ key'[p] = k /\ \A o \in Owners \ {p} : key'[o] = key[o]
    BY <1>1, <1>6 DEF TypeOK
  <2>3. valid' \in [Owners -> BOOLEAN] /\ valid'[p] = ok /\ \A o \in Owners \ {p} : valid'[o] = valid[o]
    BY <1>1, <1>6 DEF TypeOK
  <2>4. evidence' \in [Owners -> 0 .. MaxEvents] /\ evidence'[p] = v /\ \A o \in Owners \ {p} : evidence'[o] = evidence[o]
    BY <1>1, <1>6 DEF TypeOK
  <2>5. QED
    BY <2>1, <2>2, <2>3, <2>4
<1>9. /\ Passes(i)' <=> Passes(i)
      /\ Counts(i)' <=> Counts(i)
      /\ IsCommitment(i, p)' <=> IsCommitment(i, p)
      /\ Superseded(i) => Superseded(i)'
      /\ chain'[i] = chain[i]
  BY <1>1, EventStays DEF Extends
<1>10. RowFrom(p, i)'
  <2>1. IsCommitment(i, p)' /\ counter'[p] = chain'[i].counter /\ key'[p] = chain'[i].key /\ evidence'[p] = chain'[i].nonce
    BY <1>3, <1>5, <1>8, <1>9 DEF IsCommitment
  <2>2. i < next'
    BY <1>1, <1>2
  <2>3. ASSUME valid'[p], evidence'[p] # counter'[p], NEW e \in Epochs PROVE rotations'[e] # counter'[p]
    <3>1. Attested(chain[i])
      BY <1>2, <1>8, <2>3
    <3>2. Known # {} /\ v = get_contract_key_rotation_nonce
      BY <1>5, <3>1 DEF Attested, attest_nvidia_gpu_evidence_list, NonceAgrees
    <3>3. rotations[e] <= v
      BY <1>1, <3>2, LatestIs
    <3>4. v # c /\ rotations[e] \in Nat
      BY <1>1, <1>8, <2>3 DEF TypeOK
    <3>5. rotations[e] # c
      BY <1>5, <3>3, <3>4
    <3>6. QED
      BY <1>8, <3>5
  <2>4. ASSUME errors' = 0
        PROVE  /\ Counts(i)' /\ (valid'[p] => Passes(i)')
               /\ Passes(i)' => valid'[p] \/ Superseded(i)'
    <3>1. /\ Attested(chain[i]) => Passes(i)
          /\ Passes(i) => Attested(chain[i]) \/ Superseded(i)
      BY <1>1, <1>2, <2>4, AttestedPasses
    <3>2. (ok <=> Attested(chain[i])) /\ (chain[i].ppcie => Attested(chain[i])) /\ chain[i].flaw # "encoding"
      BY <1>2, <2>4 DEF Readable
    <3>3. Counts(i)
      BY <3>1, <3>2 DEF Counts
    <3>4. QED
      BY <1>8, <1>9, <3>1, <3>2, <3>3
  <2>5. \A j \in 1 .. next' - 1 : j <= i
    BY <1>1, <1>2
  <2>6. QED
    BY <2>1, <2>2, <2>3, <2>4, <2>5 DEF RowFrom
<1>11. ASSUME NEW o \in Owners PROVE NoRow(o)' \/ \E h \in 1 .. Len(chain') : RowFrom(o, h)'
  <2>1. CASE o = p
    <3>1. i \in 1 .. Len(chain')
      BY <1>2
    <3>2. \E h \in 1 .. Len(chain') : RowFrom(p, h)'
      BY <1>10, <3>1
    <3>3. QED
      BY <2>1, <3>2
  <2>2. CASE o # p
    <3>1. ~Needed(next, o)
      BY <1>2, <1>5, <2>2 DEF Needed, IsCommitment
    <3>2. QED
      BY <1>8, <2>2, <3>1, OtherRow
  <2>3. QED
    BY <2>1, <2>2
<1>12. QED
  BY <1>8, <1>11 DEF RowsOK

LEMMA HandlesCommitment == ASSUME KeysInv, handle_node_key_rotation_event PROVE KeysInv'
<1>1. /\ next <= Len(chain) /\ ~IsRotation(next) /\ next' = next + 1
      /\ UNCHANGED <<chain, cursor, rotations, errors, crashes>>
  BY DEF handle_node_key_rotation_event, Pending, IsRotation, faults
<1>2. /\ TypeOK /\ ChainOK /\ RotationsOK /\ RowsOK /\ ChainOK'
      /\ next \in 1 .. Len(chain)
      /\ next' \in 1 .. Len(chain') + 1 /\ cursor' \in 1 .. next'
  BY <1>1, Handling
<1>3. RotationsOK'
  BY <1>1, RotationsStay
<1>4. CASE ~Readable(chain[next]) \/ (chain[next].ppcie /\ ~Attested(chain[next]))
  <2>1. UNCHANGED <<counter, key, valid, evidence>>
    BY <1>4 DEF handle_node_key_rotation_event
  <2>2. TypeOK'
    BY <1>1, <1>2, <2>1 DEF TypeOK
  <2>3. ASSUME NEW o \in Owners PROVE NoRow(o)' \/ \E i \in 1 .. Len(chain') : RowFrom(o, i)'
    <3>1. ASSUME errors' = 0 PROVE ~Needed(next, o)
      <4>1. SUFFICES ASSUME Counts(next), ~Superseded(next) PROVE FALSE
        BY DEF Needed
      <4>2. Readable(chain[next])
        BY <4>1 DEF Counts, Readable
      <4>3. chain[next].ppcie /\ ~Attested(chain[next])
        BY <1>4, <4>2
      <4>4. Passes(next)
        BY <4>1, <4>3 DEF Counts
      <4>5. QED
        BY <1>1, <1>2, <3>1, <4>1, <4>2, <4>3, <4>4, AttestedPasses
    <3>2. QED
      BY <1>1, <2>1, <3>1, OtherRow
  <2>4. QED
    BY <1>2, <1>3, <2>2, <2>3 DEF KeysInv, RowsOK
<1>5. CASE ~(~Readable(chain[next]) \/ (chain[next].ppcie /\ ~Attested(chain[next])))
  <2>1. PICK ok \in BOOLEAN : ok <=> Attested(chain[next])
    OBVIOUS
  <2>2. update_node_public_key(chain[next], Attested(chain[next]))
    BY <1>5 DEF handle_node_key_rotation_event
  <2>3. Attested(chain[next]) \in BOOLEAN
    BY DEF Attested, attest_nvidia_gpu_evidence_list, NonceAgrees
  <2>4. ok = Attested(chain[next])
    BY <2>1, <2>3
  <2>5. update_node_public_key(chain[next], ok)
    BY <2>2, <2>4
  <2>6. /\ counter' \in [Owners -> 0 .. MaxEvents] /\ key' \in [Owners -> Keys \cup {NoKey}]
        /\ valid' \in [Owners -> BOOLEAN] /\ evidence' \in [Owners -> 0 .. MaxEvents]
        /\ RowsOK'
    BY <1>1, <1>5, <2>1, <2>5, NewRow
  <2>7. TypeOK'
    BY <1>1, <1>2, <2>6 DEF TypeOK
  <2>8. QED
    BY <1>2, <1>3, <2>6, <2>7 DEF KeysInv
<1>6. QED
  BY <1>4, <1>5

LEMMA Loses == ASSUME KeysInv, DatabaseError PROVE KeysInv'
<1>1. /\ next <= Len(chain) /\ next' = next + 1 /\ errors' = errors + 1 /\ errors < MaxErrors
      /\ UNCHANGED <<chain, cursor, rotations, counter, key, valid, evidence, crashes>>
  BY DEF DatabaseError, tables
<1>2. /\ TypeOK /\ ChainOK' /\ next' \in 1 .. Len(chain') + 1 /\ cursor' \in 1 .. next'
  BY <1>1, Handling
<1>3. errors' # 0 /\ errors' \in 0 .. MaxErrors
  BY <1>1, <1>2, BoundsAssumption DEF TypeOK
<1>4. TypeOK'
  BY <1>1, <1>2, <1>3 DEF TypeOK
<1>5. RotationsOK'
  BY <1>1, <1>3, RotationsStay
<1>6. \A o \in Owners : NoRow(o)' \/ \E i \in 1 .. Len(chain') : RowFrom(o, i)'
  BY <1>1, <1>3, OtherRow
<1>7. QED
  BY <1>2, <1>4, <1>5, <1>6 DEF KeysInv, RowsOK

LEMMA Unverified == ASSUME KeysInv, VerifierFails PROVE KeysInv'
<1>1. /\ next <= Len(chain) /\ ~IsRotation(next) /\ next' = next + 1 /\ errors' = errors + 1
      /\ errors < MaxErrors /\ Readable(chain[next]) /\ update_node_public_key(chain[next], FALSE)
      /\ UNCHANGED <<chain, cursor, rotations, crashes>>
  BY DEF VerifierFails, Pending, IsRotation
<1>2. /\ TypeOK /\ ChainOK' /\ next' \in 1 .. Len(chain') + 1 /\ cursor' \in 1 .. next'
  BY <1>1, Handling
<1>3. errors' # 0 /\ errors' \in 0 .. MaxErrors
  BY <1>1, <1>2, BoundsAssumption DEF TypeOK
<1>4. RotationsOK'
  BY <1>1, <1>3, RotationsStay
<1>5. /\ counter' \in [Owners -> 0 .. MaxEvents] /\ key' \in [Owners -> Keys \cup {NoKey}]
      /\ valid' \in [Owners -> BOOLEAN] /\ evidence' \in [Owners -> 0 .. MaxEvents]
      /\ RowsOK'
  BY <1>1, <1>3, NewRow
<1>6. TypeOK'
  BY <1>1, <1>2, <1>3, <1>5 DEF TypeOK
<1>7. QED
  BY <1>2, <1>4, <1>5, <1>6 DEF KeysInv

-----------------------------------------------------------------------------
LEMMA Starts == ASSUME Init PROVE KeysInv
<1>1. chain = <<>> /\ next = 1 /\ cursor = 1 /\ errors = 0 /\ crashes = 0
  BY DEF Init
<1>2. Len(chain) = 0 /\ chain \in Seq(Events)
  BY <1>1
<1>3. \A j \in 1 .. 0 : FALSE
  OBVIOUS
<1>4. ChainOK
  BY <1>2, <1>3, BoundsAssumption DEF ChainOK
<1>5. TypeOK
  <2>1. next \in 1 .. Len(chain) + 1 /\ cursor \in 1 .. next
    BY <1>1, <1>2
  <2>2. errors \in 0 .. MaxErrors /\ crashes \in 0 .. MaxCrashes /\ 0 \in 0 .. MaxEvents
    BY <1>1, BoundsAssumption
  <2>3. QED
    BY <2>1, <2>2 DEF Init, TypeOK
<1>6. RotationsOK
  <2>1. \A e \in Epochs : rotations[e] = 0
    BY DEF Init
  <2>2. next - 1 = 0
    BY <1>1
  <2>3. QED
    BY <1>3, <2>1, <2>2 DEF RotationsOK
<1>7. RowsOK
  <2>1. \A o \in Owners : counter[o] = 0 /\ ~valid[o]
    BY DEF Init
  <2>2. next - 1 = 0
    BY <1>1
  <2>3. QED
    BY <1>3, <2>1, <2>2 DEF RowsOK, NoRow
<1>8. QED
  BY <1>4, <1>5, <1>6, <1>7 DEF KeysInv

(* The invariant holds in every state of the proxy, with any number of     *)
(* events, lost events, unreachable verifiers and restarts.                *)
THEOREM KeysInvariant == Spec => []KeysInv
<1>1. Init => KeysInv
  BY Starts
<1>2. KeysInv /\ [Next]_vars => KeysInv'
  BY ChainStep, Subscriber, HandlesRotation, HandlesCommitment, Loses, Unverified DEF Next, HandleEvent
<1>3. QED
  BY <1>1, <1>2, PTL DEF Spec

(* TypeOK, for any chain: the cursor is never ahead of the event that the  *)
(* state manager handles next.                                             *)
THEOREM KeysTypes == Spec => []TypeOK
<1>1. KeysInv => TypeOK
  BY DEF KeysInv
<1>2. QED
  BY <1>1, KeysInvariant, PTL

(* What is known of a row whose counter is the latest rotation. *)
LEMMA LatestRow ==
  ASSUME KeysInv, NEW o \in Owners, latest_rotation > 0, counter[o] = latest_rotation
  PROVE  \E i \in 1 .. Len(chain) : RowFrom(o, i) /\ ~IsRotation(i)
<1>1. ~NoRow(o)
  BY DEF NoRow
<1>2. PICK i \in 1 .. Len(chain) : RowFrom(o, i)
  BY <1>1 DEF KeysInv, RowsOK
<1>3. ~IsRotation(i)
  BY <1>2 DEF RowFrom, IsCommitment, IsRotation
<1>4. QED
  BY <1>2, <1>3

LEMMA KnownIfLatest == ASSUME latest_rotation > 0 PROVE Known # {}
  BY DEF latest_rotation

(* KeysAreAttested: a key that select_node_public_key_for_encryption gives *)
(* out was shown by evidence for the latest rotation, on every device that *)
(* has it, with any number of lost rotations or any number of restarts.    *)
THEOREM GivenKeysAreAttested == Spec => []KeysAreAttested
<1>1. KeysInv => KeysAreAttested
  <2>1. SUFFICES ASSUME KeysInv, errors = 0 \/ crashes = 0, NEW n \in Nodes, NEW k \in Selectable(n),
                        NEW d \in Devices, counter[<<n, d>>] = latest_rotation, key[<<n, d>>] = k
                 PROVE  evidence[<<n, d>>] = latest_rotation
    BY DEF KeysAreAttested
  <2>2. PICK o \in Owners : o = <<n, d>>
    BY DEF Owners
  <2>3. latest_rotation > 0 /\ valid[o]
    BY <2>1, <2>2 DEF Selectable, AllPass
  <2>4. PICK i \in 1 .. Len(chain) : RowFrom(o, i) /\ ~IsRotation(i)
    BY <2>1, <2>2, <2>3, LatestRow
  <2>5. CASE errors = 0
    <3>1. Passes(i)
      BY <2>3, <2>4, <2>5 DEF RowFrom
    <3>2. LastRotation(i).counter = chain[i].counter
      BY <2>1, <2>4, CommitmentIs DEF KeysInv
    <3>3. QED
      BY <2>1, <2>2, <2>4, <3>1, <3>2 DEF Passes, RowFrom
  <2>6. CASE crashes = 0
    <3>1. Known # {}
      BY <2>3, KnownIfLatest
    <3>2. PICK e \in Epochs : rotations[e] = latest_rotation
      <4>1. PICK K : K = Known /\ K # {} /\ K \subseteq Epochs /\ K \subseteq 1 .. MaxEvents
        BY <3>1 DEF Known, Epochs
      <4>2. MaxOf(K) \in K
        BY <4>1, MaxOfIs, BoundsAssumption
      <4>3. get_contract_key_rotation_nonce = rotations[MaxOf(K)]
        BY <4>1 DEF get_contract_key_rotation_nonce
      <4>4. get_contract_key_rotation_nonce = latest_rotation
        BY <2>1, <3>1, LatestIs DEF KeysInv
      <4>5. QED
        BY <4>1, <4>2, <4>3, <4>4
    <3>3. valid[o] /\ evidence[o] # counter[o] => rotations[e] # counter[o]
      BY <2>4, <2>6, <3>2 DEF RowFrom
    <3>4. QED
      BY <2>1, <2>2, <2>3, <3>2, <3>3
  <2>7. QED
    BY <2>1, <2>5, <2>6
<1>2. QED
  BY <1>1, KeysInvariant, PTL

-----------------------------------------------------------------------------
(* Everything was handled, and nothing was lost.                           *)

CaughtUp == next > Len(chain) /\ errors = 0

(* The latest rotation of the table is the one of the chain. *)
LEMMA LatestIsChain == ASSUME KeysInv, CaughtUp PROVE latest_rotation = ChainRotation.counter
<1>1. TypeOK /\ ChainOK /\ RotationsOK /\ errors = 0
  BY DEF KeysInv, CaughtUp
<1>2. PICK n \in Nat : n = Len(chain) /\ next = n + 1
  BY <1>1, ChainTypes DEF TypeOK, CaughtUp
<1>3. \A j \in 1 .. n : IsRotation(j) => rotations[chain[j].epoch] >= chain[j].counter
  <2>1. n = next - 1
    BY <1>2
  <2>2. QED
    BY <1>1, <2>1 DEF RotationsOK
<1>4. PICK c \in Nat : c = ChainRotation.counter
  BY <1>1, ChainRotationIs, ChainTypes
<1>5. \A i \in 1 .. n : IsRotation(i) => chain[i].counter <= c
  BY <1>1, <1>2, <1>4, ChainRotationIs
<1>6. CASE RotationsBefore(n + 1) = {}
  <2>1. c = 0
    BY <1>2, <1>4, <1>6, NoLastRotation DEF ChainRotation, NoRotation, Rotation
  <2>2. \A j \in 1 .. n : ~IsRotation(j)
    BY <1>6 DEF RotationsBefore
  <2>3. Known = {}
    BY <1>1, <1>2, <2>2 DEF Known, RotationsOK, RotationIs
  <2>4. QED
    BY <1>4, <2>1, <2>3 DEF latest_rotation
<1>7. CASE RotationsBefore(n + 1) # {}
  <2>1. PICK m \in 1 .. n : IsRotation(m) /\ LastRotation(n + 1) = chain[m]
    <3>1. n + 1 \in 1 .. Len(chain) + 1
      BY <1>2
    <3>2. QED
      BY <1>1, <1>2, <1>7, <3>1, LastRotationIs
  <2>2. chain[m].counter = c
    BY <1>2, <1>4, <2>1 DEF ChainRotation
  <2>3. chain[m].epoch \in 1 .. m /\ c \in 1 .. m
    BY <1>1, <1>2, <2>1, <2>2 DEF ChainOK, EventOK
  <2>4. PICK e \in Epochs : e = chain[m].epoch
    BY <1>1, <1>2, <2>3, BoundsAssumption DEF ChainOK, Epochs
  <2>5. rotations[e] >= c /\ rotations[e] \in Nat
    BY <1>1, <1>3, <2>1, <2>2, <2>4 DEF TypeOK
  <2>6. rotations[e] > 0
    BY <2>3, <2>5
  <2>7. Known # {}
    BY <2>6 DEF Known
  <2>8. PICK l \in Nat : l = latest_rotation
    BY <1>1, <2>7, LatestIs
  <2>9. rotations[e] <= l
    BY <1>1, <2>7, <2>8, LatestIs
  <2>10. l <= c
    BY <1>1, <1>2, <1>5, <2>7, <2>8, LatestIs
  <2>11. QED
    BY <1>4, <2>5, <2>8, <2>9, <2>10
<1>8. QED
  BY <1>6, <1>7

(* The commitment of the chain that counts for an owner. *)
LEMMA LastCommitmentIs ==
  ASSUME KeysInv, NEW o \in Owners, CommitmentsOf(o) # {}
  PROVE  \E m \in 1 .. Len(chain) :
           /\ m = MaxOf(CommitmentsOf(o)) /\ IsCommitment(m, o) /\ Counts(m) /\ ~IsRotation(m)
           /\ \A i \in 1 .. Len(chain) : IsCommitment(i, o) /\ Counts(i) => i <= m
<1>1. PICK n \in Nat : n = Len(chain)
  BY ChainTypes DEF KeysInv
<1>2. PICK S : S = CommitmentsOf(o)
  OBVIOUS
<1>3. S = {i \in 1 .. n : IsCommitment(i, o) /\ Counts(i)} /\ S # {}
  BY <1>1, <1>2 DEF CommitmentsOf
<1>4. PICK m : m = MaxOf(S)
  OBVIOUS
<1>5. m \in S /\ \A y \in S : y <= m
  BY <1>3, <1>4, MaxOfIs
<1>6. m \in 1 .. n /\ IsCommitment(m, o) /\ Counts(m)
  BY <1>3, <1>5
<1>7. ~IsRotation(m)
  BY <1>6 DEF IsCommitment, IsRotation
<1>8. ASSUME NEW i \in 1 .. n, IsCommitment(i, o), Counts(i) PROVE i <= m
  BY <1>3, <1>5, <1>8
<1>9. QED
  BY <1>1, <1>2, <1>4, <1>6, <1>7, <1>8

(* A commitment for the chain's rotation is not superseded, and the other way round. *)
LEMMA CurrentIs ==
  ASSUME KeysInv, NEW i \in 1 .. Len(chain), ~IsRotation(i)
  PROVE  /\ chain[i].counter = ChainRotation.counter <=> ~Superseded(i)
         /\ ChainRotation.counter > 0
<1>1. ChainOK
  BY DEF KeysInv
<1>2. PICK n \in Nat : n = Len(chain)
  BY <1>1, ChainTypes
<1>3. PICK m \in 1 .. n : /\ m < i /\ IsRotation(m) /\ chain[m].counter = chain[i].counter
                          /\ \A j \in 1 .. n : j < i /\ IsRotation(j) => j <= m
  BY <1>1, <1>2, CommitmentIs
<1>4. PICK c \in Nat, a \in Nat : c = ChainRotation.counter /\ a = chain[i].counter
  BY <1>1, <1>2, ChainRotationIs, ChainTypes
<1>5. a > 0 /\ a <= c
  BY <1>1, <1>2, <1>3, <1>4, ChainRotationIs, CommitmentIs
<1>6. n + 1 \in 1 .. Len(chain) + 1 /\ RotationsBefore(n + 1) # {}
  BY <1>2, <1>3 DEF RotationsBefore
<1>7. PICK q \in 1 .. n : /\ IsRotation(q) /\ LastRotation(n + 1) = chain[q]
                          /\ \A j \in 1 .. n : j < n + 1 /\ IsRotation(j) => j <= q
  BY <1>1, <1>2, <1>6, LastRotationIs
<1>8. chain[q].counter = c
  BY <1>2, <1>4, <1>7 DEF ChainRotation
<1>9. ASSUME Superseded(i) PROVE a # c
  <2>1. PICK j \in i + 1 .. n : IsRotation(j)
    BY <1>2, <1>9 DEF Superseded
  <2>2. j \in 1 .. n /\ j > i
    BY <1>2
  <2>3. chain[j].counter > a
    BY <1>1, <1>2, <1>4, <2>1, <2>2, CommitmentIs
  <2>4. chain[j].counter <= c /\ chain[j].counter \in Nat
    BY <1>1, <1>2, <1>4, <2>1, <2>2, ChainRotationIs, ChainTypes
  <2>5. QED
    BY <1>4, <2>3, <2>4
<1>10. ASSUME ~Superseded(i) PROVE a = c
  <2>1. q # i
    BY <1>7
  <2>2. ~(q > i)
    BY <1>2, <1>7, <1>10 DEF Superseded
  <2>3. q < i
    BY <1>2, <2>1, <2>2
  <2>4. q <= m
    BY <1>3, <1>7, <2>3
  <2>5. m <= q
    BY <1>3, <1>7
  <2>6. m = q
    BY <2>4, <2>5
  <2>7. QED
    BY <1>3, <1>4, <1>8, <2>6
<1>11. QED
  BY <1>4, <1>5, <1>9, <1>10

(* Where the chain has a current commitment of an owner, the row is that one. *)
LEMMA CurrentRow ==
  ASSUME KeysInv, CaughtUp, NEW o \in Owners, NEW m \in 1 .. Len(chain),
         IsCommitment(m, o), Counts(m), ~Superseded(m),
         \A i \in 1 .. Len(chain) : IsCommitment(i, o) /\ Counts(i) => i <= m
  PROVE  counter[o] = ChainRotation.counter /\ key[o] = chain[m].key /\ (valid[o] <=> Passes(m))
<1>1. TypeOK /\ ChainOK /\ RowsOK /\ errors = 0 /\ ~IsRotation(m)
  BY DEF KeysInv, CaughtUp, IsCommitment, IsRotation
<1>2. PICK n \in Nat : n = Len(chain) /\ n = next - 1
  BY <1>1, ChainTypes DEF TypeOK, CaughtUp
<1>3. Needed(m, o) /\ m \in 1 .. next - 1
  BY <1>2 DEF Needed
<1>4. ~NoRow(o)
  BY <1>1, <1>3 DEF NoRow
<1>5. PICK i \in 1 .. n : RowFrom(o, i)
  BY <1>1, <1>2, <1>4 DEF RowsOK
<1>6. m <= i
  BY <1>1, <1>3, <1>5 DEF RowFrom
<1>7. i <= m
  BY <1>1, <1>2, <1>5 DEF RowFrom
<1>8. i = m
  BY <1>2, <1>6, <1>7
<1>9. valid[o] <=> Passes(m)
  <2>1. valid[o] => Passes(m)
    BY <1>1, <1>5, <1>8 DEF RowFrom
  <2>2. Passes(m) => valid[o]
    BY <1>1, <1>5, <1>8 DEF RowFrom
  <2>3. QED
    BY <2>1, <2>2
<1>10. counter[o] = chain[m].counter /\ key[o] = chain[m].key
  BY <1>5, <1>8 DEF RowFrom
<1>11. QED
  BY <1>1, <1>9, <1>10, CurrentIs

(* A row of the latest rotation has a current commitment. *)
LEMMA RowIsCurrent ==
  ASSUME KeysInv, CaughtUp, NEW o \in Owners, latest_rotation > 0, counter[o] = latest_rotation
  PROVE  /\ CommitmentsOf(o) # {}
         /\ \A m \in 1 .. Len(chain) :
              m = MaxOf(CommitmentsOf(o)) => chain[m].counter = ChainRotation.counter
<1>1. PICK n \in Nat : n = Len(chain)
  BY ChainTypes DEF KeysInv
<1>2. PICK i \in 1 .. n : RowFrom(o, i) /\ ~IsRotation(i)
  BY <1>1, LatestRow
<1>3. IsCommitment(i, o) /\ Counts(i) /\ chain[i].counter = ChainRotation.counter
  BY <1>2, LatestIsChain DEF RowFrom, CaughtUp
<1>4. CommitmentsOf(o) # {}
  BY <1>1, <1>3 DEF CommitmentsOf
<1>5. PICK m \in 1 .. n : /\ m = MaxOf(CommitmentsOf(o)) /\ ~IsRotation(m)
                          /\ \A y \in 1 .. n : IsCommitment(y, o) /\ Counts(y) => y <= m
  BY <1>1, <1>4, LastCommitmentIs
<1>6. i <= m
  BY <1>3, <1>5
<1>7. ~Superseded(i)
  BY <1>1, <1>2, <1>3, CurrentIs
<1>8. ~Superseded(m)
  <2>1. \A j \in m + 1 .. n : j \in i + 1 .. n
    BY <1>6
  <2>2. QED
    BY <1>1, <1>7, <2>1 DEF Superseded
<1>9. chain[m].counter = ChainRotation.counter
  BY <1>1, <1>5, <1>8, CurrentIs
<1>10. QED
  BY <1>4, <1>5, <1>9

(* The rows of the latest rotation and the chain's current commitments are *)
(* the same thing.                                                         *)
Current(o, m) ==
  CommitmentsOf(o) # {} /\ m = MaxOf(CommitmentsOf(o)) /\ chain[m].counter = ChainRotation.counter

LEMMA RowsAreCurrent ==
  ASSUME KeysInv, CaughtUp, NEW o \in Owners
  PROVE  /\ latest_rotation > 0 /\ counter[o] = latest_rotation => \E m : Current(o, m)
         /\ \A m : Current(o, m) => /\ latest_rotation > 0 /\ counter[o] = latest_rotation
                                    /\ key[o] = chain[m].key /\ (valid[o] <=> Passes(m))
<1>1. PICK n \in Nat : n = Len(chain)
  BY ChainTypes DEF KeysInv
<1>2. ASSUME latest_rotation > 0, counter[o] = latest_rotation PROVE \E m : Current(o, m)
  <2>1. CommitmentsOf(o) # {}
    BY <1>2, RowIsCurrent
  <2>2. PICK m \in 1 .. Len(chain) : m = MaxOf(CommitmentsOf(o))
    BY <2>1, LastCommitmentIs
  <2>3. Current(o, m)
    BY <1>2, <2>1, <2>2, RowIsCurrent DEF Current
  <2>4. QED
    BY <2>3
<1>3. ASSUME NEW m, Current(o, m)
      PROVE  /\ latest_rotation > 0 /\ counter[o] = latest_rotation
             /\ key[o] = chain[m].key /\ (valid[o] <=> Passes(m))
  <2>1. m \in 1 .. Len(chain) /\ IsCommitment(m, o) /\ Counts(m) /\ ~IsRotation(m)
        /\ \A i \in 1 .. Len(chain) : IsCommitment(i, o) /\ Counts(i) => i <= m
    BY <1>3, LastCommitmentIs DEF Current
  <2>2. ~Superseded(m) /\ ChainRotation.counter > 0
    BY <1>3, <2>1, CurrentIs DEF Current
  <2>3. counter[o] = ChainRotation.counter /\ key[o] = chain[m].key /\ (valid[o] <=> Passes(m))
    BY <2>1, <2>2, CurrentRow
  <2>4. QED
    BY <2>2, <2>3, LatestIsChain
<1>4. QED
  BY <1>2, <1>3

(* ReplayIsHarmless: once every event was handled without an error, the    *)
(* two queries give out exactly the keys that the chain's events define,   *)
(* however often the proxy restarted and read events again.                *)
THEOREM ReplaysAreHarmless == Spec => []ReplayIsHarmless
<1>1. ASSUME KeysInv PROVE ReplayIsHarmless
  <2>1. SUFFICES ASSUME CaughtUp, NEW n \in Nodes PROVE Selectable(n) = SelectableByChain(n)
    BY DEF ReplayIsHarmless, CaughtUp
  <2>2. \A d \in Devices : <<n, d>> \in Owners
    BY DEF Owners
  <2>3. \A i, k : i \in CurrentOf(n, k) <=> \E d \in Devices : Current(<<n, d>>, i) /\ chain[i].key = k
    BY DEF CurrentOf, Current
  <2>4. ASSUME NEW k \in Keys, k \in Selectable(n) PROVE k \in SelectableByChain(n)
    <3>1. latest_rotation > 0 /\ HasKey(n, k) /\ AllPass(n, k)
      BY <2>4 DEF Selectable
    <3>2. CurrentOf(n, k) # {}
      <4>1. PICK d \in Devices : counter[<<n, d>>] = latest_rotation /\ key[<<n, d>>] = k
        BY <3>1 DEF HasKey
      <4>2. PICK o \in Owners : o = <<n, d>>
        BY <2>2
      <4>3. PICK m : Current(o, m)
        BY <1>1, <2>1, <3>1, <4>1, <4>2, RowsAreCurrent
      <4>4. chain[m].key = k
        BY <1>1, <2>1, <4>1, <4>2, <4>3, RowsAreCurrent
      <4>5. QED
        BY <2>3, <4>2, <4>3, <4>4
    <3>3. ASSUME NEW i \in CurrentOf(n, k) PROVE Passes(i)
      <4>1. PICK d \in Devices : Current(<<n, d>>, i) /\ chain[i].key = k
        BY <2>3, <3>3
      <4>2. PICK o \in Owners : o = <<n, d>>
        BY <2>2
      <4>3. counter[o] = latest_rotation /\ key[o] = k /\ (valid[o] <=> Passes(i))
        BY <1>1, <2>1, <4>1, <4>2, RowsAreCurrent
      <4>4. valid[o]
        BY <3>1, <4>2, <4>3 DEF AllPass
      <4>5. QED
        BY <4>3, <4>4
    <3>4. QED
      BY <2>4, <3>2, <3>3 DEF SelectableByChain
  <2>5. ASSUME NEW k \in Keys, k \in SelectableByChain(n) PROVE k \in Selectable(n)
    <3>1. CurrentOf(n, k) # {} /\ \A i \in CurrentOf(n, k) : Passes(i)
      BY <2>5 DEF SelectableByChain
    <3>2. latest_rotation > 0 /\ HasKey(n, k)
      <4>1. PICK i : i \in CurrentOf(n, k)
        BY <3>1
      <4>2. PICK d \in Devices : Current(<<n, d>>, i) /\ chain[i].key = k
        BY <2>3, <4>1
      <4>3. PICK o \in Owners : o = <<n, d>>
        BY <2>2
      <4>4. latest_rotation > 0 /\ counter[o] = latest_rotation /\ key[o] = k
        BY <1>1, <2>1, <4>2, <4>3, RowsAreCurrent
      <4>5. QED
        BY <4>3, <4>4 DEF HasKey
    <3>3. ASSUME NEW d \in Devices, counter[<<n, d>>] = latest_rotation, key[<<n, d>>] = k
          PROVE  valid[<<n, d>>]
      <4>1. PICK o \in Owners : o = <<n, d>>
        BY <2>2
      <4>2. PICK m : Current(o, m)
        BY <1>1, <2>1, <3>2, <3>3, <4>1, RowsAreCurrent
      <4>3. chain[m].key = k /\ (valid[o] <=> Passes(m))
        BY <1>1, <2>1, <3>3, <4>1, <4>2, RowsAreCurrent
      <4>4. m \in CurrentOf(n, k)
        BY <2>3, <4>1, <4>2, <4>3
      <4>5. QED
        BY <3>1, <4>1, <4>3, <4>4
    <3>4. AllPass(n, k)
      BY <3>3 DEF AllPass
    <3>5. QED
      BY <2>5, <3>2, <3>4 DEF Selectable
  <2>6. Selectable(n) \subseteq Keys /\ SelectableByChain(n) \subseteq Keys
    BY DEF Selectable, SelectableByChain
  <2>7. QED
    BY <2>4, <2>5, <2>6
<1>2. QED
  BY <1>1, KeysInvariant, PTL
============================================================================
