--------------------------- MODULE Streamer_proofs ---------------------------
(***************************************************************************)
(* Proofs about what a streamed answer costs.  First about Streamer alone, *)
(* for every set of usage reports, length of the keep-alive comment and    *)
(* length of the stream; then about StreamBilling, where its settlement    *)
(* meets billing, for every number of users and requests.                  *)
(***************************************************************************)
EXTENDS StreamBilling, TLAPS

(* A client sends one kill signal, when it leaves. *)
KillInv == TypeOK /\ (client = "reading" => kill = 0)

(* Where the settlement is in the life of the task. *)
OnceInv ==
  /\ final_handled => Len(settled) = 1 /\ task \in {"ended", "dropped"}
  /\ ~final_handled /\ task # "dropped" => settled = <<>>
  /\ task = "dropped" => SettledOnce

(* Until a keep-alive is cut the streamer knows what the wire reported, and *)
(* a DONE mark that found a complete usage has settled it.                  *)
UsageInv ==
  ~cut =>
    /\ usage = reported
    /\ done_sent => /\ status = "completed"
                    /\ usage \in Usages /\ manager =>
                         final_handled /\ settled[1].charge = usage

(* Events are counted before they are passed on, and none after a settlement. *)
CountInv ==
  /\ delivered + events <= generated
  /\ \A i \in 1 .. Len(settled) : settled[i].events = generated

Inv == KillInv /\ OnceInv /\ UsageInv /\ CountInv

WireType ==
  /\ chunks \in Nat /\ reported \in Usages \cup {NoUsage, PartialUsage}
  /\ done_sent \in BOOLEAN /\ cut \in BOOLEAN

-----------------------------------------------------------------------------
LEMMA InitInv == Init => Inv
<1> SUFFICES ASSUME Init PROVE Inv
  OBVIOUS
<1>1. KillInv
  <2>1. keep_alive_pos \in 0 .. KeepAliveLen - 1
    BY KeepAliveAssumption DEF Init
  <2>2. /\ settled \in Seq([charge : Usages \cup {Estimate}, events : Nat])
        /\ generated \in Nat /\ events \in Nat /\ delivered \in Nat /\ chunks \in Nat
    BY DEF Init
  <2>3. QED
    BY <2>1, <2>2, Zenon DEF Init, KillInv, TypeOK
<1>2. OnceInv /\ UsageInv /\ CountInv
  BY DEF Init, OnceInv, UsageInv, CountInv
<1>3. QED
  BY <1>1, <1>2 DEF Inv

(* The first settlement of a task that has sent none. *)
LEMMA FirstSettlement ==
  ASSUME TypeOK, settled = <<>>, NEW c \in Usages \cup {Estimate}, Settle(c)
  PROVE  /\ settled' \in Seq([charge : Usages \cup {Estimate}, events : Nat])
         /\ Len(settled') = IF manager THEN 1 ELSE 0
         /\ manager => settled'[1] = [charge |-> c, events |-> generated]
         /\ \A i \in 1 .. Len(settled') : settled'[i].events = generated
<1> DEFINE e == [charge |-> c, events |-> generated]
<1>1. e \in [charge : Usages \cup {Estimate}, events : Nat]
  BY DEF TypeOK
<1>2. CASE manager
  <2>1. settled' = <<e>>
    BY <1>2 DEF Settle
  <2>2. QED
    BY <1>1, <1>2, <2>1
<1>3. CASE ~manager
  <2>1. settled' = <<>>
    BY <1>3 DEF Settle
  <2>2. QED
    BY <1>3, <2>1
<1>4. QED
  BY <1>2, <1>3

(* What every delivery does to the history. *)
LEMMA Delivery ==
  ASSUME TypeOK, NEW c \in Data, Deliver(c)
  PROVE  /\ task = "running" /\ status # "completed"
         /\ WireType'
         /\ done_sent' = (done_sent \/ c.alone = "done")
         /\ cut' = (cut \/ keep_alive_pos > 0)
         /\ reported' = IF Parsed(c) /\ c.verified /\ c.usage # NoUsage
                               THEN c.usage ELSE reported
  BY DEF TypeOK, WireType, Deliver, Polled, Data

(* A step that delivers nothing of interest leaves all but the buffer, the *)
(* keep-alive position and the number of chunks alone; the task goes on or *)
(* ends.                                                                   *)
LEMMA QuietDelivery ==
  ASSUME Inv, status' \in {"started"},
         task = "running", status # "completed",
         task' \in {"running", "ended"},
         UNCHANGED <<usage, generated, final_handled, reader, kill, stop_sent, manager,
                     settled>>,
         keep_alive_pos' \in 0 .. KeepAliveLen - 1, buffered' \in BOOLEAN,
         WireType',
         ~cut' => /\ ~cut
                       /\ reported' = reported /\ done_sent' = done_sent
  PROVE  Inv'
<1>1. KillInv'
  BY DEF Inv, KillInv, TypeOK, WireType, reader
<1>2. OnceInv'
  BY DEF Inv, OnceInv
<1>3. UsageInv'
  BY DEF Inv, UsageInv
<1>4. CountInv'
  BY DEF Inv, CountInv, reader
<1>5. QED
  BY <1>1, <1>2, <1>3, <1>4 DEF Inv

LEMMA NextInv == Inv /\ [Next]_vars => Inv'
<1> SUFFICES ASSUME Inv, [Next]_vars PROVE Inv'
  OBVIOUS
<1>t. TypeOK /\ (client = "reading" => kill = 0)
  BY DEF Inv, KillInv
<1>1. CASE KeepAlive
  <2>1. keep_alive_pos' \in 0 .. KeepAliveLen - 1
    BY <1>t, <1>1, KeepAliveAssumption DEF KeepAlive, Advanced, Pieces, TypeOK
  <2>2. /\ WireType'
        /\ cut' = cut /\ reported' = reported /\ done_sent' = done_sent
    BY <1>t, <1>1 DEF KeepAlive, DeliverNoData, WireType, TypeOK
  <2>3. /\ status' = "started" /\ task = "running" /\ status # "completed"
        /\ buffered' \in BOOLEAN
        /\ UNCHANGED <<usage, generated, final_handled, task, reader, kill, stop_sent,
                       manager, settled>>
    BY <1>t, <1>1 DEF KeepAlive, DeliverNoData, Polled, TypeOK
  <2>4. QED
    BY <2>1, <2>2, <2>3, QuietDelivery
<1>2. CASE KeepAliveInterrupted
  <2>1. PICK c \in Data : Deliver(c)
    BY <1>2 DEF KeepAliveInterrupted
  <2>2. cut'
    BY <1>t, <1>2, <2>1, Delivery DEF KeepAliveInterrupted
  <2>3. QED
    BY <1>t, <1>2, <2>1, <2>2, Delivery, QuietDelivery DEF KeepAliveInterrupted, TypeOK
<1>3. CASE ChunkRefused
  <2>1. CASE DeliverNoData /\ status' = "started" /\ UNCHANGED buffered
    <3>1. /\ WireType'
          /\ cut' = cut /\ reported' = reported /\ done_sent' = done_sent
      BY <1>t, <2>1 DEF TypeOK, WireType, DeliverNoData
    <3>2. QED
      BY <1>t, <1>3, <2>1, <3>1, QuietDelivery DEF ChunkRefused, DeliverNoData, Polled, TypeOK
  <2>2. CASE \E c \in Data : Refused(c) /\ Receives(c) /\ buffered' = FALSE
    <3>1. PICK c \in Data : Refused(c) /\ Receives(c) /\ buffered' = FALSE
      BY <2>2
    <3>2. c.alone # "done" /\ ~(Parsed(c) /\ c.verified)
      BY <3>1 DEF Refused, Parsed, Data
    <3>3. Deliver(c) /\ status' = "started" /\ keep_alive_pos = 0
      BY <3>1, <3>2 DEF Receives
    <3>4. /\ ~cut' => ~cut
          /\ reported' = reported /\ done_sent' = done_sent
      BY <1>t, <3>2, <3>3, Delivery DEF TypeOK
    <3>5. QED
      BY <1>t, <1>3, <3>1, <3>3, <3>4, Delivery, QuietDelivery DEF ChunkRefused, TypeOK
  <2>3. QED
    BY <1>3, <2>1, <2>2 DEF ChunkRefused
<1>3a. CASE ChunkPanics
  <2>1. PICK c \in Data : Parsed(c) /\ ~c.verified /\ Receives(c)
    BY <1>3a DEF ChunkPanics
  <2>2. c.alone # "done" /\ ~(Parsed(c) /\ c.verified)
    BY <2>1 DEF Parsed, Data
  <2>3. Deliver(c) /\ status' = "started" /\ keep_alive_pos = 0
    BY <2>1, <2>2 DEF Receives
  <2>4. /\ ~cut' => ~cut
        /\ reported' = reported /\ done_sent' = done_sent
    BY <1>t, <2>2, <2>3, Delivery DEF TypeOK
  <2>5. QED
    BY <1>t, <1>3a, <2>3, <2>4, Delivery, QuietDelivery DEF ChunkPanics, TypeOK
<1>4. CASE ChunkBuffered
  <2>1. PICK c \in Data : Incomplete(c) /\ Receives(c)
    BY <1>4 DEF ChunkBuffered
  <2>2. c.alone # "done" /\ ~Parsed(c)
    BY <2>1 DEF Incomplete, Parsed, Data
  <2>3. Deliver(c) /\ status' = "started" /\ keep_alive_pos = 0
    BY <2>1, <2>2 DEF Receives
  <2>4. /\ ~cut' => ~cut
        /\ reported' = reported /\ done_sent' = done_sent
    BY <1>t, <2>2, <2>3, Delivery DEF TypeOK
  <2>5. QED
    BY <1>t, <1>4, <2>3, <2>4, Delivery, QuietDelivery DEF ChunkBuffered, TypeOK
<1>5. CASE ChunkPassedOn
  <2>1. PICK c \in Data :
          /\ Parsed(c) /\ c.verified /\ Receives(c)
          /\ usage' = NewUsage(c) /\ generated' = generated + Counted(c)
          /\ buffered' = FALSE
          /\ events' = IF client = "gone" THEN events ELSE events + 1
          /\ UNCHANGED <<keep_alive_pos, final_handled, task, client, delivered, kill,
                         stop_sent, manager, settled>>
    BY <1>5 DEF ChunkPassedOn
  <2>2. c.alone # "done" /\ c.usage \in Usages \cup {NoUsage, PartialUsage}
    BY <2>1 DEF Parsed, Data
  <2>3. Deliver(c) /\ status' = "started" /\ keep_alive_pos = 0
    BY <2>1, <2>2 DEF Receives
  <2>4. /\ task = "running" /\ status # "completed" /\ cut' = cut
        /\ done_sent' = done_sent
        /\ reported' = IF c.usage # NoUsage THEN c.usage ELSE reported
        /\ WireType'
    BY <1>t, <2>1, <2>2, <2>3, Delivery DEF TypeOK
  <2>5. settled = <<>> /\ ~final_handled
    BY <2>4 DEF Inv, OnceInv
  <2>6. KillInv'
    <3>1. generated' \in Nat /\ events' \in Nat
      BY <1>t, <2>1 DEF TypeOK, Counted
    <3>2. usage' \in Usages \cup {NoUsage, PartialUsage}
      BY <1>t, <2>1, <2>2 DEF TypeOK, NewUsage
    <3>3. buffered' \in BOOLEAN /\ status' \in {"not_started", "started", "completed", "failed"}
      BY <2>1, <2>3, Zenon
    <3>4. QED
      BY <1>t, <2>1, <2>4, <3>1, <3>2, <3>3 DEF KillInv, TypeOK, WireType
  <2>7. OnceInv'
    BY <2>1, <2>4, <2>5 DEF OnceInv
  <2>8. UsageInv'
    BY <2>1, <2>4 DEF Inv, UsageInv, NewUsage
  <2>9. CountInv'
    BY <1>t, <2>1, <2>5 DEF Inv, CountInv, Counted, TypeOK
  <2>10. QED
    BY <2>6, <2>7, <2>8, <2>9 DEF Inv
<1>6. CASE ChunkDone
  <2>1. PICK c \in Data : c.alone = "done" /\ Receives(c)
    BY <1>6 DEF ChunkDone
  <2>2. Deliver(c) /\ status' = "completed" /\ keep_alive_pos = 0 /\ ~Parsed(c)
    BY <2>1 DEF Receives, Parsed
  <2>3. /\ task = "running" /\ cut' = cut
        /\ reported' = reported
        /\ WireType'
    BY <1>t, <2>2, Delivery DEF TypeOK
  <2>4. settled = <<>> /\ ~final_handled
    BY <2>3 DEF Inv, OnceInv
  <2>5. CASE usage \in Usages
    <3>1. /\ Settle(usage) /\ final_handled' = manager
          /\ task' = IF manager THEN "ended" ELSE task
      BY <1>6, <2>5 DEF ChunkDone, handle_final_chunk
    <3>2. /\ settled' \in Seq([charge : Usages \cup {Estimate}, events : Nat])
          /\ Len(settled') = IF manager THEN 1 ELSE 0
          /\ manager => settled'[1] = [charge |-> usage, events |-> generated]
          /\ \A i \in 1 .. Len(settled') : settled'[i].events = generated
      BY <1>t, <2>4, <2>5, <3>1, FirstSettlement
    <3>3. ~manager => settled' = <<>>
      BY <2>4, <3>1 DEF Settle
    <3>4. KillInv'
      BY <1>t, <1>6, <2>2, <2>3, <3>1, <3>2 DEF KillInv, TypeOK, WireType, ChunkDone, reader
    <3>5. OnceInv'
      BY <1>t, <1>6, <2>3, <3>1, <3>2, <3>3 DEF OnceInv, ChunkDone, TypeOK
    <3>6. UsageInv'
      BY <1>6, <2>2, <2>3, <3>1, <3>2 DEF Inv, UsageInv, ChunkDone
    <3>7. CountInv'
      BY <1>6, <3>2 DEF Inv, CountInv, ChunkDone, reader
    <3>8. QED
      BY <3>4, <3>5, <3>6, <3>7 DEF Inv
  <2>6. CASE usage \notin Usages
    <3>1. UNCHANGED <<settled, final_handled, task>>
      BY <1>6, <2>6 DEF ChunkDone, handle_final_chunk
    <3>2. KillInv'
      BY <1>t, <1>6, <2>2, <2>3, <3>1 DEF KillInv, TypeOK, WireType, ChunkDone, reader
    <3>3. OnceInv'
      BY <3>1, <2>3, <2>4 DEF OnceInv
    <3>4. UsageInv'
      BY <1>6, <2>2, <2>3, <2>6, <3>1 DEF Inv, UsageInv, ChunkDone
    <3>5. CountInv'
      BY <1>6, <3>1 DEF Inv, CountInv, ChunkDone, reader
    <3>6. QED
      BY <3>2, <3>3, <3>4, <3>5 DEF Inv
  <2>7. QED
    BY <2>5, <2>6
<1>7. CASE StreamEnds \/ PollCompleted
  <2>1. /\ task = "running" /\ task' = "ended"
        /\ status' \in {"failed", "completed"}
        /\ UNCHANGED <<keep_alive_pos, buffered, usage, generated, final_handled, reader,
                       kill, stop_sent, manager, settled>>
    BY <1>7 DEF StreamEnds, PollCompleted, Polled, streamer
  <2>2. KillInv'
    BY <1>t, <1>7, <2>1 DEF KillInv, TypeOK, StreamEnds, PollCompleted, reader, wire
  <2>3. OnceInv'
    BY <2>1 DEF Inv, OnceInv, wire
  <2>4. wire' = wire
    BY <1>7 DEF StreamEnds, PollCompleted
  <2>5. status = "completed" => status' = "completed"
    BY <1>7 DEF StreamEnds, PollCompleted, Polled, streamer
  <2>6. UsageInv'
    BY <2>1, <2>4, <2>5 DEF Inv, UsageInv, wire
  <2>7. CountInv'
    BY <2>1 DEF Inv, CountInv, reader
  <2>8. QED
    BY <2>2, <2>3, <2>6, <2>7 DEF Inv
<1>8. CASE DropStreamer
  <2>1. CASE final_handled
    <3>1. /\ task' = "dropped" /\ UNCHANGED <<settled, status>>
          /\ UNCHANGED <<keep_alive_pos, buffered, usage, generated, final_handled, reader,
                         kill, stop_sent, manager, wire>>
      BY <1>8, <2>1 DEF DropStreamer
    <3>2. KillInv'
      BY <1>t, <3>1 DEF KillInv, TypeOK, reader, wire
    <3>3. OnceInv'
      <4>1. Len(settled') = 1 /\ Len(settled') <= 1
        BY <2>1, <3>1 DEF Inv, OnceInv
      <4>2. QED
        BY <2>1, <3>1, <4>1 DEF OnceInv, SettledOnce
    <3>4. UsageInv' /\ CountInv'
      BY <3>1 DEF Inv, UsageInv, CountInv, reader, wire
    <3>5. QED
      BY <3>2, <3>3, <3>4 DEF Inv
  <2>2. CASE ~final_handled
    <3>1. /\ task = "ended" /\ task' = "dropped" /\ Settle(Estimate) /\ status' = "completed"
          /\ UNCHANGED <<keep_alive_pos, buffered, usage, generated, final_handled, reader,
                         kill, stop_sent, manager, wire>>
      BY <1>8, <2>2 DEF DropStreamer
    <3>2. settled = <<>>
      BY <2>2, <3>1 DEF Inv, OnceInv, wire
    <3>3. /\ settled' \in Seq([charge : Usages \cup {Estimate}, events : Nat])
          /\ Len(settled') = IF manager THEN 1 ELSE 0
          /\ \A i \in 1 .. Len(settled') : settled'[i].events = generated
      BY <1>t, <3>1, <3>2, FirstSettlement
    <3>4. KillInv'
      BY <1>t, <3>1, <3>3 DEF KillInv, TypeOK, reader, wire
    <3>5. OnceInv'
      BY <2>2, <3>1, <3>3 DEF OnceInv, SettledOnce, wire
    <3>6. UsageInv'
      BY <2>2, <3>1 DEF Inv, UsageInv, wire
    <3>7. CountInv'
      BY <3>1, <3>3 DEF Inv, CountInv, reader
    <3>8. QED
      BY <3>4, <3>5, <3>6, <3>7 DEF Inv
  <2>3. QED
    BY <2>1, <2>2
<1>9. CASE HandleKill \/ StopAnswered
  <2>1. /\ task \in {"running", "stopping"} /\ task' \in {"running", "stopping"}
        /\ UNCHANGED <<streamer, reader, manager, settled, wire>>
        /\ stop_sent' \in BOOLEAN
    BY <1>t, <1>9 DEF HandleKill, StopAnswered, TypeOK
  <2>5. kill' \in {0, 1} /\ (client = "reading" => kill' = 0)
    BY <1>t, <1>9 DEF HandleKill, StopAnswered, TypeOK
  <2>2. KillInv'
    BY <1>t, <2>1, <2>5 DEF KillInv, TypeOK, streamer, reader, wire
  <2>3. OnceInv' /\ UsageInv' /\ CountInv'
    BY <2>1 DEF Inv, OnceInv, UsageInv, CountInv, streamer, reader, wire
  <2>4. QED
    BY <2>2, <2>3 DEF Inv
<1>10. CASE ClientReads
  <2>1. KillInv'
    BY <1>t, <1>10 DEF ClientReads, KillInv, TypeOK, streamer, wire
  <2>2. OnceInv' /\ UsageInv'
    BY <1>10 DEF ClientReads, Inv, OnceInv, UsageInv, SettledOnce, streamer, wire
  <2>3. CountInv'
    BY <1>t, <1>10 DEF ClientReads, Inv, CountInv, TypeOK, streamer
  <2>4. QED
    BY <2>1, <2>2, <2>3 DEF Inv
<1>11. CASE ClientSeesEnd
  <2>1. KillInv'
    BY <1>t, <1>11 DEF ClientSeesEnd, KillInv, TypeOK, streamer, wire
  <2>2. OnceInv' /\ UsageInv' /\ CountInv'
    BY <1>11 DEF ClientSeesEnd, Inv, OnceInv, UsageInv, CountInv, SettledOnce, streamer, wire
  <2>3. QED
    BY <2>1, <2>2 DEF Inv
<1>12. CASE ClientLeaves
  <2>1. KillInv'
    BY <1>t, <1>12 DEF ClientLeaves, KillInv, TypeOK, streamer, wire
  <2>2. OnceInv' /\ UsageInv'
    BY <1>12 DEF ClientLeaves, Inv, OnceInv, UsageInv, SettledOnce, streamer, wire
  <2>3. CountInv'
    BY <1>t, <1>12 DEF ClientLeaves, Inv, CountInv, TypeOK, streamer
  <2>4. QED
    BY <2>1, <2>2, <2>3 DEF Inv
<1>13. CASE ManagerStops
  <2>1. KillInv'
    <3>1. manager' \in BOOLEAN
      BY <1>13, Zenon DEF ManagerStops
    <3>2. UNCHANGED <<streamer, task, reader, kill, stop_sent, settled, wire>>
      BY <1>13 DEF ManagerStops
    <3>3. QED
      BY <1>t, <3>1, <3>2 DEF KillInv, TypeOK, streamer, reader, wire
  <2>2. OnceInv' /\ UsageInv' /\ CountInv'
    BY <1>13
       DEF ManagerStops, Inv, OnceInv, UsageInv, CountInv, SettledOnce, streamer, reader, wire
  <2>3. QED
    BY <2>1, <2>2 DEF Inv
<1>14. CASE UNCHANGED vars
  BY <1>14 DEF vars, streamer, reader, Inv, KillInv, TypeOK, OnceInv, UsageInv, CountInv, wire,
               SettledOnce
<1>15. QED
  BY <1>1, <1>2, <1>3, <1>3a, <1>4, <1>5, <1>6, <1>7, <1>8, <1>9, <1>10, <1>11, <1>12,
     <1>13, <1>14 DEF Next, poll_next

LEMMA Always == Spec => []Inv
  BY InitInv, NextInv, PTL DEF Spec

-----------------------------------------------------------------------------
(* Every variable of a streamed answer keeps its type.                     *)
THEOREM StreamTypeCorrect == Spec => []TypeOK
<1>1. Inv => TypeOK
  BY DEF Inv, KillInv
<1>2. QED
  BY <1>1, Always, PTL

(* The estimate of a streamed answer is settled at most once, and exactly  *)
(* once when the task has ended and the state manager is still there.      *)
THEOREM StreamSettledOnce == Spec => []SettledOnce
<1>1. Inv => SettledOnce
  <2> SUFFICES ASSUME Inv PROVE SettledOnce
    OBVIOUS
  <2>1. CASE task = "dropped"
    BY <2>1 DEF Inv, OnceInv
  <2>2. CASE task # "dropped"
    <3>1. Len(settled) = 1 \/ settled = <<>>
      BY <2>2 DEF Inv, OnceInv
    <3>2. Len(settled) <= 1
      BY <3>1
    <3>3. QED
      BY <2>2, <3>2 DEF SettledOnce
  <2>3. QED
    BY <2>1, <2>2
<1>2. QED
  BY <1>1, Always, PTL

(* The last usage a whole stream reported is what it is charged.           *)
THEOREM StreamChargesReport == Spec => []ReportedUsageIsCharged
<1>1. Inv => ReportedUsageIsCharged
  BY DEF Inv, UsageInv, ReportedUsageIsCharged
<1>2. QED
  BY <1>1, Always, PTL

(* The client reads no event that a settlement by estimate leaves out.     *)
THEOREM StreamClientCharged == Spec => []ClientGetsWhatIsCharged
<1>1. Inv => ClientGetsWhatIsCharged
  BY DEF Inv, CountInv, ClientGetsWhatIsCharged
<1>2. QED
  BY <1>1, Always, PTL
-----------------------------------------------------------------------------
(* What billing sees of a stream.                                          *)

(* An event that was counted came in a chunk. *)
ChunkInv == chunks <= MaxChunks /\ generated <= chunks

(* A stream that was whole and has settled is charged what it reported. *)
ReportInv ==
  settled # <<>> /\ done_sent /\ ~cut /\ reported \in Usages => settled[1].charge = reported

(* How a step changes the settlements: not at all, or by the first. *)
LEMMA SendsOnce ==
  ASSUME Inv, [Next]_vars
  PROVE  \/ settled' = settled
         \/ /\ settled = <<>> /\ manager /\ manager' = manager
            /\ \E c \in Usages \cup {Estimate} :
                 settled' = <<[charge |-> c, events |-> generated]>>
<1>1. CASE ChunkDone
  <2>1. task = "running"
    BY <1>1 DEF ChunkDone, Receives, Deliver, Polled
  <2>2. settled = <<>>
    BY <2>1 DEF Inv, OnceInv
  <2>3. CASE usage \in Usages /\ manager
    BY <1>1, <2>2, <2>3 DEF ChunkDone, handle_final_chunk, Settle
  <2>4. CASE ~(usage \in Usages /\ manager)
    BY <1>1, <2>4 DEF ChunkDone, handle_final_chunk, Settle
  <2>5. QED
    BY <2>3, <2>4
<1>2. CASE DropStreamer
  <2>1. CASE ~final_handled /\ manager
    <3>1. settled = <<>>
      BY <1>2, <2>1 DEF DropStreamer, Inv, OnceInv
    <3>2. QED
      BY <1>2, <2>1, <3>1 DEF DropStreamer, Settle
  <2>2. CASE ~(~final_handled /\ manager)
    BY <1>2, <2>2 DEF DropStreamer, Settle
  <2>3. QED
    BY <2>1, <2>2
<1>3. CASE ~ChunkDone /\ ~DropStreamer
  BY <1>3
     DEF Next, poll_next, KeepAlive, KeepAliveInterrupted, ChunkRefused, ChunkPanics,
         ChunkBuffered, ChunkPassedOn, StreamEnds, PollCompleted, HandleKill, StopAnswered, ClientReads,
         ClientSeesEnd, ClientLeaves, ManagerStops, vars
<1>4. QED
  BY <1>1, <1>2, <1>3

LEMMA ChunkStep == Inv /\ ChunkInv /\ [Next]_vars => ChunkInv'
<1> SUFFICES ASSUME Inv, ChunkInv, [Next]_vars PROVE ChunkInv'
  OBVIOUS
<1>t. chunks \in Nat /\ generated \in Nat /\ MaxChunks \in Nat
  BY MaxChunksAssumption DEF Inv, KillInv, TypeOK
<1>1. CASE \E c \in Data : Deliver(c)
  <2>1. chunks' = chunks + 1 /\ chunks < MaxChunks
    BY <1>1 DEF Deliver
  <2>2. CASE ChunkPassedOn
    BY <1>t, <2>1, <2>2 DEF ChunkInv, ChunkPassedOn, Counted
  <2>3. CASE ~ChunkPassedOn
    <3>1. generated' = generated
      BY <2>3
         DEF Next, poll_next, KeepAlive, KeepAliveInterrupted, ChunkRefused, ChunkPanics,
             ChunkBuffered, ChunkDone, StreamEnds, PollCompleted, DropStreamer, HandleKill, StopAnswered,
             ClientReads, ClientSeesEnd, ClientLeaves, ManagerStops, vars, streamer
    <3>2. QED
      BY <1>t, <2>1, <3>1 DEF ChunkInv
  <2>4. QED
    BY <2>2, <2>3
<1>2. CASE DeliverNoData /\ generated' = generated
  BY <1>t, <1>2 DEF DeliverNoData, ChunkInv
<1>3. CASE chunks' = chunks /\ generated' = generated
  BY <1>3 DEF ChunkInv
<1>4. \/ \E c \in Data : Deliver(c)
      \/ DeliverNoData /\ generated' = generated
      \/ chunks' = chunks /\ generated' = generated
  BY DEF Next, poll_next, KeepAlive, KeepAliveInterrupted, ChunkRefused, ChunkPanics,
         ChunkBuffered, ChunkPassedOn, ChunkDone, Receives, StreamEnds, PollCompleted, DropStreamer,
         HandleKill, StopAnswered, ClientReads, ClientSeesEnd, ClientLeaves, ManagerStops,
         vars, streamer, wire
<1>5. QED
  BY <1>1, <1>2, <1>3, <1>4

LEMMA ReportStep == Inv /\ ReportInv /\ [Next]_vars => ReportInv'
<1> SUFFICES ASSUME Inv, ReportInv, [Next]_vars,
                    settled' # <<>>, done_sent', ~cut', reported' \in Usages
             PROVE  settled'[1].charge = reported'
  BY DEF ReportInv
<1>t. TypeOK
  BY DEF Inv, KillInv
<1>1. CASE settled # <<>>
  <2>1. settled' = settled
    BY <1>1, SendsOnce
  <2>2. task # "running"
    BY <1>1 DEF Inv, OnceInv
  <2>3. wire' = wire
    BY <2>2
       DEF Next, poll_next, KeepAlive, KeepAliveInterrupted, ChunkRefused, ChunkPanics,
           ChunkBuffered, ChunkPassedOn, ChunkDone, Receives, Deliver, DeliverNoData, Polled, StreamEnds,
           PollCompleted, DropStreamer, HandleKill, StopAnswered, ClientReads, ClientSeesEnd,
           ClientLeaves, ManagerStops, vars, wire
  <2>4. QED
    BY <1>1, <2>1, <2>3 DEF ReportInv, wire
<1>2. CASE settled = <<>> /\ ChunkDone
  <2>1. PICK c \in Data : c.alone = "done" /\ Receives(c)
    BY <1>2 DEF ChunkDone
  <2>2. Deliver(c) /\ keep_alive_pos = 0 /\ ~Parsed(c)
    BY <2>1 DEF Receives, Parsed
  <2>3. cut' = cut /\ reported' = reported
    BY <1>t, <2>2, Delivery DEF TypeOK
  <2>4. usage \in Usages /\ manager
    BY <1>2 DEF ChunkDone, handle_final_chunk, Settle
  <2>5. settled' = <<[charge |-> usage, events |-> generated]>>
    BY <1>2, <2>4 DEF ChunkDone, handle_final_chunk, Settle
  <2>6. usage = reported
    BY <2>3 DEF Inv, UsageInv
  <2>7. QED
    BY <2>3, <2>5, <2>6
<1>3. CASE settled = <<>> /\ DropStreamer
  <2>1. ~final_handled /\ manager /\ wire' = wire
    BY <1>3 DEF DropStreamer, Settle
  <2>2. usage = reported /\ done_sent /\ reported \in Usages /\ ~cut
    BY <2>1 DEF Inv, UsageInv, wire
  <2>3. QED
    BY <2>1, <2>2 DEF Inv, UsageInv
<1>4. CASE settled = <<>> /\ ~ChunkDone /\ ~DropStreamer
  BY <1>4
     DEF Next, poll_next, KeepAlive, KeepAliveInterrupted, ChunkRefused, ChunkPanics,
         ChunkBuffered, ChunkPassedOn, StreamEnds, PollCompleted, HandleKill, StopAnswered, ClientReads,
         ClientSeesEnd, ClientLeaves, ManagerStops, vars
<1>5. QED
  BY <1>1, <1>2, <1>3, <1>4

-----------------------------------------------------------------------------
(* The proofs about FiatBilling hold for the billing of a stream.          *)

P == INSTANCE FiatBilling_proofs WITH usage <- rows

LEMMA SomeTokens == Tokens \subseteq Nat /\ 0 \in Tokens
  BY TokensAssumption, MaxChunksAssumption

LEMMA SameInit == Billing!Init => P!Init
  BY DEF Billing!Init, P!Init, Billing!NewRow, P!NewRow, Billing!NoUsageRow, P!NoUsageRow,
         Billing!NoRequest, P!NoRequest, Billing!Reservations, P!Reservations,
         Billing!NoHold, P!NoHold

(* The actions are the same, one by one. *)
LEMMA SameNext == [Billing!Next]_Billing!vars => [P!Next]_P!vars
<1> SUFFICES ASSUME [Billing!Next]_Billing!vars PROVE [P!Next]_P!vars
  OBVIOUS
<1>1. ASSUME NEW r \in Requests, Billing!authenticate_and_lock_compute_units(r)
      PROVE  P!authenticate_and_lock_compute_units(r)
  BY <1>1
     DEF Billing!authenticate_and_lock_compute_units,
         P!authenticate_and_lock_compute_units, Billing!Endpoints, P!Endpoints,
         Billing!Estimates, P!Estimates, Billing!ChatEstimates, P!ChatEstimates,
         Billing!CompletionsEstimates, P!CompletionsEstimates,
         Billing!EmbeddingsEstimates, P!EmbeddingsEstimates, Billing!ImageEstimates,
         P!ImageEstimates, Billing!SendLock, P!SendLock, Billing!LockEvent, P!LockEvent,
         Billing!Amount, P!Amount
<1>2. ASSUME NEW r \in Requests, Billing!RejectRequest(r)
      PROVE  P!RejectRequest(r)
  BY <1>2
     DEF Billing!RejectRequest, P!RejectRequest, Billing!Finish, P!Finish,
         Billing!Finished, P!Finished, Billing!NoRequest, P!NoRequest
<1>3. ASSUME NEW r \in Requests, Billing!create_fiat_request(r)
      PROVE  P!create_fiat_request(r)
  BY <1>3
     DEF Billing!create_fiat_request, P!create_fiat_request, Billing!Goto, P!Goto,
         Billing!Finish, P!Finish, Billing!Finished, P!Finished, Billing!NoRequest,
         P!NoRequest, Billing!update_state_manager_fiat, P!update_state_manager_fiat,
         Billing!SettleEvent, P!SettleEvent, Billing!Amount, P!Amount
<1>4. ASSUME NEW r \in Requests, Billing!ExtractorRejects(r)
      PROVE  P!ExtractorRejects(r)
  BY <1>4
     DEF Billing!ExtractorRejects, P!ExtractorRejects, Billing!Finish, P!Finish,
         Billing!Finished, P!Finished, Billing!NoRequest, P!NoRequest
<1>4a. ASSUME NEW r \in Requests, Billing!HandlerPanics(r)
      PROVE  P!HandlerPanics(r)
  BY <1>4a
     DEF Billing!HandlerPanics, P!HandlerPanics, Billing!Finish, P!Finish,
         Billing!Finished, P!Finished, Billing!NoRequest, P!NoRequest
<1>5. ASSUME NEW r \in Requests, Billing!HandleLocked(r)
      PROVE  P!HandleLocked(r)
  BY <1>5
     DEF Billing!HandleLocked, P!HandleLocked, Billing!Finish, P!Finish, Billing!Finished,
         P!Finished, Billing!NoRequest, P!NoRequest, Billing!SendLock, P!SendLock,
         Billing!LockEvent, P!LockEvent, Billing!Amount, P!Amount
<1>6. ASSUME NEW r \in Requests, Billing!HandleTooEarly(r)
      PROVE  P!HandleTooEarly(r)
  BY <1>6
     DEF Billing!HandleTooEarly, P!HandleTooEarly, Billing!Finish, P!Finish,
         Billing!Finished, P!Finished, Billing!NoRequest, P!NoRequest
<1>7. ASSUME NEW r \in Requests, Billing!HandlerFails(r)
      PROVE  P!HandlerFails(r)
  BY <1>7
     DEF Billing!HandlerFails, P!HandlerFails, Billing!Goto, P!Goto, Billing!Finish,
         P!Finish, Billing!Finished, P!Finished, Billing!NoRequest, P!NoRequest,
         Billing!update_state_manager_fiat, P!update_state_manager_fiat,
         Billing!SettleEvent, P!SettleEvent, Billing!Amount, P!Amount
<1>8. ASSUME NEW r \in Requests, Billing!HandlerSucceeds(r)
      PROVE  P!HandlerSucceeds(r)
  BY <1>8
     DEF Billing!HandlerSucceeds, P!HandlerSucceeds, Billing!Billed, P!Billed,
         Billing!ChatUsage, P!ChatUsage, Billing!CompletionsUsage, P!CompletionsUsage,
         Billing!EmbeddingsUsage, P!EmbeddingsUsage, Billing!ImageUsage, P!ImageUsage,
         Billing!Finish, P!Finish, Billing!Finished, P!Finished, Billing!NoRequest,
         P!NoRequest, Billing!update_state_manager_fiat, P!update_state_manager_fiat,
         Billing!SettleEvent, P!SettleEvent, Billing!Amount, P!Amount
<1>9. ASSUME NEW r \in Requests, Billing!handle_streaming_response(r)
      PROVE  P!handle_streaming_response(r)
  BY <1>9
     DEF Billing!handle_streaming_response, P!handle_streaming_response, Billing!Goto,
         P!Goto
<1>10. ASSUME NEW r \in Requests, Billing!handle_final_chunk(r)
      PROVE  P!handle_final_chunk(r)
  BY <1>10
     DEF Billing!handle_final_chunk, P!handle_final_chunk, Billing!Finish, P!Finish,
         Billing!Finished, P!Finished, Billing!NoRequest, P!NoRequest,
         Billing!update_state_manager_fiat, P!update_state_manager_fiat,
         Billing!SettleEvent, P!SettleEvent, Billing!Amount, P!Amount
<1>11. ASSUME NEW r \in Requests, Billing!DropStreamer(r)
      PROVE  P!DropStreamer(r)
  BY <1>11
     DEF Billing!DropStreamer, P!DropStreamer, Billing!Finish, P!Finish, Billing!Finished,
         P!Finished, Billing!NoRequest, P!NoRequest, Billing!update_state_manager_fiat,
         P!update_state_manager_fiat, Billing!SettleEvent, P!SettleEvent, Billing!Amount,
         P!Amount
<1>12. CASE Billing!lock_user_fiat_balance
  <2>1. P!lock_user_fiat_balance
    BY <1>12
       DEF Billing!lock_user_fiat_balance, P!lock_user_fiat_balance, Billing!CanLock,
           P!CanLock, Billing!TotalAmount, P!TotalAmount, Billing!LockRow, P!LockRow,
           Billing!Goto, P!Goto, Billing!Finish, P!Finish, Billing!Finished, P!Finished,
           Billing!NoRequest, P!NoRequest
  <2>2. QED
    BY <2>1 DEF P!Next, P!StateManagerStep
<1>13. CASE Billing!UpdateStackNumTokensFiat
  <2>1. P!UpdateStackNumTokensFiat
    BY <1>13
       DEF Billing!UpdateStackNumTokensFiat, P!UpdateStackNumTokensFiat,
           Billing!update_real_amount_fiat_balance, P!update_real_amount_fiat_balance,
           Billing!SettleRow, P!SettleRow, Billing!OwnerOf, P!OwnerOf, Billing!Excess,
           P!Excess, Billing!UpdateUsage, P!UpdateUsage, Billing!ModelRow, P!ModelRow,
           Billing!DayRow, P!DayRow
  <2>2. QED
    BY <2>1 DEF P!Next, P!StateManagerStep
<1>14. CASE Billing!DatabaseError
  <2>1. P!DatabaseError
    BY <1>14
       DEF Billing!DatabaseError, P!DatabaseError, Billing!Finish, P!Finish,
           Billing!Finished, P!Finished, Billing!NoRequest, P!NoRequest,
           Billing!update_real_amount_fiat_balance, P!update_real_amount_fiat_balance,
           Billing!SettleRow, P!SettleRow, Billing!OwnerOf, P!OwnerOf, Billing!Excess,
           P!Excess, Billing!DayRow, P!DayRow
  <2>2. QED
    BY <2>1 DEF P!Next, P!StateManagerStep
<1>15. CASE Billing!Crash
  <2>1. P!Crash
    BY <1>15
       DEF Billing!Crash, P!Crash, Billing!Finished, P!Finished, Billing!NoRequest,
           P!NoRequest
  <2>2. QED
    BY <2>1 DEF P!Next, P!StateManagerStep
<1>16. ASSUME NEW u \in Users, Billing!TopUp(u) PROVE P!TopUp(u)
  BY <1>16 DEF Billing!TopUp, P!TopUp
<1>17. ASSUME NEW r \in Requests,
             \/ Billing!authenticate_and_lock_compute_units(r) \/ Billing!RejectRequest(r)
             \/ Billing!ExtractorRejects(r) \/ Billing!HandlerPanics(r)
             \/ Billing!ProxyStep(r) \/ Billing!NodeStep(r)
      PROVE  P!Next
  BY <1>17, <1>1, <1>2, <1>3, <1>4, <1>4a, <1>5, <1>6, <1>7, <1>8, <1>9, <1>10, <1>11
     DEF Billing!ProxyStep, Billing!NodeStep, P!Next, P!ProxyStep, P!NodeStep
<1>18. CASE UNCHANGED Billing!vars
  BY <1>18 DEF Billing!vars, P!vars
<1>19. QED
  BY <1>12, <1>13, <1>14, <1>15, <1>16, <1>17, <1>18
     DEF Billing!Next, Billing!StateManagerStep, P!Next

LEMMA BillingCore ==
  ASSUME P!CoreInv, [P!Next]_P!vars
  PROVE  P!CoreInv'
  BY OwnerAssumption, SomeTokens, PricesAssumption, OneMillionAssumption, BalanceAssumption,
     BoundsAssumption, P!CoreStep

LEMMA BillingCoreInit == P!Init => P!CoreInv
  BY OwnerAssumption, SomeTokens, PricesAssumption, OneMillionAssumption, BalanceAssumption,
     BoundsAssumption, P!CoreInit

LEMMA BillingEnded ==
  ASSUME P!CoreInv, [P!Next]_P!vars, NEW k \in P!Reservations, req[k[1]].pc = "done"
  PROVE  /\ req'[k[1]].pc = "done"
         /\ \A i \in 1 .. Len(queue') :
              queue'[i].key = k => \E j \in 1 .. Len(queue) : queue[j] = queue'[i]
         /\ \/ hold'[k] = hold[k]
            \/ \E j \in 1 .. Len(queue) :
                 /\ queue[j].key = k
                 /\ hold'[k] = [status |-> "settled", input |-> queue[j].input,
                                output |-> queue[j].output]
  BY OwnerAssumption, SomeTokens, PricesAssumption, OneMillionAssumption, BalanceAssumption,
     BoundsAssumption, P!EndedStays

-----------------------------------------------------------------------------
(* The Streamer and billing, step by step.                                 *)

(* The Streamer has the metadata that billing has for the request. *)
AskedInv == asked \in P!Request /\ (req[R].pc = "streaming" => asked = req[R])

(* The event that the settlement of the stream is. *)
Settlement == Billing!SettleEvent(R, asked, Charged(settled[1])[1], Charged(settled[1])[2])

(* After the settlement the request has ended, no other event is about its *)
(* lock, and that is still to be released or was settled as the event says. *)
SentInv ==
  settled # <<>> =>
    /\ req[R].pc = "done"
    /\ \A i \in 1 .. Len(queue) : queue[i].key = <<R, asked.attempt>> => queue[i] = Settlement
    /\ \/ hold[<<R, asked.attempt>>].status = "releasing"
       \/ hold[<<R, asked.attempt>>] = [status |-> "settled", input |-> Settlement.input,
                                        output |-> Settlement.output]

StreamInv == Inv /\ ChunkInv /\ ReportInv /\ P!CoreInv /\ AskedInv /\ SentInv

LEMMA StreamInitInv == StreamInit => StreamInv
<1> SUFFICES ASSUME StreamInit PROVE StreamInv
  OBVIOUS
<1>1. Inv
  BY InitInv DEF StreamInit
<1>2. ChunkInv /\ ReportInv /\ SentInv
  BY MaxChunksAssumption DEF StreamInit, Init, ChunkInv, ReportInv, SentInv
<1>3. P!CoreInv
  BY SameInit, BillingCoreInit DEF StreamInit
<1>4. AskedInv
  <2>1. asked = Billing!NoRequest /\ req[R] = Billing!NoRequest
    BY RequestAssumption DEF StreamInit, Billing!Init
  <2>2. Billing!NoRequest \in P!Request
    BY DEF Billing!NoRequest, P!Request, P!PCs, P!Endpoints
  <2>3. QED
    BY <2>1, <2>2 DEF AskedInv
<1>5. QED
  BY <1>1, <1>2, <1>3, <1>4 DEF StreamInv

(* Every step is one of the Streamer, or none. *)
LEMMA StreamerNext == [StreamNext]_all => [Next]_vars
  BY DEF StreamNext, StreamStep, ProcessStops, BillingStep, Next, all

(* A step of the stream leaves billing alone, or it sends the first        *)
(* settlement of a request that is streaming.                              *)
LEMMA StreamSends ==
  ASSUME StreamInv, StreamStep
  PROVE  \/ settled' = settled /\ UNCHANGED billing
         \/ /\ settled = <<>> /\ req[R].pc = "streaming" /\ asked = req[R]
            /\ settled' = <<settled'[1]>> /\ settled'[1].events = generated
            /\ settled'[1].charge \in Usages \cup {Estimate}
            /\ Send(settled'[1])
<1>1. CASE settled' = settled
  BY <1>1 DEF StreamStep
<1>2. CASE settled' # settled
  <2>1. Inv /\ Next
    BY DEF StreamInv, StreamStep
  <2>2. PICK c \in Usages \cup {Estimate} :
          settled = <<>> /\ manager /\ settled' = <<[charge |-> c, events |-> generated]>>
    BY <1>2, <2>1, SendsOnce
  <2>3. Len(settled') = 1 /\ settled'[1] = [charge |-> c, events |-> generated]
    BY <2>2
  <2>4. Send(settled'[1])
    BY <1>2, <2>3 DEF StreamStep
  <2>5. req[R].pc = "streaming"
    BY <2>2 DEF StreamStep, Begun
  <2>6. QED
    BY <2>2, <2>3, <2>4, <2>5 DEF StreamInv, AskedInv
<1>3. QED
  BY <1>1, <1>2

(* What the Streamer charges are counts that billing knows. *)
LEMMA ChargedTokens ==
  ASSUME StreamInv, NEW s, s.charge \in Usages \cup {Estimate}, s.events = generated
  PROVE  /\ s.charge \in Usages =>
              /\ Charged(s) = <<PromptTokens[s.charge], CompletionTokens[s.charge]>>
              /\ Charged(s) \in Tokens \X Tokens
         /\ s.charge = Estimate =>
              Charged(s) = <<asked.est_input, generated>> /\ generated \in Tokens
<1>1. generated \in 0 .. MaxChunks
  BY MaxChunksAssumption DEF StreamInv, Inv, KillInv, TypeOK, ChunkInv
<1>2. QED
  BY <1>1, TokensAssumption, ReportsAssumption, UsageAssumption
     DEF Charged, ReportedTokens, DroppedTokens

(* Every step is one of billing, or none. *)
LEMMA BillingNext == StreamInv /\ [StreamNext]_all => [Billing!Next]_Billing!vars
<1> SUFFICES ASSUME StreamInv, [StreamNext]_all PROVE [Billing!Next]_Billing!vars
  OBVIOUS
<1>1. CASE StreamStep
  <2>1. CASE settled' = settled /\ UNCHANGED billing
    BY <2>1 DEF billing, Billing!vars
  <2>2. CASE /\ req[R].pc = "streaming" /\ asked = req[R] /\ settled'[1].events = generated
             /\ settled'[1].charge \in Usages \cup {Estimate} /\ Send(settled'[1])
    <3> DEFINE s == settled'[1]
    <3>1. CASE s.charge \in Usages
      <4>1. Charged(s) \in Tokens \X Tokens
        BY <2>2, <3>1, ChargedTokens
      <4>2. Billing!handle_final_chunk(R)
        BY <2>2, <4>1 DEF Send, Billing!handle_final_chunk
      <4>3. QED
        BY <4>2, RequestAssumption DEF Billing!Next, Billing!NodeStep
    <3>2. CASE s.charge = Estimate
      <4>1. Charged(s) = <<asked.est_input, generated>> /\ generated \in Tokens
        BY <2>2, <3>2, ChargedTokens
      <4>2. Charged(s)[1] = req[R].est_input /\ Charged(s)[2] = generated
        BY <2>2, <4>1
      <4>3. Billing!DropStreamer(R)
        BY <2>2, <4>1, <4>2 DEF Send, Billing!DropStreamer
      <4>4. QED
        BY <4>3, RequestAssumption DEF Billing!Next, Billing!NodeStep
    <3>3. QED
      BY <2>2, <3>1, <3>2
  <2>3. QED
    BY <1>1, <2>1, <2>2, StreamSends
<1>2. CASE ProcessStops
  BY <1>2 DEF ProcessStops, Billing!Next
<1>3. CASE BillingStep
  BY <1>3 DEF BillingStep
<1>4. CASE UNCHANGED all
  BY <1>4 DEF all, billing, Billing!vars
<1>5. QED
  BY <1>1, <1>2, <1>3, <1>4 DEF StreamNext

LEMMA AskedStep == StreamInv /\ [StreamNext]_all => AskedInv'
<1> SUFFICES ASSUME StreamInv, [StreamNext]_all PROVE AskedInv'
  OBVIOUS
<1>1. P!CoreInv /\ P!CoreInv' /\ AskedInv
  BY BillingNext, SameNext, BillingCore DEF StreamInv
<1>2. req[R] \in P!Request /\ req'[R] \in P!Request /\ req \in [Requests -> P!Request]
  BY <1>1, RequestAssumption DEF P!CoreInv, P!TypeOK
<1>3. CASE StreamStep
  <2>1. CASE UNCHANGED billing
    BY <1>1, <1>3, <2>1 DEF AskedInv, StreamStep, billing
  <2>2. CASE Send(settled'[1])
    <3>1. req'[R].pc = "done"
      BY <1>2, <2>2, RequestAssumption
         DEF Send, Billing!Finish, Billing!Finished, Billing!NoRequest
    <3>2. QED
      BY <1>1, <1>3, <3>1 DEF AskedInv, StreamStep
  <2>3. QED
    BY <1>3, <2>1, <2>2, StreamSends
<1>4. CASE ProcessStops
  <2>1. req'[R].pc # "streaming"
    BY <1>4, RequestAssumption
       DEF ProcessStops, Billing!Crash, Billing!Finished, Billing!NoRequest
  <2>2. QED
    BY <1>1, <1>4, <2>1 DEF AskedInv, ProcessStops
<1>5. CASE BillingStep
  BY <1>1, <1>2, <1>5 DEF AskedInv, BillingStep
<1>6. CASE UNCHANGED all
  BY <1>1, <1>6 DEF AskedInv, all, billing
<1>7. QED
  BY <1>3, <1>4, <1>5, <1>6 DEF StreamNext

(* The settlement enters a channel that has no event about the lock. *)
LEMMA SentFirst ==
  ASSUME StreamInv, StreamStep, settled = <<>>, settled' # <<>>
  PROVE  SentInv'
<1> DEFINE k == <<R, asked.attempt>>
<1>1. /\ req[R].pc = "streaming" /\ asked = req[R] /\ asked' = asked
      /\ settled' = <<settled'[1]>> /\ Send(settled'[1])
  BY StreamSends DEF StreamStep
<1>2. P!TypeOK /\ P!RequestAgrees(R) /\ P!QueueAgrees
  BY RequestAssumption DEF StreamInv, P!CoreInv
<1>3. /\ queue \in Seq(P!Event) /\ req \in [Requests -> P!Request]
      /\ hold \in [P!Reservations -> P!Hold] /\ k \in P!Reservations
  BY <1>1, <1>2, RequestAssumption DEF P!TypeOK, P!Request, P!Reservations
<1>4. req'[R].pc = "done"
  BY <1>1, <1>3, RequestAssumption
     DEF Send, Billing!Finish, Billing!Finished, Billing!NoRequest
<1>5. hold'[k].status = "releasing"
  BY <1>1, <1>3 DEF Send, Billing!update_state_manager_fiat, P!Hold
<1>6. hold[k].status = "held"
  BY <1>1, <1>2 DEF P!RequestAgrees
<1>7. ASSUME NEW i \in 1 .. Len(queue) PROVE queue[i].key # k
  <2>1. P!EventAgrees(queue[i])
    BY <1>2 DEF P!QueueAgrees
  <2>2. CASE queue[i].key = k
    BY <1>1, <1>6, <2>1, <2>2 DEF P!EventAgrees
  <2>3. QED
    BY <2>2
<1>8. Settlement' = Billing!SettleEvent(R, req[R], Charged(settled'[1])[1],
                                        Charged(settled'[1])[2])
  BY <1>1 DEF Settlement, Charged, ReportedTokens, DroppedTokens, Billing!SettleEvent,
              Billing!Amount
<1>9. queue' = Append(queue, Settlement')
  BY <1>1, <1>8 DEF Send, Billing!update_state_manager_fiat
<1>10. ASSUME NEW i \in 1 .. Len(queue'), queue'[i].key = k PROVE queue'[i] = Settlement'
  <2>1. /\ Len(queue') = Len(queue) + 1 /\ Len(queue) \in Nat
        /\ \A j \in 1 .. Len(queue) : queue'[j] = queue[j]
        /\ queue'[Len(queue) + 1] = Settlement'
    BY <1>3, <1>9
  <2>2. QED
    BY <1>7, <1>10, <2>1
<1>11. QED
  BY <1>1, <1>4, <1>5, <1>10 DEF SentInv

(* Whatever comes then, the lock is settled as the event says. *)
LEMMA SentStays ==
  ASSUME StreamInv, [StreamNext]_all, settled # <<>>
  PROVE  SentInv'
<1> DEFINE k == <<R, asked.attempt>>
<1>1. settled' = settled
  BY StreamerNext, SendsOnce DEF StreamInv
<1>2. [P!Next]_P!vars /\ P!CoreInv
  BY BillingNext, SameNext DEF StreamInv
<1>3. k \in P!Reservations /\ k[1] = R
  BY RequestAssumption DEF StreamInv, AskedInv, P!Request, P!Reservations
<1>4. req[k[1]].pc = "done"
  BY <1>3 DEF StreamInv, SentInv
<1>5. /\ req'[R].pc = "done"
      /\ \A i \in 1 .. Len(queue') :
           queue'[i].key = k => \E j \in 1 .. Len(queue) : queue[j] = queue'[i]
      /\ \/ hold'[k] = hold[k]
         \/ \E j \in 1 .. Len(queue) :
              /\ queue[j].key = k
              /\ hold'[k] = [status |-> "settled", input |-> queue[j].input,
                             output |-> queue[j].output]
  BY <1>2, <1>3, <1>4, BillingEnded
<1>6. asked' = asked
  BY <1>5 DEF StreamNext, StreamStep, ProcessStops, BillingStep, all
<1>7. Settlement' = Settlement
  BY <1>1, <1>6 DEF Settlement, Charged, ReportedTokens, DroppedTokens, Billing!SettleEvent,
              Billing!Amount
<1>8. /\ \A i \in 1 .. Len(queue) : queue[i].key = k => queue[i] = Settlement
      /\ \/ hold[k].status = "releasing"
         \/ hold[k] = [status |-> "settled", input |-> Settlement.input,
                       output |-> Settlement.output]
  BY DEF StreamInv, SentInv
<1>9. \A i \in 1 .. Len(queue') : queue'[i].key = k => queue'[i] = Settlement
  BY <1>5, <1>8
<1>10. \/ hold'[k].status = "releasing"
       \/ hold'[k] = [status |-> "settled", input |-> Settlement.input,
                      output |-> Settlement.output]
  BY <1>5, <1>8
<1>11. QED
  BY <1>5, <1>6, <1>7, <1>9, <1>10 DEF SentInv

LEMMA StreamNextInv == StreamInv /\ [StreamNext]_all => StreamInv'
<1> SUFFICES ASSUME StreamInv, [StreamNext]_all PROVE StreamInv'
  OBVIOUS
<1>1. Inv' /\ ChunkInv' /\ ReportInv'
  BY StreamerNext, NextInv, ChunkStep, ReportStep DEF StreamInv
<1>2. P!CoreInv'
  BY BillingNext, SameNext, BillingCore DEF StreamInv
<1>3. AskedInv'
  BY AskedStep
<1>4. SentInv'
  <2>1. CASE settled' = <<>>
    BY <2>1 DEF SentInv
  <2>2. CASE settled # <<>>
    BY <2>2, SentStays
  <2>3. CASE settled = <<>> /\ settled' # <<>>
    <3>1. StreamStep
      BY <2>3 DEF StreamNext, ProcessStops, ManagerStops, BillingStep, all, vars
    <3>2. QED
      BY <2>3, <3>1, SentFirst
  <2>4. QED
    BY <2>1, <2>2, <2>3
<1>5. QED
  BY <1>1, <1>2, <1>3, <1>4 DEF StreamInv

LEMMA StreamAlways == StreamSpec => []StreamInv
  BY StreamInitInv, StreamNextInv, PTL DEF StreamSpec

(* The Streamer, whatever its stream is like, implements the streaming     *)
(* steps of FiatBilling, for every number of requests and chunks.          *)
THEOREM StreamsImplementBilling == StreamSpec => ImplementsBilling
<1>1. StreamInit => Billing!Init
  BY DEF StreamInit
<1>2. StreamSpec => Billing!Spec
  BY <1>1, BillingNext, StreamAlways, PTL DEF StreamSpec, Billing!Spec
<1>3. QED
  BY <1>2 DEF ImplementsBilling

LEMMA FirstOf ==
  ASSUME NEW S, NEW x \in Seq(S), x # <<>>
  PROVE  1 \in 1 .. Len(x) /\ x[1] \in S
  OBVIOUS

(* The balance is charged for a stream what the node reported, or for the  *)
(* events that the client got, whatever comes between.                     *)
THEOREM StreamsAreDebited == StreamSpec => []StreamIsDebited
<1>1. StreamInv => StreamIsDebited
  <2> SUFFICES ASSUME StreamInv, settled # <<>>, hold[<<R, asked.attempt>>].status = "settled"
               PROVE  StreamIsDebited
    BY DEF StreamIsDebited
  <2> DEFINE h == hold[<<R, asked.attempt>>]
             s == settled[1]
             Costs(input, output) ==
               /\ h.input = Billing!Amount(input, asked.price_input)
               /\ h.output = Billing!Amount(output, asked.price_output)
  <2>1. h.input = Settlement.input /\ h.output = Settlement.output
    BY DEF StreamInv, SentInv
  <2>2. Costs(Charged(s)[1], Charged(s)[2])
    BY <2>1 DEF Settlement, Billing!SettleEvent
  <2>3. s.charge \in Usages \cup {Estimate} /\ s.events = generated
    <3>1. settled \in Seq([charge : Usages \cup {Estimate}, events : Nat])
      BY DEF StreamInv, Inv, KillInv, TypeOK
    <3>2. 1 \in 1 .. Len(settled) /\ s \in [charge : Usages \cup {Estimate}, events : Nat]
      BY <3>1, FirstOf
    <3>3. QED
      BY <3>2 DEF StreamInv, Inv, CountInv
  <2>4. ASSUME done_sent, ~cut, reported \in Usages
        PROVE  Costs(PromptTokens[reported], CompletionTokens[reported])
    <3>1. s.charge = reported
      BY <2>4 DEF StreamInv, ReportInv
    <3>2. Charged(s)[1] = PromptTokens[reported] /\ Charged(s)[2] = CompletionTokens[reported]
      BY <2>3, <2>4, <3>1, ChargedTokens
    <3>3. QED
      BY <2>2, <3>2
  <2>5. ASSUME s.charge = Estimate
        PROVE  \E n \in 0 .. MaxChunks : delivered + events <= n /\ Costs(asked.est_input, n)
    <3>1. Charged(s)[1] = asked.est_input /\ Charged(s)[2] = generated
      BY <2>3, <2>5, ChargedTokens
    <3>2. generated \in 0 .. MaxChunks /\ delivered + events <= generated
      BY MaxChunksAssumption DEF StreamInv, Inv, KillInv, TypeOK, CountInv, ChunkInv
    <3>3. QED
      BY <2>2, <3>1, <3>2
  <2>6. QED
    BY <2>4, <2>5 DEF StreamIsDebited
<1>2. QED
  BY <1>1, StreamAlways, PTL

(* What is proved of billing holds with a Streamer in it: no balance is    *)
(* overdrawn but by what nodes report above their estimates, and its       *)
(* columns are the locks and the charges.                                  *)
THEOREM StreamsKeepLedger ==
  StreamSpec => [](Billing!LedgerMatchesHolds /\ Billing!NoOverdraft)
<1>1. StreamSpec => P!Spec
  <2>1. StreamInit => P!Init
    BY SameInit DEF StreamInit
  <2>2. StreamInv /\ [StreamNext]_all => [P!Next]_P!vars
    BY BillingNext, SameNext
  <2>3. QED
    BY <2>1, <2>2, StreamAlways, PTL DEF StreamSpec, P!Spec
<1>2. P!Spec => []P!LedgerMatchesHolds
  BY OwnerAssumption, SomeTokens, PricesAssumption, OneMillionAssumption, BalanceAssumption,
     BoundsAssumption, P!LedgerMatches, PTL
<1>3. P!Spec => []P!NoOverdraft
  BY OwnerAssumption, SomeTokens, PricesAssumption, OneMillionAssumption, BalanceAssumption,
     BoundsAssumption, P!NoOverdraftHolds, PTL
<1>4. P!LedgerMatchesHolds => Billing!LedgerMatchesHolds
  <2>1. \A f, S : P!SumOver(f, S) = Billing!SumOver(f, S)
    BY Zenon DEF P!SumOver, Billing!SumOver, P!Units, Billing!Units, P!Cardinality,
                 Billing!Cardinality
  <2>2. QED
    BY <2>1, Zenon
       DEF P!LedgerMatchesHolds, Billing!LedgerMatchesHolds, P!InputOf, Billing!InputOf,
           P!OutputOf, Billing!OutputOf, P!OutstandingOf, Billing!OutstandingOf, P!SettledOf,
           Billing!SettledOf, P!Outstanding, Billing!Outstanding, P!OwnerOf, Billing!OwnerOf,
           P!Reservations, Billing!Reservations
<1>5. P!NoOverdraft => Billing!NoOverdraft
  BY DEF P!NoOverdraft, Billing!NoOverdraft, P!TotalAmount, Billing!TotalAmount
<1>6. QED
  BY <1>1, <1>2, <1>3, <1>4, <1>5, PTL
=============================================================================
