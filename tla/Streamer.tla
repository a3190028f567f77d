------------------------------ MODULE Streamer ------------------------------
(***************************************************************************)
(* One streamed answer: the task that handle_streaming_response spawns     *)
(* polls the Streamer for the chunks of the node, passes events on to the  *)
(* client and settles the request's estimate when the stream ends.  The    *)
(* client reads through a ClientStreamer and may leave at any time, which  *)
(* sends the kill signal.                                                  *)
(*                                                                         *)
(* A chunk is whatever piece of the byte stream the network delivers, so   *)
(* an event, a keep-alive comment or the DONE mark may be split, or come   *)
(* glued to the next.  A data chunk is described by how it parses.         *)
(***************************************************************************)
EXTENDS Integers, Sequences

CONSTANTS
  Usages,            \* complete usage reports of a node
  NoUsage,           \* no report
  PartialUsage,      \* a report without one of the three token counts
  Estimate,          \* a settlement by the estimated input and the events passed on
  KeepAliveLen,      \* length of the keep-alive comment
  MaxChunks          \* bound on the chunks of a stream

ASSUME UsageAssumption ==
  NoUsage \notin Usages /\ PartialUsage \notin Usages /\ Estimate \notin Usages
ASSUME NoUsageAssumption == NoUsage # PartialUsage
ASSUME KeepAliveAssumption == KeepAliveLen \in Nat \ {0}
ASSUME MaxChunksAssumption == MaxChunks \in Nat

VARIABLES
  status,            \* StreamStatus
  keep_alive_pos,    \* how much of a keep-alive comment has been seen
  buffered,          \* chunk_buffer is not empty
  usage,             \* the last usage seen
  generated,         \* num_generated_tokens
  final_handled,     \* is_final_chunk_handled
  task,              \* the spawned loop
  client,            \* the ClientStreamer
  events,            \* events sent to the client and not read yet
  delivered,         \* events the client has read
  kill,              \* kill signals not received yet
  stop_sent,         \* the node was told to stop
  manager,           \* the state manager still receives events
  settled,           \* settlements sent to it
  chunks,            \* how many chunks the network has delivered
  reported,          \* history: the last usage among them
  done_sent,         \* history: the DONE mark was among them
  cut                \* history: one of them interrupted a keep-alive

streamer == <<status, keep_alive_pos, buffered, usage, generated, final_handled>>
reader == <<client, events, delivered>>
wire == <<chunks, reported, done_sent, cut>>
vars == <<streamer, task, reader, kill, stop_sent, manager, settled, wire>>

(* A chunk is a run of the keep-alive comment, from one position to        *)
(* another, or data, described by how it parses alone and after what is    *)
(* buffered.                                                               *)
Pieces == {p \in (0 .. KeepAliveLen) \X (0 .. KeepAliveLen) : p[1] < p[2]}
Data == [alone : {"done", "ok", "eof", "error"}, joined : {"ok", "eof", "error"},
         verified : BOOLEAN, usage : Usages \cup {NoUsage, PartialUsage}]

Init ==
  /\ status = "not_started" /\ keep_alive_pos = 0 /\ buffered = FALSE
  /\ usage = NoUsage /\ generated = 0 /\ final_handled = FALSE
  /\ task = "running" /\ client = "reading" /\ events = 0 /\ delivered = 0
  /\ kill = 0 /\ stop_sent = FALSE /\ manager = TRUE /\ settled = <<>>
  /\ chunks = 0 /\ reported = NoUsage /\ done_sent = FALSE /\ cut = FALSE

-----------------------------------------------------------------------------
(* The Streamer.                                                           *)

(* The task polls a stream that is not complete. *)
Polled == task = "running" /\ status # "completed"

(* How data parses: as a whole event, as the beginning of one, or not. *)
Parsed(c) == c.alone = "ok" \/ (c.alone = "error" /\ buffered /\ c.joined = "ok")
Incomplete(c) == c.alone = "eof" \/ (c.alone = "error" /\ buffered /\ c.joined = "eof")
Refused(c) ==
  \/ c.alone = "error" /\ (~buffered \/ c.joined = "error")
  \/ Parsed(c) /\ ~c.verified

(* The network delivers c to the poll. *)
Deliver(c) ==
  /\ Polled
  /\ chunks < MaxChunks
  /\ chunks' = chunks + 1
  /\ reported' = IF Parsed(c) /\ c.verified /\ c.usage # NoUsage THEN c.usage ELSE reported
  /\ done_sent' = (done_sent \/ c.alone = "done")
  /\ cut' = (cut \/ keep_alive_pos > 0)

(* It delivers a piece of a keep-alive, or bytes that are no text. *)
DeliverNoData ==
  /\ Polled
  /\ chunks < MaxChunks
  /\ chunks' = chunks + 1
  /\ UNCHANGED <<reported, done_sent, cut>>

(* The position after a piece that ends at end. *)
Advanced(end) == IF end >= KeepAliveLen THEN 0 ELSE end

(* A chunk that is a run of the keep-alive comment is swallowed: the whole *)
(* comment wherever it comes, a piece if it continues the ones before.     *)
KeepAlive ==
  /\ DeliverNoData
  /\ \E p \in Pieces :
       IF p = <<0, KeepAliveLen>>
         THEN UNCHANGED keep_alive_pos
         ELSE /\ p[1] = keep_alive_pos
              /\ keep_alive_pos' = Advanced(p[2])
  /\ status' = "started"
  /\ UNCHANGED <<buffered, usage, generated, final_handled, task, reader, kill,
                 stop_sent, manager, settled>>

(* A chunk that does not continue the comment begun before it is refused,  *)
(* whatever it is; the position stays where it was.                        *)
KeepAliveInterrupted ==
  /\ keep_alive_pos > 0
  /\ \E c \in Data : Deliver(c)
  /\ status' = "started"
  /\ UNCHANGED <<keep_alive_pos, buffered, usage, generated, final_handled, task,
                 reader, kill, stop_sent, manager, settled>>

(* Data that gets past the keep-alive check. *)
Receives(c) ==
  /\ keep_alive_pos = 0
  /\ Deliver(c)
  /\ status' = IF c.alone = "done" THEN "completed" ELSE "started"

(* Bytes that are no text (which are looked at before the keep-alive), no  *)
(* JSON, or an event whose hash or signature is wrong: the task logs the   *)
(* error and polls on.                                                     *)
ChunkRefused ==
  /\ \/ /\ DeliverNoData
        /\ status' = "started"
        /\ UNCHANGED buffered
     \/ \E c \in Data : /\ Refused(c) /\ Receives(c)
                        /\ buffered' = FALSE
  /\ UNCHANGED <<keep_alive_pos, usage, generated, final_handled, task, reader, kill,
                 stop_sent, manager, settled>>

(* An event whose hash is no base64: the task panics, and unwinding drops  *)
(* the Streamer it owns.                                                   *)
ChunkPanics ==
  /\ \E c \in Data : Parsed(c) /\ ~c.verified /\ Receives(c)
  /\ buffered' = FALSE
  /\ task' = "ended"
  /\ UNCHANGED <<keep_alive_pos, usage, generated, final_handled, reader, kill,
                 stop_sent, manager, settled>>

(* The beginning of an event is kept until the rest of it arrives. *)
ChunkBuffered ==
  /\ \E c \in Data : Incomplete(c) /\ Receives(c)
  /\ buffered' = TRUE
  /\ UNCHANGED <<keep_alive_pos, usage, generated, final_handled, task, reader, kill,
                 stop_sent, manager, settled>>

(* Mutant: the usage of the last chunk overwrites the one before, present or not. *)
NewUsage_Overwritten(c) == c.usage

(* A chunk without usage, or with a null one, leaves the last one in place. *)
NewUsage(c) == IF c.usage = NoUsage THEN usage ELSE c.usage

(* Mutant: an event put together from the buffer is not counted. *)
Counted_WholeOnly(c) == IF c.alone = "ok" THEN 1 ELSE 0

Counted(c) == 1

(* A whole event: it is counted and passed on; a client that has left is   *)
(* no reason to stop.                                                      *)
ChunkPassedOn ==
  \E c \in Data :
    /\ Parsed(c) /\ c.verified
    /\ Receives(c)
    /\ usage' = NewUsage(c)
    /\ generated' = generated + Counted(c)
    /\ buffered' = FALSE
    /\ events' = IF client = "gone" THEN events ELSE events + 1
    /\ UNCHANGED <<keep_alive_pos, final_handled, task, client, delivered, kill,
                   stop_sent, manager, settled>>

(* update_state_manager and update_state_manager_fiat fail when the state  *)
(* manager is gone.                                                        *)
Settle(charge) ==
  settled' = IF manager THEN Append(settled, [charge |-> charge, events |-> generated])
                        ELSE settled

(* Mutant: the flag is not set. *)
handle_final_chunk_Forgets ==
  IF usage \in Usages
    THEN Settle(usage) /\ UNCHANGED <<final_handled, task>>
    ELSE UNCHANGED <<settled, final_handled, task>>

(* handle_final_chunk needs all three counts of a usage.  When it succeeds *)
(* the poll returns None and the loop breaks, when it fails the loop polls *)
(* once more.                                                              *)
handle_final_chunk ==
  IF usage \in Usages
    THEN /\ Settle(usage)
         /\ final_handled' = manager
         /\ task' = IF manager THEN "ended" ELSE task
    ELSE UNCHANGED <<settled, final_handled, task>>

ChunkDone ==
  /\ \E c \in Data : c.alone = "done" /\ Receives(c)
  /\ handle_final_chunk
  /\ UNCHANGED <<keep_alive_pos, buffered, usage, generated, reader, kill, stop_sent,
                 manager>>

(* The connection breaks, or ends without the DONE mark. *)
StreamEnds ==
  /\ Polled
  /\ status' \in {"failed", "completed"}
  /\ task' = "ended"
  /\ UNCHANGED <<keep_alive_pos, buffered, usage, generated, final_handled, reader,
                 kill, stop_sent, manager, settled, wire>>

(* Mutant: a completed stream is pending for ever. *)
PollCompleted_Hangs ==
  /\ task = "running" /\ status = "completed"
  /\ UNCHANGED vars

(* The poll after a final chunk that failed. *)
PollCompleted ==
  /\ task = "running" /\ status = "completed"
  /\ task' = "ended"
  /\ UNCHANGED <<streamer, reader, kill, stop_sent, manager, settled, wire>>

(* Drop for Streamer: without a final chunk the estimated input and the    *)
(* events passed on are charged.                                           *)
DropStreamer ==
  /\ task = "ended"
  /\ task' = "dropped"
  /\ IF final_handled
       THEN UNCHANGED <<settled, status>>
       ELSE Settle(Estimate) /\ status' = "completed"
  /\ UNCHANGED <<keep_alive_pos, buffered, usage, generated, final_handled, reader,
                 kill, stop_sent, manager, wire>>

-----------------------------------------------------------------------------
(* The other branch of the loop: the kill signal.                          *)

(* The node is told to stop; the loop goes on when it answers. *)
HandleKill ==
  /\ task = "running" /\ kill > 0
  /\ kill' = kill - 1
  /\ stop_sent' = TRUE
  /\ task' = "stopping"
  /\ UNCHANGED <<streamer, reader, manager, settled, wire>>

StopAnswered ==
  /\ task = "stopping"
  /\ task' = "running"
  /\ UNCHANGED <<streamer, reader, kill, stop_sent, manager, settled, wire>>

-----------------------------------------------------------------------------
(* The client and the state manager.                                       *)

ClientReads ==
  /\ client = "reading" /\ events > 0
  /\ events' = events - 1
  /\ delivered' = delivered + 1
  /\ UNCHANGED <<streamer, task, client, kill, stop_sent, manager, settled, wire>>

(* The sender is gone with the task. *)
ClientSeesEnd ==
  /\ client = "reading" /\ events = 0 /\ task = "dropped"
  /\ client' = "done"
  /\ UNCHANGED <<streamer, task, events, delivered, kill, stop_sent, manager, settled, wire>>

(* Mutant: no signal. *)
ClientLeaves_Silently ==
  /\ client = "reading"
  /\ client' = "gone" /\ events' = 0
  /\ UNCHANGED <<streamer, task, delivered, kill, stop_sent, manager, settled, wire>>

(* Drop for ClientStreamer, before it is done. *)
ClientLeaves ==
  /\ client = "reading"
  /\ client' = "gone" /\ events' = 0
  /\ kill' = kill + 1
  /\ UNCHANGED <<streamer, task, delivered, stop_sent, manager, settled, wire>>

ManagerStops ==
  /\ manager
  /\ manager' = FALSE
  /\ UNCHANGED <<streamer, task, reader, kill, stop_sent, settled, wire>>

-----------------------------------------------------------------------------
poll_next == KeepAlive \/ KeepAliveInterrupted \/ ChunkRefused \/ ChunkPanics
               \/ ChunkBuffered \/ ChunkPassedOn \/ ChunkDone \/ StreamEnds \/ PollCompleted

Next == poll_next \/ DropStreamer \/ HandleKill \/ StopAnswered
          \/ ClientReads \/ ClientSeesEnd \/ ClientLeaves \/ ManagerStops

Spec == Init /\ [][Next]_vars

(* The runtime runs the task: a kill signal is received.  Nothing makes    *)
(* the node answer the request to stop, nor the client read, and the node  *)
(* may stall with the stream open.                                         *)
FairSpec == Spec /\ WF_vars(HandleKill) /\ WF_vars(DropStreamer \/ PollCompleted)

(* A node that does not stall: it sends or closes. *)
NodeGoesOn == WF_vars(poll_next)

-----------------------------------------------------------------------------
(* Types of the streamer, the loop, the client and the settlements.        *)
TypeOK ==
  /\ status \in {"not_started", "started", "completed", "failed"}
  /\ keep_alive_pos \in 0 .. KeepAliveLen - 1
  /\ buffered \in BOOLEAN /\ final_handled \in BOOLEAN
  /\ usage \in Usages \cup {NoUsage, PartialUsage}
  /\ generated \in Nat /\ events \in Nat /\ delivered \in Nat /\ kill \in {0, 1}
  /\ task \in {"running", "stopping", "ended", "dropped"}
  /\ client \in {"reading", "done", "gone"}
  /\ stop_sent \in BOOLEAN /\ manager \in BOOLEAN
  /\ settled \in Seq([charge : Usages \cup {Estimate}, events : Nat])
  /\ chunks \in Nat /\ reported \in Usages \cup {NoUsage, PartialUsage}
  /\ done_sent \in BOOLEAN /\ cut \in BOOLEAN

(* However the stream ends (DONE with or without a usage, a broken         *)
(* connection, a panic, a client that left, a kill in the middle), the     *)
(* estimate is settled at most once, and exactly once when the task is     *)
(* over and the state manager was there to receive it.                     *)
SettledOnce ==
  /\ Len(settled) <= 1
  /\ task = "dropped" /\ manager => Len(settled) = 1

(* A stream that delivered a complete usage and the DONE mark is charged   *)
(* exactly the last usage reported, and not the estimate, wherever its     *)
(* other events and keep-alives were split (data glued to the end of a     *)
(* split keep-alive is lost, as is all data after it).                     *)
ReportedUsageIsCharged ==
  /\ task = "dropped" /\ manager
  /\ done_sent /\ ~cut /\ reported \in Usages
  =>
    settled[1].charge = reported

(* A client never gets more events than a settlement by estimate charges:  *)
(* every event that reaches it has been counted before.                    *)
ClientGetsWhatIsCharged ==
  \A i \in 1 .. Len(settled) : delivered + events <= settled[i].events

(* A client that leaves makes the proxy tell the node to stop, unless the  *)
(* stream is over first, also when the node has stalled.                   *)
KillReachesNode == client = "gone" ~> stop_sent \/ task \in {"ended", "dropped"}

(* The task ends, and with it the reservation, as long as the node goes on *)
(* and answers when it is asked to stop: nothing else in the loop can hang. *)
StreamIsSettled ==
  NodeGoesOn => <>(task = "dropped") \/ <>[](task = "stopping")
=============================================================================
