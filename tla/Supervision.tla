----------------------------- MODULE Supervision -----------------------------
(***************************************************************************)
(* The tasks of the process, how they stop, and the loop of the state      *)
(* manager.  The loop serves three channels, of chain events, of requests  *)
(* by the HTTP handlers and of p2p events, and watches the shutdown        *)
(* signal.  Errors of the first two are logged; an error of a p2p event    *)
(* ends the loop, and with it, through the signal, the process.  The two   *)
(* HTTP servers stop when the calls they serve have ended, and a call may  *)
(* wait for its client, a node or Grafana without a timeout.               *)
(* What the loop does is shown on one table, nodes, and one node: it is    *)
(* registered by the chain and announces its address over p2p and over     *)
(* HTTP.  Chain subscriber and p2p node are external, and so are the       *)
(* channels: what happens to an event that is in a channel when the        *)
(* receiver is dropped is left open.                                       *)
(***************************************************************************)
EXTENDS Integers, Sequences, FiniteSets

CONSTANTS
  Calls,         \* slots for calls, of the HTTP servers and of the task that pings
  Kinds,         \* what the call of a slot may be
  Urls,          \* the addresses of the node
  Foreign,       \* an address that somebody else wants to register
  NoUrl,
  MaxChannel,    \* bound on the p2p events in the channel
  MaxErrors      \* bound on database errors

Servers == {"server", "service"}

AllKinds == {"nodes_create", "inference", "dashboard", "ping"}

ASSUME CallsAssumption == IsFiniteSet(Calls) /\ Kinds \in [Calls -> SUBSET AllKinds]
ASSUME UrlsAssumption == Urls # {} /\ Foreign \notin Urls /\ NoUrl \notin Urls \cup {Foreign}
ASSUME ChannelAssumption == MaxChannel \in Nat \ {0} /\ MaxErrors \in Nat

Tasks == Servers \cup {"metrics", "subscriber", "manager", "p2p"}
External == {"subscriber", "p2p"}

VARIABLES
  tasks,         \* the tasks of main: running, or how they ended
  signal,        \* the value of the shutdown channel
  exit,          \* what main returned: an error names the task
  pc, op, arg,   \* the calls, what they are, and the address that one registers
  channel,       \* the channel from the servers to the state manager
  p2p,           \* the channel of the p2p node
  registered,    \* nodes: whether the node has a row
  address,       \* nodes.public_address
  errors

process == <<tasks, signal, exit>>
calls == <<pc, op, arg>>
channels == <<channel, p2p>>
nodes == <<registered, address>>
state == <<process, calls, channels, nodes, errors>>

ProcessInit ==
  /\ tasks = [t \in Tasks |-> "running"] /\ signal = FALSE /\ exit = "none"
  /\ pc = [c \in Calls |-> "idle"] /\ op = [c \in Calls |-> "none"]
  /\ arg = [c \in Calls |-> NoUrl]
  /\ channel = <<>> /\ p2p = <<>>
  /\ registered = FALSE /\ address = NoUrl
  /\ errors = 0

Goto(c, label) == pc' = [pc EXCEPT ![c] = label]
Running(t) == exit = "none" /\ tasks[t] = "running"
Over(t) == tasks[t] # "running"

-----------------------------------------------------------------------------
(* Tasks.                                                                  *)

(* spawn_with_shutdown, external: a task that failed sets the signal. *)
Ends(t, how) ==
  /\ tasks' = [tasks EXCEPT ![t] = how]
  /\ signal' = (signal \/ how = "failed")

ctrl_c ==
  /\ exit = "none" /\ ~signal
  /\ signal' = TRUE
  /\ UNCHANGED <<tasks, exit, calls, channels, nodes, errors>>

(* Mutant: the loop goes on after the signal. *)
trigger_new_metrics_collection_task_Deaf ==
  /\ Running("metrics") /\ signal
  /\ UNCHANGED state

(* The collector of metrics sees the signal. *)
trigger_new_metrics_collection_task ==
  /\ Running("metrics") /\ signal
  /\ Ends("metrics", "ok")
  /\ UNCHANGED <<exit, calls, channels, nodes, errors>>

(* External: subscriber and p2p node stop at the signal, or fail. *)
ExternalEnds(t) ==
  /\ Running(t)
  /\ \/ signal /\ Ends(t, "ok")
     \/ ~signal /\ Ends(t, "failed")
  /\ UNCHANGED <<exit, calls, channels, nodes, errors>>

Served(c) == pc[c] \in {"idle", "ended"}
ServerOf(c) ==
  CASE op[c] \in {"nodes_create", "inference"} -> "server"
    [] op[c] = "dashboard" -> "service"
    [] OTHER -> "nobody"

(* start_server and run_proxy_service: graceful shutdown. *)
ServerStops(t) ==
  /\ Running(t) /\ signal
  /\ \A c \in Calls : ServerOf(c) = t => Served(c)
  /\ Ends(t, "ok")
  /\ UNCHANGED <<exit, calls, channels, nodes, errors>>

(* The order in which handle_tasks_results looks at the results. *)
Order == <<"metrics", "subscriber", "manager", "server", "service", "p2p">>
FirstFailed(i) ==
  tasks[Order[i]] = "failed" /\ \A j \in 1 .. i - 1 : tasks[Order[j]] # "failed"

handle_tasks_results ==
  /\ exit = "none" /\ signal /\ \A t \in Tasks : Over(t)
  /\ \/ \E i \in DOMAIN Order : FirstFailed(i) /\ exit' = Order[i]
     \/ (\A t \in Tasks : tasks[t] = "ok") /\ exit' = "ok"
  /\ UNCHANGED <<tasks, signal, calls, channels, nodes, errors>>

-----------------------------------------------------------------------------
(* Calls.                                                                  *)

Event(type, c, u) == [op |-> type, call |-> c, url |-> u]

(* Sending fails when the loop has ended. *)
SendOr(e, c, sent) ==
  IF Running("manager") THEN channel' = Append(channel, e) /\ Goto(c, sent)
  ELSE Goto(c, "ended") /\ UNCHANGED channel

(* A server takes a call, whose body is still to come; after the signal it *)
(* takes none.                                                             *)
BeginCall(c) ==
  /\ pc[c] = "idle" /\ ~signal
  /\ \E kind \in Kinds[c] \ {"ping"} :
       /\ op' = [op EXCEPT ![c] = kind]
       /\ \E u \in (IF kind = "nodes_create" THEN Urls \cup {Foreign} ELSE {NoUrl}) :
            arg' = [arg EXCEPT ![c] = u]
  /\ Goto(c, "body")
  /\ UNCHANGED <<process, channels, nodes, errors>>

(* Every 15 seconds the addresses to ping are looked up; the task sees the *)
(* signal while it sleeps.                                                 *)
BeginPing(c) ==
  /\ pc[c] = "idle" /\ ~signal /\ "ping" \in Kinds[c]
  /\ op' = [op EXCEPT ![c] = "ping"]
  /\ SendOr(Event("Get", c, NoUrl), c, "waiting")
  /\ UNCHANGED <<process, arg, p2p, nodes, errors>>

(* The client has sent its body, or has left.  A call asks the state       *)
(* manager first, nodes_create for the address that the chain knows,       *)
(* others for a stack or a token; the graphs come from Grafana alone.      *)
BodyArrives(c) ==
  /\ pc[c] = "body" /\ exit = "none"
  /\ \/ SendOr(Event("Get", c, NoUrl), c, "waiting")
     \/ op[c] = "dashboard" /\ Goto(c, "outside") /\ UNCHANGED channel
     \/ Goto(c, "ended") /\ UNCHANGED channel
  /\ UNCHANGED <<process, op, arg, p2p, nodes, errors>>

(* The signer of the address is who the chain registered. *)
SignedByOwner(u) == u \in Urls

(* nodes_create: the address is sent to be stored. *)
nodes_create(c) ==
  /\ pc[c] = "answered" /\ op[c] = "nodes_create"
  /\ IF SignedByOwner(arg[c])
       THEN SendOr(Event("UpsertNodePublicAddress", c, arg[c]), c, "replying")
       ELSE Goto(c, "ended") /\ UNCHANGED channel
  /\ UNCHANGED <<process, op, arg, p2p, nodes, errors>>

(* The answer is all that other calls of the dashboard need. *)
Answered(c) ==
  /\ pc[c] = "answered" /\ op[c] = "dashboard" /\ exit = "none"
  /\ Goto(c, "replying")
  /\ UNCHANGED <<process, op, arg, channels, nodes, errors>>

(* A round of pings, each of which has a timeout. *)
Pinged(c) ==
  /\ pc[c] = "answered" /\ op[c] = "ping" /\ exit = "none"
  /\ Goto(c, "ended")
  /\ UNCHANGED <<process, op, arg, channels, nodes, errors>>

(* An inference goes to a node. *)
CallNode(c) ==
  /\ pc[c] = "answered" /\ op[c] = "inference" /\ exit = "none"
  /\ Goto(c, "outside")
  /\ UNCHANGED <<process, op, arg, channels, nodes, errors>>

(* The node answers.  Its handler sends the settlement, and awaits nothing; *)
(* the panic of a handler and a confidential image send none.              *)
NodeAnswers(c) ==
  /\ pc[c] = "outside" /\ op[c] = "inference" /\ exit = "none"
  /\ \/ SendOr(Event("UpdateStackNumTokens", c, NoUrl), c, "replying")
     \/ Goto(c, "replying") /\ UNCHANGED channel
  /\ UNCHANGED <<process, op, arg, p2p, nodes, errors>>

(* Grafana answers, to a client that was built without a timeout. *)
GrafanaAnswers(c) ==
  /\ pc[c] = "outside" /\ op[c] = "dashboard" /\ exit = "none"
  /\ Goto(c, "replying")
  /\ UNCHANGED <<process, op, arg, channels, nodes, errors>>

(* The client has read the reply, or has left. *)
ClientTakes(c) ==
  /\ pc[c] = "replying" /\ exit = "none"
  /\ Goto(c, "ended")
  /\ UNCHANGED <<process, op, arg, channels, nodes, errors>>

-----------------------------------------------------------------------------
(* External: the p2p network.                                              *)

(* An announcement may be an old one that arrives late.  Whoever asks for  *)
(* an ownership check may have gone.                                       *)
P2pEvent ==
  /\ Running("p2p") /\ Running("manager") /\ Len(p2p) < MaxChannel
  /\ \/ \E u \in Urls : p2p' = Append(p2p, [type |-> "metrics", url |-> u])
     \/ \E who \in {"waits", "gone"} : p2p' = Append(p2p, [type |-> "verify", url |-> who])
  /\ UNCHANGED <<process, calls, channel, nodes, errors>>

-----------------------------------------------------------------------------
(* The loop of the state manager.                                          *)

(* A chain event, from a channel that may hold events when the subscriber  *)
(* has ended: the one that registers the node counts here.  An error, as   *)
(* of a second registration, is logged and changes nothing.                *)
handle_node_registration_event ==
  /\ Running("manager") /\ ~registered
  /\ registered' = TRUE
  /\ UNCHANGED <<process, calls, channels, address, errors>>

Waits(e) == e.op = "Get"

(* The loop ends.  Of what its channels hold, only the events that somebody *)
(* waits for make a difference any more.                                   *)
ManagerEnds(how) ==
  /\ Ends("manager", how)
  /\ channel' = SelectSeq(channel, Waits) /\ p2p' = <<>>
  /\ UNCHANGED <<exit, calls, nodes>>

(* All senders of chain events are gone. *)
SubscriberGone ==
  /\ Running("manager") /\ Over("subscriber")
  /\ ManagerEnds("ok") /\ UNCHANGED errors

Take == channel' = Tail(channel)

(* Mutant: a node that is not registered yet is looked for again. *)
HandleRequest_Retries ==
  LET e == Head(channel) IN
  /\ Running("manager") /\ channel # <<>> /\ e.op = "Get"
  /\ IF op[e.call] = "nodes_create" /\ ~registered
       THEN channel' = Append(Tail(channel), e) /\ UNCHANGED pc
       ELSE Take /\ Goto(e.call, "answered")
  /\ UNCHANGED <<process, op, arg, p2p, nodes, errors>>

(* An event with an answer: nodes_create finds nothing while the node is   *)
(* not registered.                                                         *)
HandleRequest ==
  LET e == Head(channel) IN
  /\ Running("manager") /\ channel # <<>> /\ e.op = "Get"
  /\ Take
  /\ Goto(e.call, IF op[e.call] = "nodes_create" /\ ~registered THEN "ended" ELSE "answered")
  /\ UNCHANGED <<process, op, arg, p2p, nodes, errors>>

HandleSettlement ==
  LET e == Head(channel) IN
  /\ Running("manager") /\ channel # <<>> /\ e.op = "UpdateStackNumTokens"
  /\ Take
  /\ UNCHANGED <<process, calls, p2p, nodes, errors>>

(* Mutant: an address is stored once. *)
update_node_public_address_Once(u) ==
  address' = IF registered /\ address = NoUrl THEN u ELSE address

(* The UPDATE finds the row or does nothing. *)
update_node_public_address(u) == address' = IF registered THEN u ELSE address

HandleUpsert ==
  LET e == Head(channel) IN
  /\ Running("manager") /\ channel # <<>> /\ e.op = "UpsertNodePublicAddress"
  /\ Take
  /\ update_node_public_address(e.url)
  /\ UNCHANGED <<process, calls, p2p, registered, errors>>

(* A statement of a request fails: the error is logged, and a caller that  *)
(* waits gets it, or sees its channel closed.                              *)
RequestFails ==
  LET e == Head(channel) IN
  /\ Running("manager") /\ channel # <<>> /\ errors < MaxErrors
  /\ errors' = errors + 1
  /\ Take
  /\ IF Waits(e) THEN Goto(e.call, "ended") ELSE UNCHANGED pc
  /\ UNCHANGED <<process, op, arg, p2p, nodes>>

P2pPending(type) == Running("manager") /\ p2p # <<>> /\ Head(p2p).type = type

(* The metrics are passed on to the collector, then the address is stored. *)
handle_node_metrics_registration_event ==
  /\ P2pPending("metrics") /\ ~Over("metrics")
  /\ p2p' = Tail(p2p)
  /\ update_node_public_address(Head(p2p).url)
  /\ UNCHANGED <<process, calls, channel, registered, errors>>

(* The answer to an ownership check, right or wrong, is sent. *)
handle_node_small_id_ownership_verification_event ==
  /\ P2pPending("verify") /\ Head(p2p).url = "waits"
  /\ p2p' = Tail(p2p)
  /\ UNCHANGED <<process, calls, channel, nodes, errors>>

(* The error of a p2p event ends the loop: the collector of metrics has    *)
(* gone, whoever asked has gone, or the UPDATE failed.                     *)
handle_p2p_event ==
  /\ \/ P2pPending("metrics") /\ Over("metrics") /\ UNCHANGED errors
     \/ P2pPending("verify") /\ Head(p2p).url = "gone" /\ UNCHANGED errors
     \/ P2pPending("metrics") /\ errors < MaxErrors /\ errors' = errors + 1
  /\ ManagerEnds("failed")

ManagerLoopStops ==
  /\ Running("manager") /\ signal
  /\ ManagerEnds("ok") /\ UNCHANGED errors

(* External: an event that was left in the channel may be dropped, and     *)
(* with it the channel of its answer.                                      *)
LeftEventDropped ==
  /\ Over("manager") /\ exit = "none" /\ channel # <<>>
  /\ Take /\ Goto(Head(channel).call, "ended")
  /\ UNCHANGED <<process, op, arg, p2p, nodes, errors>>

-----------------------------------------------------------------------------
CallStep(c) == nodes_create(c) \/ Answered(c) \/ Pinged(c) \/ CallNode(c)
OutsideStep(c) == BodyArrives(c) \/ NodeAnswers(c) \/ GrafanaAnswers(c) \/ ClientTakes(c)
RequestBranch == HandleRequest \/ HandleSettlement \/ HandleUpsert
P2pBranch ==
  \/ handle_node_metrics_registration_event
  \/ handle_node_small_id_ownership_verification_event
  \/ handle_p2p_event
StopStep ==
  \/ trigger_new_metrics_collection_task
  \/ \E t \in Servers : ServerStops(t)
  \/ SubscriberGone \/ ManagerLoopStops
  \/ handle_tasks_results

ProcessNext ==
  \/ ctrl_c \/ StopStep
  \/ \E t \in External : ExternalEnds(t)
  \/ \E c \in Calls : BeginCall(c) \/ BeginPing(c) \/ CallStep(c) \/ OutsideStep(c)
  \/ P2pEvent
  \/ handle_node_registration_event \/ RequestBranch \/ P2pBranch
  \/ RequestFails \/ LeftEventDropped

ProcessSpec == ProcessInit /\ [][ProcessNext]_state

(* The runtime runs the tasks, and select! takes every branch that stays   *)
(* ready at some time; subscriber and p2p node are assumed to heed the     *)
(* signal.  Nothing makes a client, a node, Grafana or the network act: no *)
(* call to them and no connection of a server has a timeout.  A task       *)
(* stops once, and a call makes a step once: fairness of the disjunction   *)
(* is fairness of each.                                                    *)
ProcessFairSpec ==
  /\ ProcessSpec
  /\ WF_state(StopStep \/ \E t \in External : signal /\ ExternalEnds(t))
  /\ WF_state(\E c \in Calls : CallStep(c))
  /\ WF_state(RequestBranch) /\ WF_state(P2pBranch)

-----------------------------------------------------------------------------
Labels == {"idle", "body", "waiting", "answered", "outside", "replying", "ended"}
Ops == {"Get", "UpsertNodePublicAddress", "UpdateStackNumTokens"}
AllUrls == Urls \cup {Foreign, NoUrl}

(* Types of tasks, calls, channels and the table. *)
ProcessTypeOK ==
  /\ tasks \in [Tasks -> {"running", "ok", "failed"}] /\ signal \in BOOLEAN
  /\ exit \in Tasks \cup {"none", "ok"}
  /\ pc \in [Calls -> Labels]
  /\ op \in [Calls -> AllKinds \cup {"none"}]
  /\ arg \in [Calls -> AllUrls]
  /\ channel \in Seq([op : Ops, call : Calls, url : AllUrls])
  /\ Len(p2p) <= MaxChannel
  /\ registered \in BOOLEAN /\ address \in Urls \cup {NoUrl}
  /\ errors \in 0 .. MaxErrors

(* An event that is in the channel of a loop that has ended. *)
LeftBehind(c) == pc[c] = "waiting" /\ Over("manager")

(* Whoever waits for the state manager gets an answer or an error, whatever *)
(* statement fails, unless the loop ends with the event in its channel.    *)
CallsEnd ==
  \A c \in Calls : pc[c] = "waiting" ~> (pc[c] # "waiting" \/ LeftBehind(c) \/ exit # "none")

(* The call of a server that waits for somebody outside the process. *)
WaitsOutside(c) == pc[c] \in {"body", "outside", "replying"}

(* After a failure of any task, or ctrl-c, the process ends, unless a      *)
(* server waits for ever for a call: one whose client does not send or     *)
(* read, whose node or Grafana never answers, or whose event was left in   *)
(* the channel.  Nothing within the process, in whatever order its tasks   *)
(* fail and stop, keeps it from ending.                                    *)
ProcessEnds ==
  <>signal =>
    \/ <>(exit # "none")
    \/ \E c \in Calls : <>[](WaitsOutside(c) \/ (op[c] # "ping" /\ LeftBehind(c)))

Announced(u) ==
  /\ \A i \in DOMAIN p2p : p2p[i].type = "metrics" => p2p[i].url = u
  /\ \A i \in DOMAIN channel : channel[i].op = "UpsertNodePublicAddress" => channel[i].url = u

(* A node that stays at an address and keeps announcing it is found there, *)
(* once late announcements of other addresses have run out: there is no    *)
(* order among announcements, the last one handled counts.                 *)
AddressConverges ==
  \A u \in Urls :
    <>[](registered /\ Announced(u)) /\ []<><<handle_node_metrics_registration_event>>_state
      => <>[](address = u)
=============================================================================
