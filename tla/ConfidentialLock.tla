-------------------------- MODULE ConfidentialLock --------------------------
(***************************************************************************)
(* Compute units of confidential requests.  A client first locks units of  *)
(* a stack (POST /v1/nodes/lock): they are reserved in the table stacks    *)
(* and remembered, with an expiry, in the map stack_locked_compute_units   *)
(* of the proxy.  A confidential request is let through when it finds a    *)
(* lock of its stack that is large enough, which it consumes; expired      *)
(* locks are pruned, and their units given back, when somebody looks.      *)
(* The model is about one user and one task.  A member of Locks is a slot  *)
(* for a lock, from the call that asks for it until its units are given    *)
(* back; a member of Requests is a slot for a confidential request.        *)
(* Payment for a stack is in StackAcquisition, the keys are in NodeKeys.   *)
(***************************************************************************)
EXTENDS Integers, Sequences, Sums

CONSTANTS
  Locks, Requests,  \* slots
  NoLock,           \* nobody buys
  Tokens,           \* max_num_tokens and num_compute_units a client may name
  Default,          \* MAX_NUM_TOKENS_FOR_CONFIDENTIAL_COMPUTE
  StackSize,        \* STACK_SIZE_TO_BUY
  MaxStacks,        \* bound on the stacks bought
  MaxUse,           \* bound on the tokens a node reports
  MaxErrors,        \* bound on database errors
  MaxCrashes        \* bound on crashes of the proxy

ASSUME SlotsAssumption ==
  /\ IsFiniteSet(Locks) /\ IsFiniteSet(Requests)
  /\ Locks \cap Requests = {} /\ NoLock \notin Locks
ASSUME UnitsAssumption ==
  /\ Tokens \subseteq Nat /\ Default \in Nat \ {0}
  /\ StackSize \in Nat /\ Default <= StackSize
ASSUME BoundsAssumption ==
  MaxStacks \in Nat /\ MaxUse \in Nat /\ MaxErrors \in Nat /\ MaxCrashes \in Nat

Stacks == 1 .. MaxStacks
NoStack == 0
Slots == Locks \cup Requests
Endpoints == {"chat", "embeddings", "images"}
NoEndpoint == "none"

VARIABLES
  pc,            \* where the task of a slot is
  stack,         \* the stack of a lock or of a request
  units,         \* max_num_tokens of a lock, num_compute_units of a request
  endpoint,      \* what a request asks for
  expired,       \* locks whose expires_at is in the past
  buyer,         \* users_buy_stack_lock_map
  bought,        \* how many stacks were bought on chain
  rows,          \* which of them have a row in the table stacks
  computed,      \* already_computed_units of a row
  locked,        \* locked_compute_units of a row
  closed,        \* is_locked or is_claimed
  queue,         \* the channel to the state manager
  stranded,      \* history: locked units that nothing will give back
  unbacked,      \* history: units in memory that the row never had locked
  errors,        \* how many database errors there were
  crashes        \* how often the proxy stopped

slots == <<pc, stack, units, endpoint, expired>>
table == <<rows, computed, locked, closed>>
history == <<stranded, unbacked>>
faults == <<errors, crashes>>
vars == <<slots, buyer, bought, table, queue, history, faults>>

Init ==
  /\ pc = [k \in Slots |-> "idle"]
  /\ stack = [k \in Slots |-> NoStack]
  /\ units = [k \in Slots |-> 0]
  /\ endpoint = [k \in Slots |-> NoEndpoint]
  /\ expired = {}
  /\ buyer = NoLock /\ bought = 0
  /\ rows = {} /\ closed = {}
  /\ computed = [s \in Stacks |-> 0]
  /\ locked = [s \in Stacks |-> 0]
  /\ queue = <<>>
  /\ stranded = [s \in Stacks |-> 0]
  /\ unbacked = [s \in Stacks |-> 0]
  /\ errors = 0 /\ crashes = 0

Goto(k, label) == pc' = [pc EXCEPT ![k] = label]

(* The task of a slot is over, and its local variables are gone. *)
Reset(k) ==
  /\ stack' = [stack EXCEPT ![k] = NoStack]
  /\ units' = [units EXCEPT ![k] = 0]
  /\ endpoint' = [endpoint EXCEPT ![k] = NoEndpoint]
End(k) == Goto(k, "idle") /\ Reset(k)

Event(op, k, s, used) == [op |-> op, k |-> k, s |-> s, used |-> used]
Strand(s, n) == stranded' = [stranded EXCEPT ![s] = @ + n]

(* stack_locked_compute_units: the locks that are in memory. *)
Held == {l \in Locks : pc[l] = "held"}
HeldOf(s) == {l \in Held : stack[l] = s}

-----------------------------------------------------------------------------
(* Pruning.  The heap is ordered by expiry, so every expired lock is found *)
(* before one that is not.  The release of a lock is sent to the state     *)
(* manager before the lock is popped.                                      *)

Orders(S) == {f \in [1 .. Cardinality(S) -> S] : \A i, j \in DOMAIN f : f[i] = f[j] => i = j}

Releases(order) ==
  [i \in DOMAIN order |-> Event("UpdateStackNumTokens", order[i], stack[order[i]], 0)]

(* Mutant: the comparison that ends the loop is inverted. *)
Prunable_Inverted(S) == IF S \cap expired = {} THEN S ELSE {}

Prunable(S) == S \cap expired

-----------------------------------------------------------------------------
(* POST /v1/nodes/lock.                                                    *)

(* nodes_create_lock up to its first event: the expired locks of every     *)
(* stack are pruned, then a stack with room is asked for.                  *)
nodes_create_lock(l) ==
  /\ pc[l] = "idle"
  /\ \E max_num_tokens \in Tokens : units' = [units EXCEPT ![l] = max_num_tokens]
  /\ LET pruned == UNION {Prunable(HeldOf(s)) : s \in Stacks} IN
     /\ \E order \in Orders(pruned) :
          queue' = queue \o Releases(order)
                     \o <<Event("SelectNodePublicKeyForEncryption", l, NoStack, 0)>>
     /\ pc' = [k \in Slots |-> IF k = l THEN "selecting"
                               ELSE IF k \in pruned THEN "releasing" ELSE pc[k]]
     /\ expired' = expired \ pruned
  /\ UNCHANGED <<stack, endpoint, buyer, bought, table, history, faults>>

(* lock_compute_units_in_memory, for the stack the state manager chose. *)
lock_compute_units_in_memory(l) ==
  /\ pc[l] = "selected"
  /\ Goto(l, "held")
  /\ UNCHANGED <<stack, units, endpoint, expired, buyer, bought, table, queue, history, faults>>

(* Mutant: the call waits for the one that buys. *)
try_lock_Waits(l) ==
  /\ pc[l] = "no_stack" /\ buyer = NoLock
  /\ \/ buyer' = l /\ Goto(l, "buying") /\ UNCHANGED <<stack, units, endpoint>>
     \/ End(l) /\ UNCHANGED buyer
  /\ UNCHANGED <<expired, bought, table, queue, history, faults>>

(* No stack has room.  A node is found or not, and the buy lock is free or *)
(* taken: get_stack_if_locked refuses the path of this endpoint, so that a *)
(* call that does not get the lock always fails.                           *)
try_lock(l) ==
  /\ pc[l] = "no_stack"
  /\ \/ buyer = NoLock /\ buyer' = l /\ Goto(l, "buying") /\ UNCHANGED <<stack, units, endpoint>>
     \/ End(l) /\ UNCHANGED buyer
  /\ UNCHANGED <<expired, bought, table, queue, history, faults>>

(* acquire_new_stack: the stack is bought and sent to be stored ... *)
acquire_new_stack(l) ==
  /\ pc[l] = "buying" /\ bought < MaxStacks
  /\ bought' = bought + 1
  /\ stack' = [stack EXCEPT ![l] = bought + 1]
  /\ queue' = Append(queue, Event("NewStackAcquired", l, bought + 1, 0))
  /\ Goto(l, "storing")
  /\ UNCHANGED <<units, endpoint, expired, buyer, table, history, faults>>

(* ... or the purchase fails, which drops the guard. *)
PurchaseFails(l) ==
  /\ pc[l] = "buying"
  /\ buyer' = NoLock
  /\ End(l)
  /\ UNCHANGED <<expired, bought, table, queue, history, faults>>

(* The node that the contract selected has a valid key, and the lock goes  *)
(* to memory with the units the client asked for; or it has none, and the  *)
(* call fails although the row has units locked for it.  Nothing bounds    *)
(* max_num_tokens: what exceeds the default has no units in the row.       *)
select_node_public_key_for_encryption_for_node(l) ==
  /\ pc[l] = "stored"
  /\ \/ /\ Goto(l, "held") /\ Strand(stack[l], Default - units[l])
        /\ unbacked' = [unbacked EXCEPT ![stack[l]] = @ + Excess(units[l], Default)]
        /\ UNCHANGED <<stack, units, endpoint>>
     \/ End(l) /\ Strand(stack[l], Default) /\ UNCHANGED unbacked
  /\ UNCHANGED <<expired, buyer, bought, table, queue, faults>>

(* The timeout of a lock passes. *)
Expire(l) ==
  /\ pc[l] = "held" /\ l \notin expired
  /\ expired' = expired \cup {l}
  /\ UNCHANGED <<pc, stack, units, endpoint, buyer, bought, table, queue, history, faults>>

-----------------------------------------------------------------------------
(* A confidential request.                                                 *)

(* Mutant: a lock need not be large enough. *)
MeetsCriteria_Any(l, min_units) == TRUE

MeetsCriteria(l, min_units) == units[l] >= min_units

(* confidential_compute_middleware with find_stacks_meeting_criteria_and_  *)
(* prune, which holds the entry of the stack from the first look to the    *)
(* last: the whole lock is consumed, whatever part of it the request asks  *)
(* for.  The request fails when no lock qualifies.                         *)
confidential_compute_middleware(q) ==
  /\ pc[q] = "idle"
  /\ \E s \in rows, e \in Endpoints, num_compute_units \in Tokens :
       LET pruned == Prunable(HeldOf(s))
           suitable == {l \in HeldOf(s) \ pruned : MeetsCriteria(l, num_compute_units)}
           Others(k) == IF k \in pruned THEN "releasing" ELSE pc[k] IN
       /\ \E order \in Orders(pruned) : queue' = queue \o Releases(order)
       /\ \/ \E l \in suitable :
               /\ pc' = [k \in Slots |-> CASE k = q -> "running"
                                           [] k = l -> "idle"
                                           [] OTHER -> Others(k)]
               /\ stack' = [stack EXCEPT ![q] = s, ![l] = NoStack]
               /\ units' = [units EXCEPT ![q] = num_compute_units, ![l] = 0]
               /\ endpoint' = [endpoint EXCEPT ![q] = e]
               /\ expired' = expired \ (pruned \cup {l})
               /\ Strand(s, units[l] - num_compute_units)
          \/ /\ suitable = {}
             /\ pc' = [k \in Slots |-> Others(k)]
             /\ expired' = expired \ pruned
             /\ UNCHANGED <<stack, units, endpoint, stranded>>
  /\ UNCHANGED <<buyer, bought, table, unbacked, faults>>

(* The estimate a handler settles with: confidential_embeddings_create     *)
(* takes it from num_input_tokens, which the middleware did not set.       *)
Estimate(q) == IF endpoint[q] = "embeddings" THEN 0 ELSE units[q]

SettleWith(q, used) ==
  /\ queue' = Append(queue, Event("UpdateStackNumTokens", q, stack[q], used))
  /\ units' = [units EXCEPT ![q] = Estimate(q)]
  /\ Strand(stack[q], units[q] - Estimate(q))
  /\ Goto(q, "releasing")

(* The node answers, and the handler settles what it reports. *)
HandlerAnswers(q) ==
  /\ pc[q] = "running" /\ endpoint[q] # "images"
  /\ \E used \in 0 .. MaxUse : SettleWith(q, used)
  /\ UNCHANGED <<stack, endpoint, expired, buyer, bought, table, unbacked, faults>>

(* The request ends and sends nothing: its units stay locked. *)
Abandon(q) ==
  /\ pc[q] = "running"
  /\ Strand(stack[q], units[q])
  /\ End(q)
  /\ UNCHANGED <<expired, buyer, bought, table, queue, unbacked, faults>>

(* An image was generated: nothing is sent. *)
ImageGenerated(q) == endpoint[q] = "images" /\ Abandon(q)

(* The extractor Json(payload) of the handler refuses the body, which no   *)
(* middleware checked for its content type, after the lock was consumed.   *)
ExtractorRejects(q) == Abandon(q)

(* The hash in the node's answer is no base64: verify_response_hash_and_   *)
(* signature panics, and the task of the handler is gone.                  *)
HandlerPanics(q) == Abandon(q)

(* Any other answer of the node, or none. *)
HandlerFails(q) ==
  /\ pc[q] = "running"
  /\ SettleWith(q, 0)
  /\ UNCHANGED <<stack, endpoint, expired, buyer, bought, table, unbacked, faults>>

(* The node answers LOCKED, and the client named the stack in a header:    *)
(* after the release, handle_locked_stack_middleware locks the stack.      *)
HandlerLocked(q) ==
  /\ pc[q] = "running"
  /\ queue' = queue \o <<Event("UpdateStackNumTokens", q, stack[q], 0),
                         Event("LockStack", q, stack[q], 0)>>
  /\ units' = [units EXCEPT ![q] = Estimate(q)]
  /\ Strand(stack[q], units[q] - Estimate(q))
  /\ Goto(q, "releasing")
  /\ UNCHANGED <<stack, endpoint, expired, buyer, bought, table, unbacked, faults>>

-----------------------------------------------------------------------------
(* The state manager: one event at a time.                                 *)

First(op) == queue # <<>> /\ Head(queue).op = op
Answer(label) == queue' = Tail(queue) /\ Goto(Head(queue).k, label)

Free(s) == StackSize - computed[s] - locked[s]

(* A stack with room, of a node with a valid key.  No stack is also the    *)
(* answer when no node has one.                                            *)
select_node_public_key_for_encryption ==
  LET l == Head(queue).k IN
  /\ First("SelectNodePublicKeyForEncryption")
  /\ \/ \E s \in rows \ closed :
          /\ Free(s) >= units[l]
          /\ locked' = [locked EXCEPT ![s] = @ + units[l]]
          /\ stack' = [stack EXCEPT ![l] = s]
          /\ Answer("selected")
     \/ Answer("no_stack") /\ UNCHANGED <<locked, stack>>
  /\ UNCHANGED <<units, endpoint, expired, buyer, bought, rows, computed, closed, history, faults>>

(* Mutant: nothing is locked in the row. *)
InitialLock_None == 0

(* acquire_new_stack is called with the default, not with max_num_tokens. *)
InitialLock == Default

(* The row is stored, and the guard of the buyer dropped. *)
NewStackAcquired ==
  LET l == Head(queue).k s == Head(queue).s IN
  /\ First("NewStackAcquired")
  /\ rows' = rows \cup {s}
  /\ locked' = [locked EXCEPT ![s] = InitialLock]
  /\ buyer' = NoLock
  /\ Answer("stored")
  /\ UNCHANGED <<stack, units, endpoint, expired, bought, computed, closed, history, faults>>

(* The CHECK of the table refuses a settlement that does not fit: the      *)
(* error is logged and the units stay locked.                              *)
update_stack_num_tokens ==
  LET k == Head(queue).k s == Head(queue).s used == Head(queue).used IN
  /\ First("UpdateStackNumTokens")
  /\ IF computed[s] + used + locked[s] - units[k] <= StackSize
       THEN /\ computed' = [computed EXCEPT ![s] = @ + used]
            /\ locked' = [locked EXCEPT ![s] = @ - units[k]]
            /\ UNCHANGED stranded
       ELSE Strand(s, units[k]) /\ UNCHANGED <<computed, locked>>
  /\ queue' = Tail(queue) /\ End(k)
  /\ UNCHANGED <<expired, buyer, bought, rows, closed, unbacked, faults>>

lock_stack ==
  /\ First("LockStack")
  /\ closed' = closed \cup {Head(queue).s}
  /\ queue' = Tail(queue)
  /\ UNCHANGED <<slots, buyer, bought, rows, computed, locked, history, faults>>

(* Any statement may fail: the call that waits for it fails, and a release *)
(* is lost.                                                                *)
DatabaseError ==
  LET e == Head(queue) IN
  /\ queue # <<>> /\ errors < MaxErrors
  /\ errors' = errors + 1
  /\ buyer' = IF e.op = "NewStackAcquired" THEN NoLock ELSE buyer
  /\ IF e.op = "UpdateStackNumTokens" THEN Strand(e.s, units[e.k]) ELSE UNCHANGED stranded
  /\ queue' = Tail(queue)
  /\ IF e.op = "LockStack" THEN UNCHANGED <<pc, stack, units, endpoint>> ELSE End(e.k)
  /\ UNCHANGED <<expired, bought, table, unbacked, crashes>>

-----------------------------------------------------------------------------
(* The environment.                                                        *)

(* The stack is claimed on chain. *)
CloseStack(s) ==
  /\ s \in rows \ closed
  /\ closed' = closed \cup {s}
  /\ UNCHANGED <<slots, buyer, bought, rows, computed, locked, queue, history, faults>>

(* The proxy stops.  Memory, channel and tasks are lost; the rows remain,  *)
(* and nothing gives back what is locked in them.                          *)
Crash ==
  /\ crashes < MaxCrashes
  /\ crashes' = crashes + 1
  /\ pc' = [k \in Slots |-> "idle"]
  /\ expired' = {} /\ buyer' = NoLock /\ queue' = <<>>
  /\ stranded' = locked
  /\ stack' = [k \in Slots |-> NoStack]
  /\ units' = [k \in Slots |-> 0]
  /\ endpoint' = [k \in Slots |-> NoEndpoint]
  /\ UNCHANGED <<bought, table, unbacked, errors>>

-----------------------------------------------------------------------------
LockStep(l) ==
  \/ lock_compute_units_in_memory(l) \/ try_lock(l)
  \/ select_node_public_key_for_encryption_for_node(l)
ChainStep(l) == acquire_new_stack(l) \/ PurchaseFails(l)
NodeStep(q) ==
  \/ HandlerAnswers(q) \/ ImageGenerated(q) \/ HandlerFails(q) \/ HandlerLocked(q)
  \/ ExtractorRejects(q) \/ HandlerPanics(q)
StateManagerStep ==
  \/ select_node_public_key_for_encryption \/ NewStackAcquired
  \/ update_stack_num_tokens \/ lock_stack

Next ==
  \/ \E l \in Locks : nodes_create_lock(l) \/ LockStep(l) \/ ChainStep(l) \/ Expire(l)
  \/ \E q \in Requests : confidential_compute_middleware(q) \/ NodeStep(q)
  \/ StateManagerStep
  \/ DatabaseError
  \/ \E s \in Stacks : CloseStack(s)
  \/ Crash

Spec == Init /\ [][Next]_vars

(* The runtime schedules the tasks and the state manager; nothing makes a  *)
(* client, the chain or a node act.                                        *)
FairSpec ==
  /\ Spec
  /\ \A l \in Locks : WF_vars(LockStep(l))
  /\ WF_vars(StateManagerStep)

-----------------------------------------------------------------------------
Ops == {"SelectNodePublicKeyForEncryption", "NewStackAcquired", "UpdateStackNumTokens",
        "LockStack"}
LockLabels == {"idle", "selecting", "selected", "no_stack", "buying", "storing", "stored",
               "held", "releasing"}

(* Types of the slots, the table and the channel. *)
TypeOK ==
  /\ pc \in [Slots -> LockLabels \cup {"running"}]
  /\ stack \in [Slots -> Stacks \cup {NoStack}]
  /\ units \in [Slots -> Nat]
  /\ endpoint \in [Slots -> Endpoints \cup {NoEndpoint}]
  /\ expired \subseteq Held
  /\ buyer \in Locks \cup {NoLock} /\ bought \in 0 .. MaxStacks
  /\ rows \subseteq 1 .. bought /\ closed \subseteq rows
  /\ computed \in [Stacks -> Nat] /\ locked \in [Stacks -> Int]
  /\ queue \in Seq([op : Ops, k : Slots, s : Stacks \cup {NoStack}, used : Nat])
  /\ stranded \in [Stacks -> Int] /\ unbacked \in [Stacks -> Nat]
  /\ errors \in 0 .. MaxErrors /\ crashes \in 0 .. MaxCrashes

(* What a slot will give back: a lock that is not yet in memory has the    *)
(* default locked for it when its stack was bought.                        *)
Owed == [k \in Slots |->
           CASE pc[k] \in {"selected", "held", "releasing", "running"} -> units[k]
             [] pc[k] = "stored" -> Default
             [] OTHER -> 0]
OfStack(s) == {k \in Slots : stack[k] = s}

(* The units locked in a row are those of the locks in memory, of running  *)
(* requests and of releases in the channel, once each, and the stranded    *)
(* ones, which are named step by step: an image, a refused body, a panic,  *)
(* an error, a crash.  A lock is never both pruned and used.               *)
UnitsAccounted == \A s \in rows : locked[s] = SumOver(Owed, OfStack(s)) + stranded[s]

(* What is promised to locks and running requests exceeds what a stack has *)
(* left by no more than its buyers asked for above the default, however    *)
(* pruning, use, settlement and new locks interleave.                      *)
PromisesFit ==
  \A s \in rows : computed[s] + SumOver(Owed, OfStack(s)) <= StackSize + unbacked[s]

(* An expired lock is released as long as calls keep coming: there is no   *)
(* timer, another call has to prune it.                                    *)
ExpiredIsReleased ==
  []<><<\E l \in Locks : nodes_create_lock(l)>>_vars
    => \A l \in Locks : l \in expired ~> l \notin expired

(* A call for a lock ends, with a lock in memory or without, or the chain  *)
(* never answers; and what is sent to be released is released.             *)
LockCallsEnd ==
  \A l \in Locks : <>[](pc[l] = "buying") \/ []<>(pc[l] \in {"idle", "held"})
=============================================================================
