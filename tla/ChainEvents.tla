----------------------------- MODULE ChainEvents -----------------------------
(***************************************************************************)
(* How the state manager follows the chain: tasks, the nodes' offers for   *)
(* them, stacks, settlement tickets and the statistics about stacks.       *)
(* handle_atoma_event applies one event at a time; when a statement fails  *)
(* the error is logged and the event is gone.  Stacks that the proxy buys  *)
(* itself reach the table another way, through the channel of the proxy.   *)
(* The event subscriber is external: it delivers the chain's events in     *)
(* order and, after a restart, again from a cursor that it saved.          *)
(***************************************************************************)
EXTENDS Sums, Sequences

CONSTANTS
  Tasks, Nodes, Stacks,
  OwnStacks,     \* the stacks that this proxy buys
  Prices,        \* what nodes ask for
  Claims,        \* the compute units that nodes claim when they settle
  MaxEvents,     \* bound on the events of the chain
  MaxErrors,     \* bound on database errors
  MaxCrashes     \* bound on restarts

ASSUME OwnAssumption == OwnStacks \subseteq Stacks
ASSUME AmountsAssumption == Prices \subseteq Nat \ {0} /\ Claims \subseteq Nat \ {0}
ASSUME BoundsAssumption == MaxEvents \in Nat /\ MaxErrors \in Nat /\ MaxCrashes \in Nat

VARIABLES
  chain,         \* external: the events of the chain, in order
  next,          \* the first event that the state manager has not handled
  cursor,        \* external: where the subscriber begins after a restart
  acquiring,     \* stacks whose NewStackAcquired is in the proxy's channel
  tasks,         \* tasks: no row, or whether is_deprecated is set
  price,         \* node_subscriptions.price_per_one_million_compute_units, 0 without a row
  row,           \* stacks: no row, or is_locked and is_claimed
  ticket,        \* stack_settlement_tickets.num_claimed_compute_units, 0 without a row
  settled_at,    \* stack_settlement_tickets.dispute_settled_at_epoch, 0 for NULL
  ticket_claimed,\* stack_settlement_tickets.is_claimed
  disputes,      \* stack_attestation_disputes, by stack and attestation node
  created,       \* stats_stacks.num_compute_units, in stacks
  settled,       \* stats_stacks.settled_num_compute_units
  lost,          \* history: the events that met a database error
  errors, crashes

stack_tables == <<row, ticket, settled_at, ticket_claimed, disputes>>
tables == <<tasks, price, stack_tables, created, settled>>
faults == <<lost, errors, crashes>>
vars == <<chain, next, cursor, acquiring, tables, faults>>

Offers == Nodes \X Tasks

Init ==
  /\ chain = <<>> /\ next = 1 /\ cursor = 1 /\ acquiring = {}
  /\ tasks = [t \in Tasks |-> "none"]
  /\ price = [o \in Offers |-> 0]
  /\ row = [s \in Stacks |-> "none"]
  /\ ticket = [s \in Stacks |-> 0]
  /\ settled_at = [s \in Stacks |-> 0]
  /\ ticket_claimed = [s \in Stacks |-> FALSE]
  /\ disputes = {}
  /\ created = 0 /\ settled = 0
  /\ lost = {} /\ errors = 0 /\ crashes = 0

-----------------------------------------------------------------------------
(* The chain, external.  An event is about one object: a task, an offer or *)
(* a stack.                                                                *)

Event(type, of, val) == [type |-> type, of |-> of, val |-> val]
Of(type, o) == {i \in DOMAIN chain : chain[i].type = type /\ chain[i].of = o}
Happened(type, o) == Of(type, o) # {}

OfferEvents == {"NodeSubscribedToTask", "NodeSubscriptionUpdated", "NodeUnsubscribedFromTask"}
AboutOffer(o) == UNION {Of(type, o) : type \in OfferEvents}
LastOf(S) == CHOOSE i \in S : \A j \in S : j <= i

(* What the chain says about an offer: its price, or 0. *)
ChainPrice(o) ==
  IF AboutOffer(o) = {} THEN 0
  ELSE LET e == chain[LastOf(AboutOffer(o))] IN
       IF e.type = "NodeUnsubscribedFromTask" THEN 0 ELSE e.val

Emit(e) ==
  /\ Len(chain) < MaxEvents
  /\ chain' = Append(chain, e)
  /\ UNCHANGED <<next, cursor, tables, faults>>

TaskChanges(t) ==
  /\ \/ ~Happened("TaskRegistered", t) /\ Emit(Event("TaskRegistered", t, 0))
     \/ /\ Happened("TaskRegistered", t) /\ ~Happened("TaskDeprecation", t)
        /\ Emit(Event("TaskDeprecation", t, 0))
  /\ UNCHANGED acquiring

OfferChanges(o) ==
  /\ \/ /\ Happened("TaskRegistered", o[2]) /\ ChainPrice(o) = 0
        /\ \E p \in Prices : Emit(Event("NodeSubscribedToTask", o, p))
     \/ /\ ChainPrice(o) > 0
        /\ \E p \in Prices \ {ChainPrice(o)} : Emit(Event("NodeSubscriptionUpdated", o, p))
     \/ /\ ChainPrice(o) > 0
        /\ Emit(Event("NodeUnsubscribedFromTask", o, 0))
  /\ UNCHANGED acquiring

StackBought(s) ==
  /\ ~Happened("StackCreated", s)
  /\ Emit(Event("StackCreated", s, 0))
  /\ acquiring' = acquiring \cup ({s} \cap OwnStacks)

(* A node settles and claims epochs after the stack was bought, when the   *)
(* proxy has long stored it.                                               *)
StackSettles(s) ==
  /\ Happened("StackCreated", s) /\ s \notin acquiring
  /\ \/ /\ ~Happened("StackTrySettle", s)
        /\ \E c \in Claims : Emit(Event("StackTrySettle", s, c))
     \/ /\ Happened("StackTrySettle", s)
        /\ \/ \E n \in Nodes :
                /\ ~Happened("StackAttestationDispute", <<s, n>>)
                /\ Emit(Event("StackAttestationDispute", <<s, n>>, 0))
           \/ \E n \in Nodes :
                /\ ~Happened("NewStackSettlementAttestation", <<s, n>>)
                /\ Emit(Event("NewStackSettlementAttestation", <<s, n>>, 0))
           \/ /\ ~Happened("StackSettlementTicket", s)
              /\ Emit(Event("StackSettlementTicket", s, 1))
           \/ /\ ~Happened("StackSettlementTicketClaimed", s)
              /\ Emit(Event("StackSettlementTicketClaimed", s, 0))
     \/ /\ ~Happened("ClaimedStack", s)
        /\ Emit(Event("ClaimedStack", s, 0))
  /\ UNCHANGED acquiring

-----------------------------------------------------------------------------
(* The handlers.                                                           *)

Current == chain[next]
Arrives(type) == next <= Len(chain) /\ Current.type = type

(* handle_atoma_event is done with an event. *)
Handled == next' = next + 1 /\ UNCHANGED <<chain, cursor, acquiring, faults>>

(* An INSERT fails when the row is there, and the row stays as it was; an  *)
(* UPDATE of a row that is not there does nothing.                         *)
insert_new_task(t) ==
  tasks' = IF tasks[t] = "none" THEN [tasks EXCEPT ![t] = "live"] ELSE tasks

handle_new_task_event ==
  /\ Arrives("TaskRegistered")
  /\ insert_new_task(Current.of)
  /\ Handled /\ UNCHANGED <<price, stack_tables, created, settled>>

deprecate_task(t) ==
  tasks' = IF tasks[t] = "none" THEN tasks ELSE [tasks EXCEPT ![t] = "deprecated"]

handle_task_deprecation_event ==
  /\ Arrives("TaskDeprecation")
  /\ deprecate_task(Current.of)
  /\ Handled /\ UNCHANGED <<price, stack_tables, created, settled>>

subscribe_node_to_task(o, p) ==
  price' = IF price[o] = 0 THEN [price EXCEPT ![o] = p] ELSE price

handle_node_task_subscription_event ==
  /\ Arrives("NodeSubscribedToTask")
  /\ subscribe_node_to_task(Current.of, Current.val)
  /\ Handled /\ UNCHANGED <<tasks, stack_tables, created, settled>>

update_node_subscription(o, p) ==
  price' = IF price[o] = 0 THEN price ELSE [price EXCEPT ![o] = p]

handle_node_task_subscription_updated_event ==
  /\ Arrives("NodeSubscriptionUpdated")
  /\ update_node_subscription(Current.of, Current.val)
  /\ Handled /\ UNCHANGED <<tasks, stack_tables, created, settled>>

(* Mutant: the row is kept. *)
unsubscribe_node_from_task_Keep(o) == UNCHANGED price

unsubscribe_node_from_task(o) == price' = [price EXCEPT ![o] = 0]

handle_node_task_unsubscription_event ==
  /\ Arrives("NodeUnsubscribedFromTask")
  /\ unsubscribe_node_from_task(Current.of)
  /\ Handled /\ UNCHANGED <<tasks, stack_tables, created, settled>>

(* The table takes only timestamps on the hour, and this one is the time   *)
(* of day.                                                                 *)
new_stats_stack == \E on_the_hour \in BOOLEAN : created' = IF on_the_hour THEN created + 1 ELSE created

handle_create_stack_stats ==
  /\ Arrives("StackCreated")
  /\ new_stats_stack
  /\ Handled /\ UNCHANGED <<tasks, price, stack_tables, settled>>

(* The ticket and the statistics are one transaction.  The stack keeps     *)
(* in_settle_period, which nothing ever sets.                              *)
NewTicket(s, claim) ==
  /\ ticket' = [ticket EXCEPT ![s] = claim]
  /\ settled_at' = [settled_at EXCEPT ![s] = 0]
  /\ ticket_claimed' = [ticket_claimed EXCEPT ![s] = FALSE]
  /\ settled' = settled + claim

(* Mutant: the statistics are updated before the ticket is found to exist. *)
insert_new_stack_settlement_ticket_NoTransaction(s, claim) ==
  IF ticket[s] = 0 THEN NewTicket(s, claim)
  ELSE settled' = settled + claim /\ UNCHANGED <<ticket, settled_at, ticket_claimed>>

(* Mutant: a second ticket replaces the first. *)
insert_new_stack_settlement_ticket_Upsert(s, claim) == NewTicket(s, claim)

insert_new_stack_settlement_ticket(s, claim) ==
  IF ticket[s] = 0 THEN NewTicket(s, claim)
  ELSE UNCHANGED <<ticket, settled_at, ticket_claimed, settled>>

handle_stack_try_settle_event ==
  /\ Arrives("StackTrySettle")
  /\ insert_new_stack_settlement_ticket(Current.of, Current.val)
  /\ Handled /\ UNCHANGED <<tasks, price, row, disputes, created>>

update_stack_claimed(s) ==
  row' = IF row[s] = "none" THEN row ELSE [row EXCEPT ![s] = "claimed"]

handle_claimed_stack_event ==
  /\ Arrives("ClaimedStack")
  /\ update_stack_claimed(Current.of)
  /\ Handled /\ UNCHANGED <<tasks, price, ticket, settled_at, ticket_claimed, disputes, created, settled>>

(* The ticket must be there, name the node and have room for its part;     *)
(* then the transaction fails at an UPDATE with json_insert, a function    *)
(* that PostgreSQL does not have.  Every path leaves the ticket alone.     *)
update_stack_settlement_ticket_with_attestation_commitments ==
  UNCHANGED <<ticket, settled_at, ticket_claimed>>

handle_new_stack_settlement_attestation_event ==
  /\ Arrives("NewStackSettlementAttestation")
  /\ update_stack_settlement_ticket_with_attestation_commitments
  /\ Handled /\ UNCHANGED <<tasks, price, row, disputes, created, settled>>

settle_stack_settlement_ticket(s, epoch) ==
  settled_at' = IF ticket[s] = 0 THEN settled_at ELSE [settled_at EXCEPT ![s] = epoch]

handle_stack_settlement_ticket_event ==
  /\ Arrives("StackSettlementTicket")
  /\ settle_stack_settlement_ticket(Current.of, Current.val)
  /\ Handled /\ UNCHANGED <<tasks, price, row, ticket, ticket_claimed, disputes, created, settled>>

update_stack_settlement_ticket_with_claim(s) ==
  ticket_claimed' =
    IF ticket[s] = 0 THEN ticket_claimed ELSE [ticket_claimed EXCEPT ![s] = TRUE]

handle_stack_settlement_ticket_claimed_event ==
  /\ Arrives("StackSettlementTicketClaimed")
  /\ update_stack_settlement_ticket_with_claim(Current.of)
  /\ Handled /\ UNCHANGED <<tasks, price, row, ticket, settled_at, disputes, created, settled>>

insert_stack_attestation_dispute(d) == disputes' = disputes \cup {d}

handle_stack_attestation_dispute_event ==
  /\ Arrives("StackAttestationDispute")
  /\ insert_stack_attestation_dispute(Current.of)
  /\ Handled /\ UNCHANGED <<tasks, price, row, ticket, settled_at, ticket_claimed, created, settled>>

insert_new_stack(s) == row' = IF row[s] = "none" THEN [row EXCEPT ![s] = "open"] ELSE row

(* NewStackAcquired, from the proxy. *)
handle_stack_created_event(s) ==
  /\ s \in acquiring
  /\ acquiring' = acquiring \ {s}
  /\ insert_new_stack(s)
  /\ UNCHANGED <<chain, next, cursor, tasks, price, ticket, settled_at, ticket_claimed,
                 disputes, created, settled, faults>>

(* LockStack, from the proxy, for a stack that is almost used up. *)
lock_stack(s) ==
  /\ row[s] = "open"
  /\ row' = [row EXCEPT ![s] = "locked"]
  /\ UNCHANGED <<chain, next, cursor, acquiring, tasks, price, ticket, settled_at,
                 ticket_claimed, disputes, created, settled, faults>>

(* A statement fails: the error is logged and the event is gone. *)
DatabaseError ==
  /\ next <= Len(chain) /\ errors < MaxErrors
  /\ errors' = errors + 1
  /\ lost' = lost \cup {next}
  /\ next' = next + 1
  /\ UNCHANGED <<chain, cursor, acquiring, tables, crashes>>

(* External: the subscriber notes how far it got. *)
SaveCursor ==
  /\ cursor < next
  /\ cursor' = next
  /\ UNCHANGED <<chain, next, acquiring, tables, faults>>

(* The proxy restarts: events after the cursor come again, and what was in *)
(* its channels is gone.                                                   *)
Crash ==
  /\ crashes < MaxCrashes
  /\ crashes' = crashes + 1
  /\ next' = cursor
  /\ acquiring' = {}
  /\ UNCHANGED <<chain, cursor, tables, lost, errors>>

-----------------------------------------------------------------------------
handle_atoma_event ==
  \/ handle_new_task_event \/ handle_task_deprecation_event
  \/ handle_node_task_subscription_event
  \/ handle_node_task_subscription_updated_event
  \/ handle_node_task_unsubscription_event
  \/ handle_create_stack_stats
  \/ handle_stack_try_settle_event \/ handle_claimed_stack_event
  \/ handle_new_stack_settlement_attestation_event
  \/ handle_stack_settlement_ticket_event
  \/ handle_stack_settlement_ticket_claimed_event
  \/ handle_stack_attestation_dispute_event

Next ==
  \/ \E t \in Tasks : TaskChanges(t)
  \/ \E o \in Offers : OfferChanges(o)
  \/ \E s \in Stacks : StackBought(s) \/ StackSettles(s)
  \/ \E s \in Stacks : handle_stack_created_event(s) \/ lock_stack(s)
  \/ handle_atoma_event \/ DatabaseError \/ SaveCursor \/ Crash

Spec == Init /\ [][Next]_vars

-----------------------------------------------------------------------------
(* Types of chain, cursors and tables. *)
TypeOK ==
  /\ next \in 1 .. Len(chain) + 1 /\ cursor \in 1 .. next
  /\ acquiring \subseteq OwnStacks
  /\ tasks \in [Tasks -> {"none", "live", "deprecated"}]
  /\ price \in [Offers -> Prices \cup {0}]
  /\ row \in [Stacks -> {"none", "open", "locked", "claimed"}]
  /\ ticket \in [Stacks -> Claims \cup {0}]
  /\ settled_at \in [Stacks -> {0, 1}]
  /\ ticket_claimed \in [Stacks -> BOOLEAN]
  /\ disputes \subseteq Stacks \X Nodes
  /\ created \in Nat /\ settled \in Nat
  /\ lost \subseteq 1 .. Len(chain)
  /\ errors \in 0 .. MaxErrors /\ crashes \in 0 .. MaxCrashes

Intact(S) == S \cap lost = {}

TaskFollows(t) ==
  Intact(Of("TaskRegistered", t) \cup Of("TaskDeprecation", t)) =>
    tasks[t] = IF Happened("TaskDeprecation", t) THEN "deprecated"
               ELSE IF Happened("TaskRegistered", t) THEN "live" ELSE "none"

OfferFollows(o) == Intact(AboutOffer(o)) => price[o] = ChainPrice(o)

TicketFollows(s) ==
  Intact(Of("StackTrySettle", s)) =>
    /\ (ticket[s] > 0) <=> Happened("StackTrySettle", s)
    /\ \A i \in Of("StackTrySettle", s) : ticket[s] = chain[i].val
    /\ Intact(Of("StackSettlementTicket", s)) =>
         (settled_at[s] > 0 <=> Happened("StackSettlementTicket", s))
    /\ Intact(Of("StackSettlementTicketClaimed", s)) =>
         (ticket_claimed[s] <=> Happened("StackSettlementTicketClaimed", s))

RowFollows(s) ==
  Intact(Of("ClaimedStack", s)) /\ row[s] # "none" =>
    (row[s] = "claimed" <=> Happened("ClaimedStack", s))

(* When every event has been handled, each task, offer, ticket and stack   *)
(* is what the chain's events about it say, no matter how often the proxy  *)
(* was restarted and from where the events came again; an event that is    *)
(* lost to a database error hurts nothing but its own object.              *)
TablesFollowChain ==
  next > Len(chain) =>
    /\ \A t \in Tasks : TaskFollows(t)
    /\ \A o \in Offers : OfferFollows(o)
    /\ \A s \in Stacks : TicketFollows(s) /\ RowFollows(s)

(* The settled units of the statistics are the units of the tickets: an    *)
(* event that comes twice is not counted twice.                            *)
SettledCountedOnce == settled = SumOver(ticket, Stacks)

(* get_stacks_for_model and get_available_stack_with_compute_units. *)
Offered(s) == row[s] = "open" /\ ~ticket_claimed[s]

(* A stack that is no longer given out to requests never is again, not     *)
(* even while older events about it are handled a second time.             *)
NoComeback ==
  [][\A s \in Stacks : row[s] # "none" /\ ~Offered(s) => ~Offered(s)']_vars

(* A stack whose node has begun to settle it, as the state manager knows,  *)
(* is in its settle period and is not given out.                           *)
SettlingIsNotOffered == \A s \in Stacks : ticket[s] > 0 => ~Offered(s)
=============================================================================
