------------------------- MODULE ChainEvents_proofs -------------------------
(***************************************************************************)
(* Theorems about ChainEvents, for any tasks, nodes, stacks, prices and    *)
(* claims, and any number of events, errors and restarts: types, settled   *)
(* units that count once, stacks that stay closed, and tables that follow  *)
(* the chain.                                                              *)
(***************************************************************************)
EXTENDS ChainEvents, SumTheorems

-----------------------------------------------------------------------------
(* The invariant.                                                          *)

AboutTask == {"TaskRegistered", "TaskDeprecation"}
AboutStack == {"StackTrySettle", "ClaimedStack", "StackSettlementTicket",
               "StackSettlementTicketClaimed"}
Priced == {"NodeSubscribedToTask", "NodeSubscriptionUpdated"}

(* An event names an object of its kind, and an amount that fits. *)
EventOK(e) ==
  /\ e.type \in AboutTask => e.of \in Tasks
  /\ e.type \in OfferEvents => e.of \in Offers
  /\ e.type \in Priced => e.val \in Prices
  /\ e.type \in AboutStack => e.of \in Stacks
  /\ e.type = "StackTrySettle" => e.val \in Claims
  /\ e.type = "StackSettlementTicket" => e.val = 1
  /\ e.type = "StackAttestationDispute" => e.of \in Stacks \X Nodes

Objects == Tasks \cup Offers \cup Stacks \cup (Stacks \X Nodes)
Types == AboutTask \cup OfferEvents \cup AboutStack
         \cup {"StackCreated", "StackAttestationDispute", "NewStackSettlementAttestation"}
Events == {e \in [type : Types, of : Objects, val : Nat] : EventOK(e)}

ChainOK == chain \in Seq(Events)

(* A stack without a ticket has no claimed ticket. *)
Unclaimed == \A s \in Stacks : ticket[s] = 0 => ~ticket_claimed[s]

(* SettledCountedOnce, with the sum known to be finite. *)
Counted == IsSum(settled, ticket, Stacks)

Typed == TypeOK /\ ChainOK
ChainInv == Typed /\ Unclaimed /\ Counted

-----------------------------------------------------------------------------
(* The chain.                                                              *)

(* What an event of the chain changes. *)
LEMMA EmitTyped ==
  ASSUME Typed, NEW e \in Events, Emit(e), acquiring' \subseteq OwnStacks
  PROVE  Typed'
<1>1. Len(chain) \in Nat /\ chain' = Append(chain, e) /\ chain \in Seq(Events)
  BY DEF Typed, ChainOK, Emit
<1>2. chain' \in Seq(Events) /\ Len(chain') = Len(chain) + 1
  BY <1>1
<1>3. UNCHANGED <<next, cursor, tables, faults>>
  BY DEF Emit
<1>4. (next \in 1 .. Len(chain) + 1)' /\ (cursor \in 1 .. next)'
  BY <1>1, <1>2, <1>3 DEF Typed, TypeOK
<1>5. (lost \subseteq 1 .. Len(chain))'
  BY <1>1, <1>2, <1>3 DEF Typed, TypeOK, faults
<1>6. QED
  BY <1>2, <1>3, <1>4, <1>5
     DEF Typed, TypeOK, ChainOK, tables, stack_tables, faults

(* An event that names an object of its kind is one of Events. *)
Kind(type, o, v) ==
  /\ type \in AboutTask => o \in Tasks
  /\ type \in OfferEvents => o \in Offers
  /\ type \in Priced => v \in Prices
  /\ type \in AboutStack => o \in Stacks
  /\ type = "StackTrySettle" => v \in Claims
  /\ type = "StackSettlementTicket" => v = 1
  /\ type = "StackAttestationDispute" => o \in Stacks \X Nodes

LEMMA EventIn ==
  ASSUME NEW type \in Types, NEW o \in Objects, NEW v \in Nat, Kind(type, o, v)
  PROVE  Event(type, o, v) \in Events
<1>1. Event(type, o, v) \in [type : Types, of : Objects, val : Nat]
  BY DEF Event
<1>2. Event(type, o, v).type = type /\ Event(type, o, v).of = o /\ Event(type, o, v).val = v
  BY DEF Event
<1>3. EventOK(Event(type, o, v))
  BY <1>2, Zenon DEF EventOK, Kind
<1>4. QED
  BY <1>1, <1>3, Zenon DEF Events

(* The events that the contract emits are of their kind. *)
LEMMA TaskEvents ==
  ASSUME NEW t \in Tasks
  PROVE  Event("TaskRegistered", t, 0) \in Events /\ Event("TaskDeprecation", t, 0) \in Events
<1>1. t \in Objects
  BY DEF Objects
<1>2. Kind("TaskRegistered", t, 0) /\ Kind("TaskDeprecation", t, 0)
  BY DEF Kind, AboutTask, AboutStack, Priced, OfferEvents
<1>3. "TaskRegistered" \in Types /\ "TaskDeprecation" \in Types /\ 0 \in Nat
  BY DEF Types, AboutTask, AboutStack, OfferEvents
<1>4. QED
  BY <1>1, <1>2, <1>3, EventIn, Zenon

LEMMA OfferEventsOK ==
  ASSUME NEW o \in Offers, NEW p \in Prices
  PROVE  Event("NodeSubscribedToTask", o, p) \in Events
         /\ Event("NodeSubscriptionUpdated", o, p) \in Events
<1>1. o \in Objects /\ p \in Nat
  BY AmountsAssumption DEF Objects
<1>2. Kind("NodeSubscribedToTask", o, p) /\ Kind("NodeSubscriptionUpdated", o, p)
  BY DEF Kind, AboutTask, AboutStack, Priced, OfferEvents
<1>3. "NodeSubscribedToTask" \in Types /\ "NodeSubscriptionUpdated" \in Types
  BY DEF Types, AboutTask, AboutStack, OfferEvents
<1>4. QED
  BY <1>1, <1>2, <1>3, EventIn, Zenon

LEMMA UnsubscribeOK ==
  ASSUME NEW o \in Offers
  PROVE  Event("NodeUnsubscribedFromTask", o, 0) \in Events
<1>1. o \in Objects
  BY DEF Objects
<1>2. Kind("NodeUnsubscribedFromTask", o, 0)
  BY DEF Kind, AboutTask, AboutStack, Priced, OfferEvents
<1>3. "NodeUnsubscribedFromTask" \in Types /\ 0 \in Nat
  BY DEF Types, AboutTask, AboutStack, OfferEvents
<1>4. QED
  BY <1>1, <1>2, <1>3, EventIn, Zenon

LEMMA StackEvents ==
  ASSUME NEW s \in Stacks
  PROVE  /\ Event("StackCreated", s, 0) \in Events
         /\ Event("StackSettlementTicket", s, 1) \in Events
         /\ Event("StackSettlementTicketClaimed", s, 0) \in Events
         /\ Event("ClaimedStack", s, 0) \in Events
<1>1. s \in Objects
  BY DEF Objects
<1>2. /\ Kind("StackCreated", s, 0) /\ Kind("StackSettlementTicket", s, 1)
      /\ Kind("StackSettlementTicketClaimed", s, 0) /\ Kind("ClaimedStack", s, 0)
  BY DEF Kind, AboutTask, AboutStack, Priced, OfferEvents
<1>3. /\ "StackCreated" \in Types
      /\ "StackSettlementTicket" \in Types
      /\ "StackSettlementTicketClaimed" \in Types
      /\ "ClaimedStack" \in Types
      /\ 0 \in Nat /\ 1 \in Nat
  BY DEF Types, AboutTask, AboutStack, OfferEvents
<1>4. QED
  BY <1>1, <1>2, <1>3, EventIn, Zenon

LEMMA SettleEvents ==
  ASSUME NEW s \in Stacks, NEW c \in Claims
  PROVE  Event("StackTrySettle", s, c) \in Events
<1>1. s \in Objects /\ c \in Nat
  BY AmountsAssumption DEF Objects
<1>2. Kind("StackTrySettle", s, c)
  BY DEF Kind, AboutTask, AboutStack, Priced, OfferEvents
<1>3. "StackTrySettle" \in Types
  BY DEF Types, AboutTask, AboutStack, OfferEvents
<1>4. QED
  BY <1>1, <1>2, <1>3, EventIn, Zenon

LEMMA DisputeEvents ==
  ASSUME NEW s \in Stacks, NEW n \in Nodes
  PROVE  /\ Event("StackAttestationDispute", <<s, n>>, 0) \in Events
         /\ Event("NewStackSettlementAttestation", <<s, n>>, 0) \in Events
<1>1. <<s, n>> \in Objects /\ <<s, n>> \in Stacks \X Nodes
  BY DEF Objects
<1>2. Kind("StackAttestationDispute", <<s, n>>, 0) /\ Kind("NewStackSettlementAttestation", <<s, n>>, 0)
  BY <1>1 DEF Kind, AboutTask, AboutStack, Priced, OfferEvents
<1>3. "StackAttestationDispute" \in Types /\ "NewStackSettlementAttestation" \in Types /\ 0 \in Nat
  BY DEF Types, AboutTask, AboutStack, OfferEvents
<1>4. QED
  BY <1>1, <1>2, <1>3, EventIn, Zenon

(* Every step of the chain keeps the types. *)
LEMMA TaskTyped == ASSUME Typed, NEW t \in Tasks, TaskChanges(t) PROVE Typed'
<1>1. acquiring' \subseteq OwnStacks
  BY DEF TaskChanges, Typed, TypeOK
<1>2. Emit(Event("TaskRegistered", t, 0)) \/ Emit(Event("TaskDeprecation", t, 0))
  BY DEF TaskChanges
<1>3. QED
  BY <1>1, <1>2, TaskEvents, EmitTyped

LEMMA OfferTyped == ASSUME Typed, NEW o \in Offers, OfferChanges(o) PROVE Typed'
<1>1. acquiring' \subseteq OwnStacks
  BY DEF OfferChanges, Typed, TypeOK
<1>2. \/ \E p \in Prices : Emit(Event("NodeSubscribedToTask", o, p))
      \/ \E p \in Prices : Emit(Event("NodeSubscriptionUpdated", o, p))
      \/ Emit(Event("NodeUnsubscribedFromTask", o, 0))
  BY DEF OfferChanges
<1>3. CASE \E p \in Prices : Emit(Event("NodeSubscribedToTask", o, p))
  BY <1>1, <1>3, OfferEventsOK, EmitTyped
<1>4. CASE \E p \in Prices : Emit(Event("NodeSubscriptionUpdated", o, p))
  BY <1>1, <1>4, OfferEventsOK, EmitTyped
<1>5. CASE Emit(Event("NodeUnsubscribedFromTask", o, 0))
  BY <1>1, <1>5, UnsubscribeOK, EmitTyped
<1>6. QED
  BY <1>2, <1>3, <1>4, <1>5

LEMMA BoughtTyped == ASSUME Typed, NEW s \in Stacks, StackBought(s) PROVE Typed'
<1>1. acquiring' \subseteq OwnStacks /\ Emit(Event("StackCreated", s, 0))
  BY DEF StackBought, Typed, TypeOK
<1>2. QED
  BY <1>1, StackEvents, EmitTyped

LEMMA SettlesTyped == ASSUME Typed, NEW s \in Stacks, StackSettles(s) PROVE Typed'
<1>1. acquiring' \subseteq OwnStacks
  BY DEF StackSettles, Typed, TypeOK
<1>2. \/ \E c \in Claims : Emit(Event("StackTrySettle", s, c))
      \/ \E n \in Nodes : \/ Emit(Event("StackAttestationDispute", <<s, n>>, 0))
                          \/ Emit(Event("NewStackSettlementAttestation", <<s, n>>, 0))
      \/ Emit(Event("StackSettlementTicket", s, 1))
      \/ Emit(Event("StackSettlementTicketClaimed", s, 0))
      \/ Emit(Event("ClaimedStack", s, 0))
  BY DEF StackSettles
<1>3. CASE \E c \in Claims : Emit(Event("StackTrySettle", s, c))
  BY <1>1, <1>3, SettleEvents, EmitTyped
<1>4. CASE \E n \in Nodes : \/ Emit(Event("StackAttestationDispute", <<s, n>>, 0))
                            \/ Emit(Event("NewStackSettlementAttestation", <<s, n>>, 0))
  BY <1>1, <1>4, DisputeEvents, EmitTyped
<1>5. CASE \/ Emit(Event("StackSettlementTicket", s, 1))
           \/ Emit(Event("StackSettlementTicketClaimed", s, 0))
           \/ Emit(Event("ClaimedStack", s, 0))
  BY <1>1, <1>5, StackEvents, EmitTyped
<1>6. QED
  BY <1>2, <1>3, <1>4, <1>5

-----------------------------------------------------------------------------
(* The handlers.                                                           *)

(* TypeOK in two parts: the positions in the chain, and the tables. *)
Positions ==
  /\ ChainOK
  /\ next \in 1 .. Len(chain) + 1 /\ cursor \in 1 .. next
  /\ acquiring \subseteq OwnStacks
  /\ lost \subseteq 1 .. Len(chain)
  /\ errors \in 0 .. MaxErrors /\ crashes \in 0 .. MaxCrashes

Tables ==
  /\ tasks \in [Tasks -> {"none", "live", "deprecated"}]
  /\ price \in [Offers -> Prices \cup {0}]
  /\ row \in [Stacks -> {"none", "open", "locked", "claimed"}]
  /\ ticket \in [Stacks -> Claims \cup {0}]
  /\ settled_at \in [Stacks -> {0, 1}]
  /\ ticket_claimed \in [Stacks -> BOOLEAN]
  /\ disputes \subseteq Stacks \X Nodes
  /\ created \in Nat /\ settled \in Nat

LEMMA TwoParts == Typed <=> Positions /\ Tables
  BY DEF Typed, TypeOK, Positions, Tables

LEMMA TwoPartsNext == ASSUME Positions', Tables' PROVE Typed'
  BY DEF Typed, TypeOK, Positions, Tables, ChainOK

(* The event that a handler takes names an object of its kind. *)
LEMMA CurrentOK ==
  ASSUME Typed, NEW type, Arrives(type)
  PROVE  Current.type = type /\ EventOK(Current)
<1>1. chain \in Seq(Events) /\ next \in 1 .. Len(chain)
  BY DEF Typed, TypeOK, ChainOK, Arrives
<1>2. chain[next] \in Events
  BY <1>1
<1>3. QED
  BY <1>2 DEF Current, Events, Arrives

(* A handler that is done moves one event on. *)
LEMMA HandledOK == ASSUME Typed, NEW type, Arrives(type), Handled PROVE Positions'
<1>1. chain \in Seq(Events) /\ Len(chain) \in Nat
  BY DEF Typed, ChainOK
<1>2. next \in 1 .. Len(chain) /\ cursor \in 1 .. next
  BY DEF Typed, TypeOK, Arrives
<1>3. chain' = chain /\ next' = next + 1 /\ cursor' = cursor
  BY DEF Handled
<1>4. next' \in 1 .. Len(chain) + 1 /\ cursor' \in 1 .. next'
  BY <1>1, <1>2, <1>3
<1>5. QED
  BY <1>3, <1>4 DEF Positions, Typed, TypeOK, ChainOK, Handled, faults

LEMMA TaskHandlers ==
  ASSUME Typed, handle_new_task_event \/ handle_task_deprecation_event
  PROVE  Typed'
<1>1. PICK type \in AboutTask : Arrives(type)
  BY DEF handle_new_task_event, handle_task_deprecation_event, AboutTask
<1>2. Current.of \in Tasks
  BY <1>1, CurrentOK DEF EventOK
<1>3. Positions'
  BY <1>1, HandledOK DEF handle_new_task_event, handle_task_deprecation_event
<1>4. tasks' \in [Tasks -> {"none", "live", "deprecated"}]
  BY <1>2 DEF handle_new_task_event, handle_task_deprecation_event, insert_new_task,
              deprecate_task, Typed, TypeOK
<1>5. UNCHANGED <<price, row, ticket, settled_at, ticket_claimed, disputes, created, settled>>
  BY DEF handle_new_task_event, handle_task_deprecation_event, stack_tables
<1>6. Tables'
  BY <1>4, <1>5, TwoParts DEF Tables
<1>7. QED
  BY <1>3, <1>6, TwoPartsNext

LEMMA OfferHandlers ==
  ASSUME Typed, \/ handle_node_task_subscription_event
                \/ handle_node_task_subscription_updated_event
                \/ handle_node_task_unsubscription_event
  PROVE  Typed'
<1>1. PICK type \in OfferEvents : Arrives(type)
  BY DEF handle_node_task_subscription_event, handle_node_task_subscription_updated_event,
         handle_node_task_unsubscription_event, OfferEvents
<1>2. Current.of \in Offers /\ (Current.type \in Priced => Current.val \in Prices)
  BY <1>1, CurrentOK DEF EventOK
<1>3. Positions'
  BY <1>1, HandledOK DEF handle_node_task_subscription_event,
         handle_node_task_subscription_updated_event, handle_node_task_unsubscription_event
<1>4. \/ Current.type \in Priced /\ (price' = price \/ price' = [price EXCEPT ![Current.of] = Current.val])
      \/ price' = [price EXCEPT ![Current.of] = 0]
  BY DEF handle_node_task_subscription_event, handle_node_task_subscription_updated_event,
         handle_node_task_unsubscription_event, subscribe_node_to_task, update_node_subscription,
         unsubscribe_node_from_task, Priced, Arrives
<1>5. price' \in [Offers -> Prices \cup {0}]
  BY <1>2, <1>4 DEF Typed, TypeOK
<1>6. UNCHANGED <<tasks, row, ticket, settled_at, ticket_claimed, disputes, created, settled>>
  BY DEF handle_node_task_subscription_event, handle_node_task_subscription_updated_event,
         handle_node_task_unsubscription_event, stack_tables
<1>7. Tables'
  BY <1>5, <1>6, TwoParts DEF Tables
<1>8. QED
  BY <1>3, <1>7, TwoPartsNext

LEMMA StatsHandler == ASSUME Typed, handle_create_stack_stats PROVE Typed'
<1>1. Positions'
  BY HandledOK DEF handle_create_stack_stats
<1>2. created' \in Nat
  BY DEF handle_create_stack_stats, new_stats_stack, Typed, TypeOK
<1>3. UNCHANGED <<tasks, price, row, ticket, settled_at, ticket_claimed, disputes, settled>>
  BY DEF handle_create_stack_stats, stack_tables
<1>4. Tables'
  BY <1>2, <1>3, TwoParts DEF Tables
<1>5. QED
  BY <1>1, <1>4, TwoPartsNext

(* The ticket of a settling stack: its units are in Claims. *)
LEMMA SettleObject ==
  ASSUME Typed, Arrives("StackTrySettle")
  PROVE  Current.of \in Stacks /\ Current.val \in Claims
  BY CurrentOK DEF EventOK, AboutStack

LEMMA TrySettleHandler == ASSUME Typed, handle_stack_try_settle_event PROVE Typed'
<1>1. Positions'
  BY HandledOK DEF handle_stack_try_settle_event
<1>2. Current.of \in Stacks /\ Current.val \in Claims
  BY SettleObject DEF handle_stack_try_settle_event
<1>3. NewTicket(Current.of, Current.val) \/ UNCHANGED <<ticket, settled_at, ticket_claimed, settled>>
  BY DEF handle_stack_try_settle_event, insert_new_stack_settlement_ticket
<1>4. UNCHANGED <<tasks, price, row, disputes, created>>
  BY DEF handle_stack_try_settle_event
<1>5. Tables
  BY TwoParts
<1>6. ASSUME NewTicket(Current.of, Current.val) PROVE Tables'
  <2>1. ticket' \in [Stacks -> Claims \cup {0}] /\ settled_at' \in [Stacks -> {0, 1}]
    BY <1>2, <1>5, <1>6 DEF NewTicket, Tables
  <2>2. ticket_claimed' \in [Stacks -> BOOLEAN]
    BY <1>2, <1>5, <1>6 DEF NewTicket, Tables
  <2>3. settled' \in Nat
    <3>1. Current.val \in Nat /\ settled \in Nat
      BY <1>2, <1>5, AmountsAssumption DEF Tables
    <3>2. settled' = settled + Current.val
      BY <1>6 DEF NewTicket
    <3>3. QED
      BY <3>1, <3>2
  <2>4. QED
    BY <1>4, <1>5, <2>1, <2>2, <2>3 DEF Tables
<1>7. ASSUME UNCHANGED <<ticket, settled_at, ticket_claimed, settled>> PROVE Tables'
  BY <1>4, <1>5, <1>7 DEF Tables
<1>8. Tables'
  BY <1>3, <1>6, <1>7
<1>9. QED
  BY <1>1, <1>8, TwoPartsNext

LEMMA ClaimedHandler == ASSUME Typed, handle_claimed_stack_event PROVE Typed'
<1>1. Positions'
  BY HandledOK DEF handle_claimed_stack_event
<1>2. Current.of \in Stacks
  BY CurrentOK DEF handle_claimed_stack_event, EventOK, AboutStack
<1>3. row' \in [Stacks -> {"none", "open", "locked", "claimed"}]
  BY <1>2 DEF handle_claimed_stack_event, update_stack_claimed, Typed, TypeOK
<1>4. UNCHANGED <<tasks, price, ticket, settled_at, ticket_claimed, disputes, created, settled>>
  BY DEF handle_claimed_stack_event
<1>5. Tables'
  BY <1>3, <1>4, TwoParts DEF Tables
<1>6. QED
  BY <1>1, <1>5, TwoPartsNext

LEMMA AttestationHandler ==
  ASSUME Typed, handle_new_stack_settlement_attestation_event PROVE Typed'
<1>1. Positions'
  BY HandledOK DEF handle_new_stack_settlement_attestation_event
<1>2. UNCHANGED <<tasks, price, row, ticket, settled_at, ticket_claimed, disputes, created, settled>>
  BY DEF handle_new_stack_settlement_attestation_event,
         update_stack_settlement_ticket_with_attestation_commitments
<1>3. Tables'
  BY <1>2, TwoParts DEF Tables
<1>4. QED
  BY <1>1, <1>3, TwoPartsNext

LEMMA SettledHandler == ASSUME Typed, handle_stack_settlement_ticket_event PROVE Typed'
<1>1. Positions'
  BY HandledOK DEF handle_stack_settlement_ticket_event
<1>2. Current.of \in Stacks /\ Current.val = 1
  BY CurrentOK DEF handle_stack_settlement_ticket_event, EventOK, AboutStack
<1>3. settled_at' \in [Stacks -> {0, 1}]
  BY <1>2 DEF handle_stack_settlement_ticket_event, settle_stack_settlement_ticket, Typed, TypeOK
<1>4. UNCHANGED <<tasks, price, row, ticket, ticket_claimed, disputes, created, settled>>
  BY DEF handle_stack_settlement_ticket_event
<1>5. Tables'
  BY <1>3, <1>4, TwoParts DEF Tables
<1>6. QED
  BY <1>1, <1>5, TwoPartsNext

LEMMA TicketClaimedHandler ==
  ASSUME Typed, handle_stack_settlement_ticket_claimed_event PROVE Typed'
<1>1. Positions'
  BY HandledOK DEF handle_stack_settlement_ticket_claimed_event
<1>2. Current.of \in Stacks
  BY CurrentOK DEF handle_stack_settlement_ticket_claimed_event, EventOK, AboutStack
<1>3. ticket_claimed' \in [Stacks -> BOOLEAN]
  BY <1>2 DEF handle_stack_settlement_ticket_claimed_event,
              update_stack_settlement_ticket_with_claim, Typed, TypeOK
<1>4. UNCHANGED <<tasks, price, row, ticket, settled_at, disputes, created, settled>>
  BY DEF handle_stack_settlement_ticket_claimed_event
<1>5. Tables'
  BY <1>3, <1>4, TwoParts DEF Tables
<1>6. QED
  BY <1>1, <1>5, TwoPartsNext

LEMMA DisputeHandler == ASSUME Typed, handle_stack_attestation_dispute_event PROVE Typed'
<1>1. Positions'
  BY HandledOK DEF handle_stack_attestation_dispute_event
<1>2. Current.of \in Stacks \X Nodes
  BY CurrentOK DEF handle_stack_attestation_dispute_event, EventOK
<1>3. disputes' \subseteq Stacks \X Nodes
  BY <1>2 DEF handle_stack_attestation_dispute_event, insert_stack_attestation_dispute, Typed, TypeOK
<1>4. UNCHANGED <<tasks, price, row, ticket, settled_at, ticket_claimed, created, settled>>
  BY DEF handle_stack_attestation_dispute_event
<1>5. Tables'
  BY <1>3, <1>4, TwoParts DEF Tables
<1>6. QED
  BY <1>1, <1>5, TwoPartsNext

-----------------------------------------------------------------------------
(* The other steps of the state manager and its surroundings.              *)

LEMMA AcquiredTyped == ASSUME Typed, NEW s \in Stacks, handle_stack_created_event(s) PROVE Typed'
<1>1. row' \in [Stacks -> {"none", "open", "locked", "claimed"}]
  BY DEF handle_stack_created_event, insert_new_stack, Typed, TypeOK
<1>2. acquiring' \subseteq OwnStacks
  BY DEF handle_stack_created_event, Typed, TypeOK
<1>3. UNCHANGED <<chain, next, cursor, tasks, price, ticket, settled_at, ticket_claimed,
                  disputes, created, settled, lost, errors, crashes>>
  BY DEF handle_stack_created_event, faults
<1>4. QED
  BY <1>1, <1>2, <1>3 DEF Typed, TypeOK, ChainOK

LEMMA LockTyped == ASSUME Typed, NEW s \in Stacks, lock_stack(s) PROVE Typed'
<1>1. row' \in [Stacks -> {"none", "open", "locked", "claimed"}]
  BY DEF lock_stack, Typed, TypeOK
<1>2. UNCHANGED <<chain, next, cursor, acquiring, tasks, price, ticket, settled_at,
                  ticket_claimed, disputes, created, settled, lost, errors, crashes>>
  BY DEF lock_stack, faults
<1>3. QED
  BY <1>1, <1>2 DEF Typed, TypeOK, ChainOK

LEMMA ErrorTyped == ASSUME Typed, DatabaseError PROVE Typed'
<1>1. Len(chain) \in Nat /\ next \in 1 .. Len(chain) /\ cursor \in 1 .. next
  BY DEF Typed, TypeOK, ChainOK, DatabaseError
<1>2. chain' = chain /\ next' = next + 1 /\ cursor' = cursor
  BY DEF DatabaseError
<1>3. next' \in 1 .. Len(chain) + 1 /\ cursor' \in 1 .. next'
  BY <1>1, <1>2
<1>4. lost' \subseteq 1 .. Len(chain)
  BY <1>1 DEF DatabaseError, Typed, TypeOK
<1>5. errors' \in 0 .. MaxErrors
  BY BoundsAssumption DEF DatabaseError, Typed, TypeOK
<1>6. UNCHANGED <<acquiring, tasks, price, row, ticket, settled_at, ticket_claimed, disputes,
                  created, settled, crashes>>
  BY DEF DatabaseError, tables, stack_tables
<1>7. QED
  BY <1>2, <1>3, <1>4, <1>5, <1>6 DEF Typed, TypeOK, ChainOK

LEMMA SaveTyped == ASSUME Typed, SaveCursor PROVE Typed'
<1>1. Len(chain) \in Nat /\ next \in 1 .. Len(chain) + 1
  BY DEF Typed, TypeOK, ChainOK
<1>2. cursor' = next /\ next' = next
  BY DEF SaveCursor
<1>3. cursor' \in 1 .. next'
  BY <1>1, <1>2
<1>4. UNCHANGED <<chain, next, acquiring, tasks, price, row, ticket, settled_at, ticket_claimed,
                  disputes, created, settled, lost, errors, crashes>>
  BY DEF SaveCursor, tables, stack_tables, faults
<1>5. QED
  BY <1>3, <1>4 DEF Typed, TypeOK, ChainOK

LEMMA CrashTyped == ASSUME Typed, Crash PROVE Typed'
<1>1. Len(chain) \in Nat /\ next \in 1 .. Len(chain) + 1 /\ cursor \in 1 .. next
  BY DEF Typed, TypeOK, ChainOK
<1>2. next' = cursor /\ cursor' = cursor /\ acquiring' = {}
  BY DEF Crash
<1>3. next' \in 1 .. Len(chain) + 1 /\ cursor' \in 1 .. next'
  BY <1>1, <1>2
<1>4. crashes' \in 0 .. MaxCrashes
  BY BoundsAssumption DEF Crash, Typed, TypeOK
<1>5. UNCHANGED <<chain, tasks, price, row, ticket, settled_at, ticket_claimed, disputes,
                  created, settled, lost, errors>>
  BY DEF Crash, tables, stack_tables
<1>6. QED
  BY <1>2, <1>3, <1>4, <1>5 DEF Typed, TypeOK, ChainOK

LEMMA StutterTyped == ASSUME Typed, UNCHANGED vars PROVE Typed'
  BY DEF Typed, TypeOK, ChainOK, vars, tables, stack_tables, faults

LEMMA TypedNext == ASSUME Typed, [Next]_vars PROVE Typed'
<1>1. CASE \E t \in Tasks : TaskChanges(t)
  BY <1>1, TaskTyped
<1>2. CASE \E o \in Offers : OfferChanges(o)
  BY <1>2, OfferTyped
<1>3. CASE \E s \in Stacks : StackBought(s) \/ StackSettles(s)
  BY <1>3, BoughtTyped, SettlesTyped
<1>4. CASE \E s \in Stacks : handle_stack_created_event(s) \/ lock_stack(s)
  BY <1>4, AcquiredTyped, LockTyped
<1>5. CASE handle_atoma_event
  BY <1>5, TaskHandlers, OfferHandlers, StatsHandler, TrySettleHandler, ClaimedHandler,
     AttestationHandler, SettledHandler, TicketClaimedHandler, DisputeHandler
     DEF handle_atoma_event
<1>6. CASE DatabaseError \/ SaveCursor \/ Crash
  BY <1>6, ErrorTyped, SaveTyped, CrashTyped
<1>7. CASE UNCHANGED vars
  BY <1>7, StutterTyped
<1>8. QED
  BY <1>1, <1>2, <1>3, <1>4, <1>5, <1>6, <1>7 DEF Next

-----------------------------------------------------------------------------
(* Tickets.                                                                *)

(* Two handlers write to the tickets and their statistics, no other step. *)
LEMMA OnlyTicketHandlers ==
  ASSUME [Next]_vars
  PROVE  \/ UNCHANGED <<ticket, ticket_claimed, settled>>
         \/ handle_stack_try_settle_event
         \/ handle_stack_settlement_ticket_claimed_event
<1>1. ASSUME NEW e, Emit(e) PROVE UNCHANGED <<ticket, ticket_claimed, settled>>
  BY <1>1 DEF Emit, tables, stack_tables
<1>2. CASE \E t \in Tasks : TaskChanges(t)
  BY <1>1, <1>2 DEF TaskChanges
<1>3. CASE \E o \in Offers : OfferChanges(o)
  BY <1>1, <1>3 DEF OfferChanges
<1>4. CASE \E s \in Stacks : StackBought(s) \/ StackSettles(s)
  BY <1>1, <1>4 DEF StackBought, StackSettles
<1>5. CASE \E s \in Stacks : handle_stack_created_event(s) \/ lock_stack(s)
  BY <1>5 DEF handle_stack_created_event, lock_stack
<1>6. CASE handle_atoma_event
  BY <1>6 DEF handle_atoma_event, handle_new_task_event, handle_task_deprecation_event,
     handle_node_task_subscription_event, handle_node_task_subscription_updated_event,
     handle_node_task_unsubscription_event, handle_create_stack_stats,
     handle_claimed_stack_event, handle_new_stack_settlement_attestation_event,
     update_stack_settlement_ticket_with_attestation_commitments,
     handle_stack_settlement_ticket_event, handle_stack_attestation_dispute_event, stack_tables
<1>7. CASE DatabaseError \/ SaveCursor \/ Crash
  BY <1>7 DEF DatabaseError, SaveCursor, Crash, tables, stack_tables
<1>8. CASE UNCHANGED vars
  BY <1>8 DEF vars, tables, stack_tables
<1>9. QED
  BY <1>2, <1>3, <1>4, <1>5, <1>6, <1>7, <1>8 DEF Next

(* A claimed ticket is there, and stays claimed. *)
LEMMA UnclaimedNext ==
  ASSUME Typed, Unclaimed, [Next]_vars
  PROVE  Unclaimed' /\ \A s \in Stacks : ticket_claimed[s] => ticket_claimed'[s]
<1>1. ticket \in [Stacks -> Claims \cup {0}] /\ ticket_claimed \in [Stacks -> BOOLEAN]
  BY DEF Typed, TypeOK
<1>2. CASE UNCHANGED <<ticket, ticket_claimed, settled>>
  BY <1>2 DEF Unclaimed
<1>3. CASE handle_stack_try_settle_event
  <2>1. Current.of \in Stacks
    BY <1>3, SettleObject DEF handle_stack_try_settle_event
  <2>2. \/ UNCHANGED <<ticket, ticket_claimed>>
        \/ /\ ticket[Current.of] = 0
           /\ ticket' = [ticket EXCEPT ![Current.of] = Current.val]
           /\ ticket_claimed' = [ticket_claimed EXCEPT ![Current.of] = FALSE]
    BY <1>3 DEF handle_stack_try_settle_event, insert_new_stack_settlement_ticket, NewTicket
  <2>3. QED
    BY <1>1, <2>1, <2>2 DEF Unclaimed
<1>4. CASE handle_stack_settlement_ticket_claimed_event
  <2>1. Current.of \in Stacks
    BY <1>4, CurrentOK DEF handle_stack_settlement_ticket_claimed_event, EventOK, AboutStack
  <2>2. /\ ticket' = ticket
        /\ \/ ticket_claimed' = ticket_claimed
           \/ /\ ticket[Current.of] # 0
              /\ ticket_claimed' = [ticket_claimed EXCEPT ![Current.of] = TRUE]
    BY <1>4 DEF handle_stack_settlement_ticket_claimed_event,
                update_stack_settlement_ticket_with_claim
  <2>3. QED
    BY <1>1, <2>1, <2>2 DEF Unclaimed
<1>5. QED
  BY <1>2, <1>3, <1>4, OnlyTicketHandlers

(* A new ticket adds its units to a sum in which the stack counted zero. *)
LEMMA CountedNext == ASSUME Typed, Counted, [Next]_vars PROVE Counted'
<1>1. ticket \in [Stacks -> Claims \cup {0}] /\ settled \in Nat
  BY DEF Typed, TypeOK
<1>2. CASE UNCHANGED <<ticket, ticket_claimed, settled>>
  BY <1>2 DEF Counted, IsSum, SumOver, Units
<1>3. CASE handle_stack_settlement_ticket_claimed_event
  BY <1>3 DEF handle_stack_settlement_ticket_claimed_event, Counted, IsSum, SumOver, Units
<1>4. CASE handle_stack_try_settle_event
  <2>1. Current.of \in Stacks /\ Current.val \in Claims
    BY <1>4, SettleObject DEF handle_stack_try_settle_event
  <2>2. \/ UNCHANGED <<ticket, settled>>
        \/ /\ ticket[Current.of] = 0
           /\ ticket' = [ticket EXCEPT ![Current.of] = Current.val]
           /\ settled' = settled + Current.val
    BY <1>4 DEF handle_stack_try_settle_event, insert_new_stack_settlement_ticket, NewTicket
  <2>3. CASE UNCHANGED <<ticket, settled>>
    BY <2>3 DEF Counted, IsSum, SumOver, Units
  <2>4. ASSUME ticket[Current.of] = 0,
               ticket' = [ticket EXCEPT ![Current.of] = Current.val],
               settled' = settled + Current.val
        PROVE  Counted'
    <3>1. PICK s \in Stacks, c \in Claims :
            ticket[s] = 0 /\ ticket' = [ticket EXCEPT ![s] = c] /\ settled' = settled + c
      BY <2>1, <2>4
    <3>2. PICK after : after = ticket'
      OBVIOUS
    <3>3. ticket[s] \in Nat /\ c \in Nat
      BY <3>1, AmountsAssumption
    <3>4. after[s] = c /\ \A j \in Stacks \ {s} : after[j] = ticket[j]
      BY <1>1, <3>1, <3>2
    <3>5. IsSum(settled - ticket[s], after, Stacks \ {s})
      BY <3>3, <3>4, SumLeave DEF Counted
    <3>6. settled - ticket[s] = settled
      BY <1>1, <3>1
    <3>7. IsSum(settled + after[s], after, (Stacks \ {s}) \cup {s})
      BY <3>3, <3>4, <3>5, <3>6, SumJoin
    <3>8. (Stacks \ {s}) \cup {s} = Stacks
      OBVIOUS
    <3>9. IsSum(settled', after, Stacks)
      BY <3>1, <3>4, <3>7, <3>8
    <3>10. QED
      BY <3>2, <3>9 DEF Counted, IsSum, SumOver, Units
  <2>5. QED
    BY <2>2, <2>3, <2>4
<1>5. QED
  BY <1>2, <1>3, <1>4, OnlyTicketHandlers

-----------------------------------------------------------------------------
(* Rows of stacks.                                                         *)

(* A row that is locked or claimed is never open again. *)
LEMMA RowStaysClosed ==
  ASSUME Typed, [Next]_vars, NEW s \in Stacks, row[s] # "none", row[s] # "open"
  PROVE  row'[s] # "open"
<1>1. row \in [Stacks -> {"none", "open", "locked", "claimed"}]
  BY DEF Typed, TypeOK
<1>2. ASSUME NEW e, Emit(e) PROVE row' = row
  BY <1>2 DEF Emit, tables, stack_tables
<1>3. CASE \E t \in Tasks : TaskChanges(t)
  BY <1>2, <1>3 DEF TaskChanges
<1>4. CASE \E o \in Offers : OfferChanges(o)
  BY <1>2, <1>4 DEF OfferChanges
<1>5. CASE \E u \in Stacks : StackBought(u) \/ StackSettles(u)
  BY <1>2, <1>5 DEF StackBought, StackSettles
<1>6. CASE \E u \in Stacks : handle_stack_created_event(u) \/ lock_stack(u)
  BY <1>1, <1>6 DEF handle_stack_created_event, insert_new_stack, lock_stack
<1>7. CASE handle_claimed_stack_event
  BY <1>1, <1>7 DEF handle_claimed_stack_event, update_stack_claimed
<1>8. CASE handle_atoma_event /\ ~handle_claimed_stack_event
  BY <1>8 DEF handle_atoma_event, handle_new_task_event, handle_task_deprecation_event,
     handle_node_task_subscription_event, handle_node_task_subscription_updated_event,
     handle_node_task_unsubscription_event, handle_create_stack_stats,
     handle_stack_try_settle_event, handle_new_stack_settlement_attestation_event,
     handle_stack_settlement_ticket_event, handle_stack_settlement_ticket_claimed_event,
     handle_stack_attestation_dispute_event, stack_tables
<1>9. CASE DatabaseError \/ SaveCursor \/ Crash
  BY <1>9 DEF DatabaseError, SaveCursor, Crash, tables, stack_tables
<1>10. CASE UNCHANGED vars
  BY <1>10 DEF vars, tables, stack_tables
<1>11. QED
  BY <1>3, <1>4, <1>5, <1>6, <1>7, <1>8, <1>9, <1>10 DEF Next

-----------------------------------------------------------------------------
(* The theorems.                                                           *)

LEMMA InitInv == ASSUME Init PROVE ChainInv
<1>1. chain = <<>> /\ next = 1 /\ cursor = 1 /\ acquiring = {} /\ lost = {}
  BY DEF Init
<1>2. chain \in Seq(Events) /\ Len(chain) = 0
  BY <1>1
<1>3. Positions
  BY <1>1, <1>2, BoundsAssumption DEF Init, Positions, ChainOK
<1>4. Tables
  BY DEF Init, Tables
<1>5. Typed
  BY <1>3, <1>4, TwoParts
<1>6. Unclaimed
  BY DEF Init, Unclaimed
<1>7. Units(ticket, Stacks) = {}
  BY DEF Init, Units
<1>8. Counted
  BY <1>7, FS_EmptySet DEF Init, Counted, IsSum, SumOver
<1>9. QED
  BY <1>5, <1>6, <1>8 DEF ChainInv

LEMMA InvNext == ASSUME ChainInv, [Next]_vars PROVE ChainInv'
  BY TypedNext, UnclaimedNext, CountedNext DEF ChainInv

LEMMA ChainInvHolds == Spec => []ChainInv
<1>1. Init => ChainInv
  BY InitInv
<1>2. ChainInv /\ [Next]_vars => ChainInv'
  BY InvNext
<1>3. QED
  BY <1>1, <1>2, PTL DEF Spec

(* Whatever the chain emits, and whatever errors and restarts do, the      *)
(* cursors stay within the chain and the tables keep their columns' types: *)
(* every event that handle_atoma_event takes names an object that exists.  *)
THEOREM ChainTypes == Spec => []TypeOK
<1>1. ChainInv => TypeOK
  BY DEF ChainInv, Typed
<1>2. QED
  BY <1>1, ChainInvHolds, PTL

(* insert_new_stack_settlement_ticket counts a ticket's units exactly once *)
(* in stats_stacks, for any number of stacks and of restarts that bring    *)
(* its event again.                                                        *)
THEOREM UnitsSettledOnce == Spec => []SettledCountedOnce
<1>1. ChainInv => SettledCountedOnce
  BY DEF ChainInv, Counted, IsSum, SettledCountedOnce
<1>2. QED
  BY <1>1, ChainInvHolds, PTL

(* A stack that get_stacks_for_model no longer returns, being locked,      *)
(* claimed or with a claimed ticket, is never returned again, whatever     *)
(* events come a second time.                                              *)
THEOREM StacksStayClosed == Spec => NoComeback
<1>1. ASSUME ChainInv, [Next]_vars, NEW s \in Stacks, row[s] # "none", ~Offered(s)
      PROVE  ~Offered(s)'
  <2>1. Typed /\ Unclaimed
    BY <1>1 DEF ChainInv
  <2>2. CASE row[s] # "open"
    <3>1. row'[s] # "open"
      BY <1>1, <2>1, <2>2, RowStaysClosed
    <3>2. QED
      BY <3>1 DEF Offered
  <2>3. CASE row[s] = "open"
    <3>1. ticket_claimed[s]
      BY <1>1, <2>3 DEF Offered
    <3>2. ticket_claimed'[s]
      BY <1>1, <2>1, <3>1, UnclaimedNext
    <3>3. QED
      BY <3>2 DEF Offered
  <2>4. QED
    BY <2>2, <2>3
<1>2. ChainInv /\ [Next]_vars
        => [\A s \in Stacks : row[s] # "none" /\ ~Offered(s) => ~Offered(s)']_vars
  BY <1>1
<1>3. QED
  BY <1>2, ChainInvHolds, PTL DEF Spec, NoComeback

-----------------------------------------------------------------------------
(* The tables and the chain.  An object's part of the table is what the    *)
(* chain said about it at some position: not before the next event that    *)
(* will be handled, and possibly after it, when the proxy has restarted.   *)

Is(i, type, o) == chain[i].type = type /\ chain[i].of = o
Before(type, o, k) == \E i \in 1 .. k - 1 : Is(i, type, o)

(* No event was lost. *)
Kept(type, o) == \A i \in lost : ~Is(i, type, o)

(* Tasks are registered once, and deprecated after that. *)
TaskIs(t, k, v) ==
  \/ v = "none" /\ ~Before("TaskRegistered", t, k) /\ ~Before("TaskDeprecation", t, k)
  \/ v = "live" /\ Before("TaskRegistered", t, k) /\ ~Before("TaskDeprecation", t, k)
  \/ v = "deprecated" /\ Before("TaskDeprecation", t, k)
TaskLegal(k, t) ==
  /\ Is(k, "TaskRegistered", t) => TaskIs(t, k, "none")
  /\ Is(k, "TaskDeprecation", t) => Before("TaskRegistered", t, k)
TaskOK(t) ==
  /\ \A k \in 1 .. Len(chain) : TaskLegal(k, t)
  /\ Kept("TaskRegistered", t) /\ Kept("TaskDeprecation", t) =>
       \E h \in next .. Len(chain) + 1 : TaskIs(t, h, tasks[t])

(* Offers begin without a price, and change or end with one. *)
IsOffer(i, o) == chain[i].type \in OfferEvents /\ chain[i].of = o
IsLast(o, k, i) == /\ i \in 1 .. k - 1 /\ IsOffer(i, o)
                   /\ \A j \in 1 .. k - 1 : IsOffer(j, o) => j <= i
PriceFrom(i) == IF chain[i].type = "NodeUnsubscribedFromTask" THEN 0 ELSE chain[i].val
PriceIs(o, k, p) ==
  \/ p = 0 /\ \A j \in 1 .. k - 1 : ~IsOffer(j, o)
  \/ \E i \in 1 .. k - 1 : IsLast(o, k, i) /\ p = PriceFrom(i)
OfferLegal(k, o) ==
  /\ Is(k, "NodeSubscribedToTask", o) => PriceIs(o, k, 0)
  /\ Is(k, "NodeSubscriptionUpdated", o) => \E p \in Prices : PriceIs(o, k, p)
OfferOK(o) ==
  /\ \A k \in 1 .. Len(chain) : OfferLegal(k, o)
  /\ (\A i \in lost : ~IsOffer(i, o)) => \E h \in next .. Len(chain) + 1 : PriceIs(o, h, price[o])

(* A stack is settled once, and its ticket comes before what is done to it. *)
TicketLegal(k, s) ==
  /\ Is(k, "StackTrySettle", s) =>
       /\ ~Before("StackTrySettle", s, k) /\ ~Before("StackSettlementTicket", s, k)
       /\ ~Before("StackSettlementTicketClaimed", s, k)
  /\ Is(k, "StackSettlementTicket", s) \/ Is(k, "StackSettlementTicketClaimed", s) =>
       Before("StackTrySettle", s, k)
TicketFrom(i, s) == Is(i, "StackTrySettle", s) /\ ticket[s] = chain[i].val
TicketOK(s) ==
  /\ \A k \in 1 .. Len(chain) : TicketLegal(k, s)
  /\ ticket[s] # 0 => \E i \in 1 .. Len(chain) : TicketFrom(i, s)
  /\ settled_at[s] # 0 => Before("StackSettlementTicket", s, Len(chain) + 1)
  /\ ticket_claimed[s] => Before("StackSettlementTicketClaimed", s, Len(chain) + 1)
  /\ Kept("StackTrySettle", s) =>
       /\ Before("StackTrySettle", s, next) => ticket[s] # 0
       /\ Kept("StackSettlementTicket", s) /\ Before("StackSettlementTicket", s, next) => settled_at[s] # 0
       /\ Kept("StackSettlementTicketClaimed", s) /\ Before("StackSettlementTicketClaimed", s, next)
            => ticket_claimed[s]

(* A stack is claimed after it was created, and stored by then. *)
RowOK(s) ==
  /\ \A k \in 1 .. Len(chain) : Is(k, "ClaimedStack", s) => Before("StackCreated", s, k)
  /\ s \in acquiring => ~Before("ClaimedStack", s, Len(chain) + 1)
  /\ row[s] = "claimed" => Before("ClaimedStack", s, Len(chain) + 1)
  /\ Kept("ClaimedStack", s) /\ Before("ClaimedStack", s, next) => row[s] \in {"none", "claimed"}

FollowInv ==
  /\ \A t \in Tasks : TaskOK(t)
  /\ \A o \in Offers : OfferOK(o)
  /\ \A s \in Stacks : TicketOK(s) /\ RowOK(s)

(* The chain grows at its end, or not at all. *)
Extends ==
  /\ Len(chain) \in Nat /\ Len(chain') \in Nat /\ Len(chain) <= Len(chain')
  /\ \A j \in 1 .. Len(chain) : chain'[j] = chain[j]

LEMMA PrefixStays ==
  ASSUME Extends, NEW k \in 1 .. Len(chain) + 1, NEW o
  PROVE  /\ \A type : Before(type, o, k)' <=> Before(type, o, k)
         /\ \A p : PriceIs(o, k, p)' <=> PriceIs(o, k, p)
         /\ \A v : TaskIs(o, k, v)' <=> TaskIs(o, k, v)
<1>1. PICK n \in Nat : n = Len(chain) /\ k \in 1 .. n + 1
  BY DEF Extends
<1>2. \A j \in 1 .. k - 1 : j \in 1 .. n
  BY <1>1
<1>3. \A j \in 1 .. k - 1 : chain'[j] = chain[j]
  BY <1>1, <1>2 DEF Extends
<1>4. \A type : Before(type, o, k)' <=> Before(type, o, k)
  BY <1>3 DEF Before, Is
<1>5. \A j \in 1 .. k - 1 : (IsOffer(j, o)' <=> IsOffer(j, o)) /\ PriceFrom(j)' = PriceFrom(j)
  BY <1>3 DEF IsOffer, PriceFrom
<1>6. \A i \in 1 .. k - 1 : IsLast(o, k, i)' <=> IsLast(o, k, i)
  BY <1>5 DEF IsLast
<1>7. \A p : PriceIs(o, k, p)' <=> PriceIs(o, k, p)
  BY <1>5, <1>6 DEF PriceIs
<1>8. \A v : TaskIs(o, k, v)' <=> TaskIs(o, k, v)
  BY <1>4 DEF TaskIs
<1>9. QED
  BY <1>4, <1>7, <1>8

LEMMA EventsStay ==
  ASSUME Extends, NEW k \in 1 .. Len(chain), NEW o
  PROVE  /\ k \in 1 .. Len(chain') /\ chain'[k] = chain[k]
         /\ \A type : Is(k, type, o)' <=> Is(k, type, o)
         /\ IsOffer(k, o)' <=> IsOffer(k, o)
         /\ TaskLegal(k, o)' <=> TaskLegal(k, o)
         /\ OfferLegal(k, o)' <=> OfferLegal(k, o)
         /\ TicketLegal(k, o)' <=> TicketLegal(k, o)
<1>1. chain'[k] = chain[k] /\ k \in 1 .. Len(chain) + 1 /\ k \in 1 .. Len(chain')
  BY DEF Extends
<1>2. \A type : Is(k, type, o)' <=> Is(k, type, o)
  BY <1>1 DEF Is
<1>3. IsOffer(k, o)' <=> IsOffer(k, o)
  BY <1>1 DEF IsOffer
<1>4. /\ \A type : Before(type, o, k)' <=> Before(type, o, k)
      /\ \A p : PriceIs(o, k, p)' <=> PriceIs(o, k, p)
      /\ \A v : TaskIs(o, k, v)' <=> TaskIs(o, k, v)
  BY <1>1, PrefixStays
<1>5. TaskLegal(k, o)' <=> TaskLegal(k, o)
  BY <1>2, <1>4 DEF TaskLegal
<1>6. OfferLegal(k, o)' <=> OfferLegal(k, o)
  BY <1>2, <1>4 DEF OfferLegal
<1>7. TicketLegal(k, o)' <=> TicketLegal(k, o)
  BY <1>2, <1>4 DEF TicketLegal
<1>8. QED
  BY <1>1, <1>2, <1>3, <1>5, <1>6, <1>7

(* What is said at the next position. *)
LEMMA BeforeNext ==
  ASSUME NEW type, NEW o, NEW k \in Nat, k > 0
  PROVE  Before(type, o, k + 1) <=> Before(type, o, k) \/ Is(k, type, o)
<1>1. \A i : i \in 1 .. (k + 1) - 1 <=> i \in 1 .. k - 1 \/ i = k
  OBVIOUS
<1>2. QED
  BY <1>1 DEF Before

LEMMA BeforeGrows ==
  ASSUME NEW type, NEW o, NEW k \in Nat, NEW h \in Nat, k <= h, Before(type, o, k)
  PROVE  Before(type, o, h)
<1>1. \A i \in 1 .. k - 1 : i \in 1 .. h - 1
  OBVIOUS
<1>2. QED
  BY <1>1 DEF Before

LEMMA PriceNext ==
  ASSUME NEW o, NEW k \in Nat, k > 0, NEW p
  PROVE  /\ IsOffer(k, o) => PriceIs(o, k + 1, PriceFrom(k))
         /\ ~IsOffer(k, o) => (PriceIs(o, k + 1, p) <=> PriceIs(o, k, p))
<1>1. \A i : i \in 1 .. (k + 1) - 1 <=> i \in 1 .. k - 1 \/ i = k
  OBVIOUS
<1>2. ASSUME IsOffer(k, o) PROVE PriceIs(o, k + 1, PriceFrom(k))
  <2>1. \A j \in 1 .. (k + 1) - 1 : j <= k
    OBVIOUS
  <2>2. IsLast(o, k + 1, k) /\ k \in 1 .. (k + 1) - 1
    BY <1>2, <2>1 DEF IsLast
  <2>3. QED
    BY <2>2 DEF PriceIs
<1>3. ASSUME ~IsOffer(k, o) PROVE PriceIs(o, k + 1, p) <=> PriceIs(o, k, p)
  <2>1. \A i : IsLast(o, k + 1, i) <=> IsLast(o, k, i)
    BY <1>1, <1>3 DEF IsLast
  <2>2. QED
    BY <1>1, <1>3, <2>1 DEF PriceIs, IsLast
<1>4. QED
  BY <1>2, <1>3

LEMMA PriceUnique ==
  ASSUME NEW o, NEW k \in Nat, NEW p, NEW q, PriceIs(o, k, p), PriceIs(o, k, q)
  PROVE  p = q
<1>1. ASSUME NEW i \in 1 .. k - 1, NEW j \in 1 .. k - 1, IsLast(o, k, i), IsLast(o, k, j) PROVE i = j
  BY <1>1 DEF IsLast
<1>2. QED
  BY <1>1 DEF PriceIs, IsLast

LEMMA ChainPriceIs ==
  ASSUME NEW o, NEW n \in Nat, n = Len(chain), chain \in Seq(Events)
  PROVE  PriceIs(o, n + 1, ChainPrice(o))
<1>1. PICK S : S = AboutOffer(o)
  OBVIOUS
<1>2. DOMAIN chain = 1 .. n
  OBVIOUS
<1>3. S = {i \in 1 .. n : IsOffer(i, o)}
  BY <1>1, <1>2 DEF AboutOffer, Of, IsOffer
<1>4. CASE S = {}
  <2>1. ChainPrice(o) = 0
    BY <1>1, <1>4 DEF ChainPrice
  <2>2. QED
    BY <1>3, <1>4, <2>1 DEF PriceIs
<1>5. CASE S # {}
  <2>1. PICK m : m = LastOf(S)
    OBVIOUS
  <2>2. \E x \in S : \A y \in S : y <= x
    BY <1>3, <1>5, LargestExists
  <2>3. m \in S /\ \A y \in S : y <= m
    BY <2>1, <2>2 DEF LastOf
  <2>4. ChainPrice(o) = PriceFrom(m)
    BY <1>1, <1>5, <2>1 DEF ChainPrice, PriceFrom
  <2>5. IsLast(o, n + 1, m) /\ m \in 1 .. (n + 1) - 1
    BY <1>3, <2>3 DEF IsLast
  <2>6. QED
    BY <2>4, <2>5 DEF PriceIs
<1>6. QED
  BY <1>4, <1>5

LEMMA HappenedIs ==
  ASSUME NEW type, NEW o, NEW n \in Nat, n = Len(chain), chain \in Seq(Events)
  PROVE  Happened(type, o) <=> Before(type, o, n + 1)
<1>1. DOMAIN chain = 1 .. n /\ 1 .. (n + 1) - 1 = 1 .. n
  OBVIOUS
<1>2. QED
  BY <1>1 DEF Happened, Of, Before, Is

LEMMA ChainPriceTyped ==
  ASSUME NEW o, NEW k \in Nat, chain \in Seq(Events), k <= Len(chain) + 1, NEW p, PriceIs(o, k, p), p # 0
  PROVE  p \in Prices
<1>1. PICK i \in 1 .. k - 1 : IsLast(o, k, i) /\ p = PriceFrom(i)
  BY DEF PriceIs
<1>2. chain[i] \in Events
  BY <1>1
<1>3. chain[i].type \in OfferEvents /\ chain[i].type # "NodeUnsubscribedFromTask" /\ p = chain[i].val
  BY <1>1 DEF IsLast, IsOffer, PriceFrom
<1>4. chain[i].type \in Priced
  BY <1>3 DEF OfferEvents, Priced
<1>5. QED
  BY <1>2, <1>3, <1>4 DEF Events, EventOK

-----------------------------------------------------------------------------
(* The kinds of steps.                                                     *)

(* Nothing is handled: the chain grows, or the proxy goes back. *)
Waits ==
  /\ Extends /\ next \in 1 .. Len(chain) + 1 /\ next' \in 1 .. next
  /\ lost \subseteq 1 .. Len(chain) /\ lost' = lost

(* The next event is handled or lost. *)
Moves ==
  /\ chain' = chain /\ Len(chain) \in Nat /\ next \in 1 .. Len(chain) /\ next' = next + 1
  /\ lost \subseteq lost'

LEMMA EmitWaits ==
  ASSUME Typed, NEW e, Emit(e)
  PROVE  /\ Waits /\ Len(chain') = Len(chain) + 1 /\ chain'[Len(chain) + 1] = e
         /\ next' = next
         /\ UNCHANGED <<tasks, price, row, ticket, settled_at, ticket_claimed>>
<1>1. chain \in Seq(Events) /\ chain' = Append(chain, e)
  BY DEF Typed, ChainOK, Emit
<1>2. Len(chain) \in Nat /\ Len(chain') = Len(chain) + 1 /\ chain'[Len(chain) + 1] = e
      /\ \A j \in 1 .. Len(chain) : chain'[j] = chain[j]
  BY <1>1
<1>3. Extends
  BY <1>2 DEF Extends
<1>4. UNCHANGED <<next, lost, tasks, price, row, ticket, settled_at, ticket_claimed>>
  BY DEF Emit, tables, stack_tables, faults
<1>5. next \in 1 .. Len(chain) + 1 /\ lost \subseteq 1 .. Len(chain)
  BY DEF Typed, TypeOK
<1>6. next' \in 1 .. next
  BY <1>2, <1>4, <1>5
<1>7. QED
  BY <1>2, <1>3, <1>4, <1>5, <1>6 DEF Waits

(* The steps of the proxy and the subscriber, and stuttering. *)
Quiet ==
  \/ \E s \in Stacks : handle_stack_created_event(s) \/ lock_stack(s)
  \/ SaveCursor \/ Crash \/ UNCHANGED vars

LEMMA QuietWaits ==
  ASSUME Typed, Quiet
  PROVE  Waits /\ UNCHANGED <<chain, tasks, price, ticket, settled_at, ticket_claimed>>
<1>1. UNCHANGED <<chain, lost, tasks, price, ticket, settled_at, ticket_claimed>>
  BY DEF Quiet, handle_stack_created_event, lock_stack, SaveCursor, Crash, vars, tables, stack_tables, faults
<1>2. Len(chain) \in Nat /\ next \in 1 .. Len(chain) + 1 /\ cursor \in 1 .. next /\ lost \subseteq 1 .. Len(chain)
  BY DEF Typed, TypeOK, ChainOK
<1>3. Extends
  BY <1>1, <1>2 DEF Extends
<1>4. next' = next \/ next' = cursor
  BY DEF Quiet, handle_stack_created_event, lock_stack, SaveCursor, Crash, vars
<1>5. next' \in 1 .. next
  BY <1>2, <1>4
<1>6. QED
  BY <1>1, <1>2, <1>3, <1>5 DEF Waits

LEMMA ErrorMoves ==
  ASSUME Typed, DatabaseError
  PROVE  Moves /\ next \in lost' /\ UNCHANGED <<tasks, price, row, ticket, settled_at, ticket_claimed>>
<1>1. Len(chain) \in Nat /\ next \in 1 .. Len(chain)
  BY DEF Typed, TypeOK, ChainOK, DatabaseError
<1>2. QED
  BY <1>1 DEF DatabaseError, Moves, tables, stack_tables

(* What each handler leaves alone. *)
LEMMA HandlerMoves ==
  ASSUME Typed, handle_atoma_event
  PROVE  /\ Moves /\ lost' = lost /\ acquiring' = acquiring
         /\ \/ handle_new_task_event \/ handle_task_deprecation_event
            \/ tasks' = tasks /\ Current.type \notin AboutTask
         /\ \/ handle_node_task_subscription_event \/ handle_node_task_subscription_updated_event
            \/ handle_node_task_unsubscription_event
            \/ price' = price /\ Current.type \notin OfferEvents
         /\ \/ handle_stack_try_settle_event \/ handle_stack_settlement_ticket_event
            \/ handle_stack_settlement_ticket_claimed_event
            \/ /\ UNCHANGED <<ticket, settled_at, ticket_claimed>>
               /\ Current.type \notin AboutStack \ {"ClaimedStack"}
         /\ handle_claimed_stack_event \/ (row' = row /\ Current.type # "ClaimedStack")
<1>1. Handled /\ \E type : Arrives(type)
  BY DEF handle_atoma_event, handle_new_task_event, handle_task_deprecation_event,
     handle_node_task_subscription_event, handle_node_task_subscription_updated_event,
     handle_node_task_unsubscription_event, handle_create_stack_stats,
     handle_stack_try_settle_event, handle_claimed_stack_event,
     handle_new_stack_settlement_attestation_event,
     handle_stack_settlement_ticket_event, handle_stack_settlement_ticket_claimed_event,
     handle_stack_attestation_dispute_event
<1>2. Len(chain) \in Nat /\ next \in 1 .. Len(chain)
  BY <1>1 DEF Typed, TypeOK, ChainOK, Arrives
<1>3. Moves /\ lost' = lost /\ acquiring' = acquiring
  BY <1>1, <1>2 DEF Moves, Handled, faults
<1>4. \/ handle_new_task_event \/ handle_task_deprecation_event
      \/ tasks' = tasks /\ Current.type \notin AboutTask
  BY DEF handle_atoma_event,
     handle_node_task_subscription_event, handle_node_task_subscription_updated_event,
     handle_node_task_unsubscription_event, handle_create_stack_stats,
     handle_stack_try_settle_event, handle_claimed_stack_event,
     handle_new_stack_settlement_attestation_event,
     handle_stack_settlement_ticket_event, handle_stack_settlement_ticket_claimed_event,
     handle_stack_attestation_dispute_event, Arrives, AboutTask
<1>5. \/ handle_node_task_subscription_event \/ handle_node_task_subscription_updated_event
      \/ handle_node_task_unsubscription_event
      \/ price' = price /\ Current.type \notin OfferEvents
  BY DEF handle_atoma_event, handle_new_task_event, handle_task_deprecation_event,
     handle_create_stack_stats, handle_stack_try_settle_event, handle_claimed_stack_event,
     handle_new_stack_settlement_attestation_event,
     handle_stack_settlement_ticket_event, handle_stack_settlement_ticket_claimed_event,
     handle_stack_attestation_dispute_event, Arrives, OfferEvents
<1>6. \/ handle_stack_try_settle_event \/ handle_stack_settlement_ticket_event
      \/ handle_stack_settlement_ticket_claimed_event
      \/ /\ UNCHANGED <<ticket, settled_at, ticket_claimed>>
         /\ Current.type \notin AboutStack \ {"ClaimedStack"}
  BY DEF handle_atoma_event, handle_new_task_event, handle_task_deprecation_event,
     handle_node_task_subscription_event, handle_node_task_subscription_updated_event,
     handle_node_task_unsubscription_event, handle_create_stack_stats, handle_claimed_stack_event,
     handle_new_stack_settlement_attestation_event,
     update_stack_settlement_ticket_with_attestation_commitments,
     handle_stack_attestation_dispute_event, Arrives, AboutStack, stack_tables
<1>7. handle_claimed_stack_event \/ (row' = row /\ Current.type # "ClaimedStack")
  BY DEF handle_atoma_event, handle_new_task_event, handle_task_deprecation_event,
     handle_node_task_subscription_event, handle_node_task_subscription_updated_event,
     handle_node_task_unsubscription_event, handle_create_stack_stats,
     handle_stack_try_settle_event, handle_new_stack_settlement_attestation_event,
     handle_stack_settlement_ticket_event, handle_stack_settlement_ticket_claimed_event,
     handle_stack_attestation_dispute_event, Arrives, stack_tables
<1>8. QED
  BY <1>3, <1>4, <1>5, <1>6, <1>7

(* Every step is one of these, or the chain grows. *)
Grows ==
  \/ \E t \in Tasks : TaskChanges(t)
  \/ \E o \in Offers : OfferChanges(o)
  \/ \E s \in Stacks : StackBought(s) \/ StackSettles(s)

LEMMA StepKinds == ASSUME [Next]_vars PROVE Grows \/ Quiet \/ DatabaseError \/ handle_atoma_event
  BY DEF Next, Grows, Quiet

(* When the contract emits an event. *)
Allowed(type, o) ==
  \/ type = "TaskRegistered" /\ ~Happened("TaskRegistered", o)
  \/ type = "TaskDeprecation" /\ Happened("TaskRegistered", o)
  \/ type = "NodeSubscribedToTask" /\ ChainPrice(o) = 0
  \/ type = "NodeSubscriptionUpdated" /\ ChainPrice(o) > 0
  \/ type = "NodeUnsubscribedFromTask"
  \/ type = "StackCreated" /\ ~Happened("StackCreated", o)
  \/ type = "StackTrySettle" /\ ~Happened("StackTrySettle", o)
  \/ type \in {"StackSettlementTicket", "StackSettlementTicketClaimed"} /\ Happened("StackTrySettle", o)
  \/ type = "ClaimedStack" /\ Happened("StackCreated", o) /\ o \notin acquiring
  \/ type \in {"StackAttestationDispute", "NewStackSettlementAttestation"}

LEMMA GrowsBy ==
  ASSUME Grows
  PROVE  \E type, o, v :
           /\ Emit(Event(type, o, v)) /\ Allowed(type, o)
           /\ \A s \in acquiring' : s \in acquiring \/ (type = "StackCreated" /\ o = s)
<1>1. ASSUME NEW t \in Tasks, TaskChanges(t)
      PROVE  \E type, o, v : Emit(Event(type, o, v)) /\ Allowed(type, o) /\ acquiring' = acquiring
  BY <1>1 DEF TaskChanges, Allowed
<1>2. ASSUME NEW o \in Offers, OfferChanges(o)
      PROVE  \E type, x, v : Emit(Event(type, x, v)) /\ Allowed(type, x) /\ acquiring' = acquiring
  BY <1>2 DEF OfferChanges, Allowed
<1>3. ASSUME NEW s \in Stacks, StackBought(s)
      PROVE  \E type, o, v :
               /\ Emit(Event(type, o, v)) /\ Allowed(type, o)
               /\ \A u \in acquiring' : u \in acquiring \/ (type = "StackCreated" /\ o = u)
  <2>1. Emit(Event("StackCreated", s, 0)) /\ Allowed("StackCreated", s)
    BY <1>3 DEF StackBought, Allowed
  <2>2. \A u \in acquiring' : u \in acquiring \/ u = s
    BY <1>3 DEF StackBought
  <2>3. QED
    BY <2>1, <2>2
<1>4. ASSUME NEW s \in Stacks, StackSettles(s)
      PROVE  \E type, o, v : Emit(Event(type, o, v)) /\ Allowed(type, o) /\ acquiring' = acquiring
  <2>1. acquiring' = acquiring /\ Happened("StackCreated", s) /\ s \notin acquiring
    BY <1>4 DEF StackSettles
  <2>2. ASSUME NEW c \in Claims, ~Happened("StackTrySettle", s), Emit(Event("StackTrySettle", s, c))
        PROVE  \E type, o, v : Emit(Event(type, o, v)) /\ Allowed(type, o)
    <3>1. Allowed("StackTrySettle", s)
      BY <2>2 DEF Allowed
    <3>2. QED
      BY <2>2, <3>1
  <2>3. ASSUME NEW n \in Nodes, Emit(Event("StackAttestationDispute", <<s, n>>, 0))
        PROVE  \E type, o, v : Emit(Event(type, o, v)) /\ Allowed(type, o)
    <3>1. Allowed("StackAttestationDispute", <<s, n>>)
      BY DEF Allowed
    <3>2. QED
      BY <2>3, <3>1
  <2>4. ASSUME NEW n \in Nodes, Emit(Event("NewStackSettlementAttestation", <<s, n>>, 0))
        PROVE  \E type, o, v : Emit(Event(type, o, v)) /\ Allowed(type, o)
    <3>1. Allowed("NewStackSettlementAttestation", <<s, n>>)
      BY DEF Allowed
    <3>2. QED
      BY <2>4, <3>1
  <2>5. ASSUME Happened("StackTrySettle", s), Emit(Event("StackSettlementTicket", s, 1))
        PROVE  \E type, o, v : Emit(Event(type, o, v)) /\ Allowed(type, o)
    <3>1. Allowed("StackSettlementTicket", s)
      BY <2>5 DEF Allowed
    <3>2. QED
      BY <2>5, <3>1
  <2>6. ASSUME Happened("StackTrySettle", s), Emit(Event("StackSettlementTicketClaimed", s, 0))
        PROVE  \E type, o, v : Emit(Event(type, o, v)) /\ Allowed(type, o)
    <3>1. Allowed("StackSettlementTicketClaimed", s)
      BY <2>6 DEF Allowed
    <3>2. QED
      BY <2>6, <3>1
  <2>7. ASSUME Emit(Event("ClaimedStack", s, 0))
        PROVE  \E type, o, v : Emit(Event(type, o, v)) /\ Allowed(type, o)
    <3>1. Allowed("ClaimedStack", s)
      BY <2>1 DEF Allowed
    <3>2. QED
      BY <2>7, <3>1
  <2>8. \E type, o, v : Emit(Event(type, o, v)) /\ Allowed(type, o)
    BY <1>4, <2>2, <2>3, <2>4, <2>5, <2>6, <2>7, Zenon DEF StackSettles
  <2>9. QED
    BY <2>1, <2>8
<1>5. QED
  BY <1>1, <1>2, <1>3, <1>4 DEF Grows

LEMMA NewEvent ==
  ASSUME Typed, NEW type, NEW o, NEW v, Emit(Event(type, o, v)), NEW n \in Nat, n = Len(chain)
  PROVE  \A ty, x : Is(n + 1, ty, x)' <=> ty = type /\ x = o
<1>1. chain'[n + 1] = Event(type, o, v)
  BY EmitWaits
<1>2. QED
  BY <1>1 DEF Is, Event

LEMMA NewPosition ==
  ASSUME NEW n \in Nat, NEW m \in Nat, m = n + 1 PROVE \A k \in 1 .. m : k \in 1 .. n \/ k = n + 1
  OBVIOUS

LEMMA MovesExtends == ASSUME Moves PROVE Extends
  BY DEF Moves, Extends

-----------------------------------------------------------------------------
(* Offers.                                                                 *)

LEMMA OfferWaits ==
  ASSUME Waits, NEW o, OfferOK(o), price'[o] = price[o],
         \A k \in 1 .. Len(chain') : k \in 1 .. Len(chain) \/ OfferLegal(k, o)'
  PROVE  OfferOK(o)'
<1>1. Extends /\ lost' = lost /\ lost \subseteq 1 .. Len(chain)
  BY DEF Waits
<1>2. \A k \in 1 .. Len(chain') : OfferLegal(k, o)'
  BY <1>1, EventsStay DEF OfferOK
<1>3. ASSUME \A i \in lost' : ~IsOffer(i, o)' PROVE \E h \in next' .. Len(chain') + 1 : PriceIs(o, h, price[o])'
  <2>1. \A i \in lost : ~IsOffer(i, o)
    BY <1>1, <1>3, EventsStay
  <2>2. PICK h \in next .. Len(chain) + 1 : PriceIs(o, h, price[o])
    BY <2>1 DEF OfferOK
  <2>3. h \in 1 .. Len(chain) + 1 /\ h \in next' .. Len(chain') + 1
    BY DEF Waits, Extends
  <2>4. PICK p : p = price[o] /\ p = price'[o]
    OBVIOUS
  <2>5. PriceIs(o, h, p)'
    BY <1>1, <2>2, <2>3, <2>4, PrefixStays
  <2>6. PriceIs(o, h, price[o])'
    BY <2>4, <2>5
  <2>7. QED
    BY <2>3, <2>6
<1>4. QED
  BY <1>2, <1>3 DEF OfferOK

(* The next event is not about the offer, or lost, or changes nothing of a *)
(* table that is ahead of it.                                              *)
LEMMA OfferMoves ==
  ASSUME Moves, NEW o, OfferOK(o),
         (\A i \in lost' : ~IsOffer(i, o)) /\ (\A i \in lost : ~IsOffer(i, o)) =>
           \E h \in next + 1 .. Len(chain) + 1 : PriceIs(o, h, price'[o])
  PROVE  OfferOK(o)'
<1>1. Extends /\ chain' = chain /\ lost \subseteq lost' /\ next' = next + 1 /\ Len(chain) \in Nat
      /\ next \in 1 .. Len(chain)
  BY MovesExtends DEF Moves
<1>2. \A k \in 1 .. Len(chain') : OfferLegal(k, o)'
  BY <1>1, EventsStay DEF OfferOK
<1>3. ASSUME \A i \in lost' : ~IsOffer(i, o)' PROVE \E h \in next' .. Len(chain') + 1 : PriceIs(o, h, price[o])'
  <2>1. \A i : IsOffer(i, o)' <=> IsOffer(i, o)
    BY <1>1 DEF IsOffer
  <2>2. PICK h \in next + 1 .. Len(chain) + 1 : PriceIs(o, h, price'[o])
    BY <1>1, <1>3, <2>1
  <2>3. h \in 1 .. Len(chain) + 1 /\ h \in next' .. Len(chain') + 1
    BY <1>1
  <2>4. PICK p : p = price'[o]
    OBVIOUS
  <2>5. PriceIs(o, h, p)'
    BY <1>1, <2>2, <2>3, <2>4, PrefixStays
  <2>6. PriceIs(o, h, price[o])'
    BY <2>4, <2>5
  <2>7. QED
    BY <2>3, <2>6
<1>4. QED
  BY <1>2, <1>3 DEF OfferOK

LEMMA OfferPassed ==
  ASSUME Moves, NEW o, OfferOK(o), price'[o] = price[o], ~IsOffer(next, o) \/ next \in lost'
  PROVE  OfferOK(o)'
<1>1. next \in Nat /\ next > 0 /\ next <= Len(chain) /\ Len(chain) \in Nat
  BY DEF Moves
<1>2. ASSUME \A i \in lost' : ~IsOffer(i, o), \A i \in lost : ~IsOffer(i, o)
      PROVE  \E h \in next + 1 .. Len(chain) + 1 : PriceIs(o, h, price'[o])
  <2>1. PICK h \in next .. Len(chain) + 1 : PriceIs(o, h, price[o])
    BY <1>2 DEF OfferOK
  <2>2. CASE h = next
    <3>1. PICK k, p : k \in Nat /\ k = next /\ p = price[o]
      BY <1>1
    <3>2. PriceIs(o, k + 1, p)
      BY <1>1, <1>2, <2>1, <2>2, <3>1, PriceNext
    <3>3. next + 1 \in next + 1 .. Len(chain) + 1
      BY <1>1
    <3>4. QED
      BY <3>1, <3>2, <3>3
  <2>3. CASE h # next
    <3>1. h \in next + 1 .. Len(chain) + 1
      BY <1>1, <2>3
    <3>2. QED
      BY <2>1, <3>1
  <2>4. QED
    BY <2>2, <2>3
<1>3. QED
  BY <1>2, OfferMoves

LEMMA OfferOwn ==
  ASSUME Moves, NEW o, OfferOK(o), IsOffer(next, o), NEW k \in Nat, k = next,
         price'[o] = PriceFrom(k) \/ (price'[o] = price[o] /\ ~PriceIs(o, k, price[o]))
  PROVE  OfferOK(o)'
<1>1. next \in Nat /\ next > 0 /\ next <= Len(chain) /\ Len(chain) \in Nat
  BY DEF Moves
<1>2. ASSUME \A i \in lost : ~IsOffer(i, o)
      PROVE  \E h \in next + 1 .. Len(chain) + 1 : PriceIs(o, h, price'[o])
  <2>1. CASE price'[o] = PriceFrom(k)
    <3>1. PriceIs(o, k + 1, PriceFrom(k))
      BY <1>1, PriceNext
    <3>2. next + 1 \in next + 1 .. Len(chain) + 1
      BY <1>1
    <3>3. QED
      BY <2>1, <3>1, <3>2
  <2>2. CASE price'[o] = price[o] /\ ~PriceIs(o, k, price[o])
    <3>1. PICK h \in next .. Len(chain) + 1 : PriceIs(o, h, price[o])
      BY <1>2 DEF OfferOK
    <3>2. h # next
      BY <2>2, <3>1
    <3>3. h \in next + 1 .. Len(chain) + 1
      BY <1>1, <3>2
    <3>4. QED
      BY <2>2, <3>1, <3>3
  <2>3. QED
    BY <2>1, <2>2
<1>3. QED
  BY <1>2, OfferMoves

LEMMA OfferHandled ==
  ASSUME Typed, NEW o \in Offers, OfferOK(o),
         \/ handle_node_task_subscription_event \/ handle_node_task_subscription_updated_event
         \/ handle_node_task_unsubscription_event
  PROVE  OfferOK(o)'
<1>1. Moves /\ price \in [Offers -> Prices \cup {0}]
  BY HandlerMoves DEF handle_atoma_event, Typed, TypeOK
<1>2. PICK k \in Nat : k = next /\ k \in 1 .. Len(chain)
  BY <1>1 DEF Moves
<1>3. Current.of \in Offers
  BY CurrentOK DEF handle_node_task_subscription_event, handle_node_task_subscription_updated_event,
     handle_node_task_unsubscription_event, EventOK, OfferEvents
<1>4. /\ Current.type \in OfferEvents
      /\ \/ /\ Current.type = "NodeSubscribedToTask"
            /\ price' = IF price[Current.of] = 0 THEN [price EXCEPT ![Current.of] = Current.val] ELSE price
         \/ /\ Current.type = "NodeSubscriptionUpdated"
            /\ price' = IF price[Current.of] = 0 THEN price ELSE [price EXCEPT ![Current.of] = Current.val]
         \/ Current.type = "NodeUnsubscribedFromTask" /\ price' = [price EXCEPT ![Current.of] = 0]
  BY DEF handle_node_task_subscription_event, handle_node_task_subscription_updated_event,
     handle_node_task_unsubscription_event, subscribe_node_to_task, update_node_subscription,
     unsubscribe_node_from_task, Arrives, OfferEvents
<1>5. ASSUME Current.of # o PROVE OfferOK(o)'
  <2>1. price'[o] = price[o]
    BY <1>1, <1>3, <1>4, <1>5
  <2>2. ~IsOffer(next, o)
    BY <1>5 DEF IsOffer, Current
  <2>3. QED
    BY <1>1, <2>1, <2>2, OfferPassed
<1>6. ASSUME Current.of = o PROVE OfferOK(o)'
  <2>1. IsOffer(next, o)
    BY <1>4, <1>6 DEF IsOffer, Current
  <2>2. OfferLegal(k, o)
    BY <1>2 DEF OfferOK
  <2>3. CASE Current.type = "NodeSubscribedToTask"
    <3>1. PriceFrom(k) = Current.val /\ Is(k, "NodeSubscribedToTask", o)
      BY <1>2, <1>6, <2>3 DEF PriceFrom, Current, Is
    <3>2. PriceIs(o, k, 0)
      BY <2>2, <3>1 DEF OfferLegal
    <3>3. CASE price[o] = 0
      <4>1. price'[o] = Current.val
        BY <1>1, <1>4, <1>6, <2>3, <3>3
      <4>2. QED
        BY <1>1, <1>2, <2>1, <3>1, <4>1, OfferOwn
    <3>4. CASE price[o] # 0
      <4>1. price'[o] = price[o]
        BY <1>1, <1>4, <1>6, <2>3, <3>4
      <4>2. ~PriceIs(o, k, price[o])
        BY <3>2, <3>4, PriceUnique
      <4>3. QED
        BY <1>1, <1>2, <2>1, <4>1, <4>2, OfferOwn
    <3>5. QED
      BY <3>3, <3>4
  <2>4. CASE Current.type = "NodeSubscriptionUpdated"
    <3>1. PriceFrom(k) = Current.val /\ Is(k, "NodeSubscriptionUpdated", o)
      BY <1>2, <1>6, <2>4 DEF PriceFrom, Current, Is
    <3>2. PICK p \in Prices : PriceIs(o, k, p)
      BY <2>2, <3>1 DEF OfferLegal
    <3>3. CASE price[o] # 0
      <4>1. price'[o] = Current.val
        BY <1>1, <1>4, <1>6, <2>4, <3>3
      <4>2. QED
        BY <1>1, <1>2, <2>1, <3>1, <4>1, OfferOwn
    <3>4. CASE price[o] = 0
      <4>1. price'[o] = price[o]
        BY <1>1, <1>4, <1>6, <2>4, <3>4
      <4>2. p # 0
        BY <3>2, AmountsAssumption
      <4>3. ~PriceIs(o, k, price[o])
        BY <3>2, <3>4, <4>2, PriceUnique
      <4>4. QED
        BY <1>1, <1>2, <2>1, <4>1, <4>3, OfferOwn
    <3>5. QED
      BY <3>3, <3>4
  <2>5. CASE Current.type = "NodeUnsubscribedFromTask"
    <3>1. PriceFrom(k) = 0
      BY <1>2, <2>5 DEF PriceFrom, Current
    <3>2. price'[o] = 0
      BY <1>1, <1>4, <1>6, <2>5
    <3>3. QED
      BY <1>1, <1>2, <2>1, <3>1, <3>2, OfferOwn
  <2>6. QED
    BY <1>4, <2>3, <2>4, <2>5
<1>7. QED
  BY <1>5, <1>6

LEMMA OfferNext == ASSUME Typed, [Next]_vars, NEW o \in Offers, OfferOK(o) PROVE OfferOK(o)'
<1>1. PICK n \in Nat : n = Len(chain)
  BY DEF Typed, ChainOK
<1>2. CASE Grows
  <2>1. PICK type, x, v : Emit(Event(type, x, v)) /\ Allowed(type, x)
    BY <1>2, GrowsBy
  <2>2. Waits /\ Len(chain') = n + 1 /\ price' = price
    BY <1>1, <2>1, EmitWaits
  <2>3. OfferLegal(n + 1, o)'
    <3>1. \A ty, y : Is(n + 1, ty, y)' <=> ty = type /\ y = x
      BY <1>1, <2>1, NewEvent
    <3>2. n + 1 \in 1 .. Len(chain) + 1 /\ Extends /\ chain \in Seq(Events)
      BY <1>1, <2>2 DEF Waits, Typed, ChainOK
    <3>3. PriceIs(o, n + 1, ChainPrice(o))
      BY <1>1, <3>2, ChainPriceIs
    <3>4. PICK p : p = ChainPrice(o)
      OBVIOUS
    <3>5. PriceIs(o, n + 1, p)'
      BY <3>2, <3>3, <3>4, PrefixStays
    <3>6. ASSUME Is(n + 1, "NodeSubscribedToTask", o)' PROVE PriceIs(o, n + 1, 0)'
      <4>1. p = 0
        BY <2>1, <3>1, <3>4, <3>6 DEF Allowed
      <4>2. QED
        BY <3>5, <4>1
    <3>7. ASSUME Is(n + 1, "NodeSubscriptionUpdated", o)' PROVE \E q \in Prices : PriceIs(o, n + 1, q)'
      <4>1. p > 0
        BY <2>1, <3>1, <3>4, <3>7 DEF Allowed
      <4>2. p \in Prices
        BY <1>1, <3>2, <3>3, <3>4, <4>1, ChainPriceTyped
      <4>3. QED
        BY <3>5, <4>2
    <3>8. QED
      BY <3>6, <3>7 DEF OfferLegal
  <2>4. QED
    BY <1>1, <2>2, <2>3, NewPosition, OfferWaits
<1>3. CASE Quiet
  <2>1. Waits /\ chain' = chain /\ price' = price
    BY <1>3, QuietWaits
  <2>2. QED
    BY <2>1, OfferWaits
<1>4. CASE DatabaseError
  BY <1>4, ErrorMoves, OfferPassed
<1>5. CASE handle_atoma_event
  <2>1. ASSUME Moves, price' = price, Current.type \notin OfferEvents PROVE OfferOK(o)'
    <3>1. ~IsOffer(next, o)
      BY <2>1 DEF IsOffer, Current
    <3>2. QED
      BY <2>1, <3>1, OfferPassed
  <2>2. QED
    BY <1>5, <2>1, HandlerMoves, OfferHandled
<1>6. QED
  BY <1>2, <1>3, <1>4, <1>5, StepKinds

-----------------------------------------------------------------------------
(* Tasks.                                                                  *)

AboutIt(i, t) == Is(i, "TaskRegistered", t) \/ Is(i, "TaskDeprecation", t)

LEMMA TaskStep ==
  ASSUME NEW t, NEW k \in Nat, k > 0, TaskLegal(k, t)
  PROVE  /\ Is(k, "TaskRegistered", t) => TaskIs(t, k + 1, "live") /\ TaskIs(t, k, "none")
         /\ Is(k, "TaskDeprecation", t) => TaskIs(t, k + 1, "deprecated") /\ ~TaskIs(t, k, "none")
         /\ ~AboutIt(k, t) => \A v : TaskIs(t, k + 1, v) <=> TaskIs(t, k, v)
<1>1. \A type : Before(type, t, k + 1) <=> Before(type, t, k) \/ Is(k, type, t)
  BY BeforeNext
<1>2. ~(Is(k, "TaskRegistered", t) /\ Is(k, "TaskDeprecation", t))
  BY DEF Is
<1>3. QED
  BY <1>1, <1>2 DEF TaskIs, TaskLegal, AboutIt

LEMMA TaskWaits ==
  ASSUME Waits, NEW t, TaskOK(t), tasks'[t] = tasks[t],
         \A k \in 1 .. Len(chain') : k \in 1 .. Len(chain) \/ TaskLegal(k, t)'
  PROVE  TaskOK(t)'
<1>1. Extends /\ lost' = lost /\ lost \subseteq 1 .. Len(chain)
  BY DEF Waits
<1>2. \A k \in 1 .. Len(chain') : TaskLegal(k, t)'
  BY <1>1, EventsStay DEF TaskOK
<1>3. ASSUME Kept("TaskRegistered", t)', Kept("TaskDeprecation", t)'
      PROVE  \E h \in next' .. Len(chain') + 1 : TaskIs(t, h, tasks[t])'
  <2>1. Kept("TaskRegistered", t) /\ Kept("TaskDeprecation", t)
    BY <1>1, <1>3, EventsStay DEF Kept
  <2>2. PICK h \in next .. Len(chain) + 1 : TaskIs(t, h, tasks[t])
    BY <2>1 DEF TaskOK
  <2>3. h \in 1 .. Len(chain) + 1 /\ h \in next' .. Len(chain') + 1
    BY DEF Waits, Extends
  <2>4. PICK v : v = tasks[t] /\ v = tasks'[t]
    OBVIOUS
  <2>5. TaskIs(t, h, v)'
    BY <1>1, <2>2, <2>3, <2>4, PrefixStays
  <2>6. TaskIs(t, h, tasks[t])'
    BY <2>4, <2>5
  <2>7. QED
    BY <2>3, <2>6
<1>4. QED
  BY <1>2, <1>3 DEF TaskOK

(* The next event is handled: the table is what the chain says after it,   *)
(* or is left alone and was already ahead.                                 *)
LEMMA TaskMoves ==
  ASSUME Moves, NEW t, TaskOK(t), NEW k \in Nat, k = next,
         \/ AboutIt(k, t) /\ k \in lost'
         \/ TaskIs(t, k + 1, tasks'[t])
         \/ tasks'[t] = tasks[t] /\ (~AboutIt(k, t) \/ ~TaskIs(t, k, tasks[t]))
  PROVE  TaskOK(t)'
<1>1. Extends /\ chain' = chain /\ lost \subseteq lost' /\ next' = k + 1 /\ Len(chain) \in Nat
      /\ k \in 1 .. Len(chain)
  BY MovesExtends DEF Moves
<1>2. (\A j \in 1 .. Len(chain') : TaskLegal(j, t)') /\ TaskLegal(k, t)
  BY <1>1, EventsStay DEF TaskOK
<1>3. ASSUME Kept("TaskRegistered", t)', Kept("TaskDeprecation", t)'
      PROVE  \E h \in next' .. Len(chain') + 1 : TaskIs(t, h, tasks[t])'
  <2>1. Kept("TaskRegistered", t) /\ Kept("TaskDeprecation", t) /\ (AboutIt(k, t) => k \notin lost')
    BY <1>1, <1>3 DEF Kept, Is, AboutIt
  <2>2. PICK h \in k .. Len(chain) + 1 : TaskIs(t, h, tasks[t])
    BY <2>1 DEF TaskOK
  <2>3. PICK v : v = tasks'[t]
    OBVIOUS
  <2>4. \E j \in k + 1 .. Len(chain) + 1 : TaskIs(t, j, v)
    <3>1. k + 1 \in k + 1 .. Len(chain) + 1
      BY <1>1
    <3>2. h = k \/ h \in k + 1 .. Len(chain) + 1
      BY <1>1
    <3>3. CASE TaskIs(t, k + 1, v)
      BY <3>1, <3>3
    <3>4. CASE v = tasks[t] /\ ~AboutIt(k, t)
      <4>1. TaskIs(t, k, v) => TaskIs(t, k + 1, v)
        BY <1>1, <1>2, <3>4, TaskStep
      <4>2. QED
        BY <2>2, <3>1, <3>2, <3>4, <4>1
    <3>5. CASE v = tasks[t] /\ ~TaskIs(t, k, tasks[t])
      BY <2>2, <3>2, <3>5
    <3>6. QED
      BY <2>1, <2>3, <3>3, <3>4, <3>5
  <2>5. PICK j \in k + 1 .. Len(chain) + 1 : TaskIs(t, j, v)
    BY <2>4
  <2>6. j \in 1 .. Len(chain) + 1 /\ j \in next' .. Len(chain') + 1
    BY <1>1
  <2>7. TaskIs(t, j, v)'
    BY <1>1, <2>5, <2>6, PrefixStays
  <2>8. TaskIs(t, j, tasks[t])'
    BY <2>3, <2>7
  <2>9. QED
    BY <2>6, <2>8
<1>4. QED
  BY <1>2, <1>3 DEF TaskOK

LEMMA TaskHandled ==
  ASSUME Typed, NEW t \in Tasks, TaskOK(t), handle_new_task_event \/ handle_task_deprecation_event
  PROVE  TaskOK(t)'
<1>1. Moves /\ tasks \in [Tasks -> {"none", "live", "deprecated"}]
  BY HandlerMoves DEF handle_atoma_event, Typed, TypeOK
<1>2. PICK k \in Nat : k = next /\ k \in 1 .. Len(chain) /\ k > 0
  BY <1>1 DEF Moves
<1>3. Current.of \in Tasks
  BY CurrentOK DEF handle_new_task_event, handle_task_deprecation_event, EventOK, AboutTask
<1>4. \/ /\ Current.type = "TaskRegistered"
         /\ tasks' = IF tasks[Current.of] = "none" THEN [tasks EXCEPT ![Current.of] = "live"] ELSE tasks
      \/ /\ Current.type = "TaskDeprecation"
         /\ tasks' = IF tasks[Current.of] = "none" THEN tasks ELSE [tasks EXCEPT ![Current.of] = "deprecated"]
  BY DEF handle_new_task_event, handle_task_deprecation_event, insert_new_task, deprecate_task, Arrives
<1>5. TaskLegal(k, t)
  BY <1>2 DEF TaskOK
<1>6. ASSUME Current.of # t PROVE TaskOK(t)'
  <2>1. tasks'[t] = tasks[t]
    BY <1>1, <1>3, <1>4, <1>6
  <2>2. ~AboutIt(k, t)
    BY <1>2, <1>6 DEF AboutIt, Is, Current
  <2>3. QED
    BY <1>1, <1>2, <2>1, <2>2, TaskMoves
<1>7. ASSUME Current.of = t, Current.type = "TaskRegistered" PROVE TaskOK(t)'
  <2>1. Is(k, "TaskRegistered", t)
    BY <1>2, <1>7 DEF Is, Current
  <2>2. TaskIs(t, k + 1, "live") /\ TaskIs(t, k, "none")
    BY <1>2, <1>5, <2>1, TaskStep
  <2>3. tasks'[t] = "live" \/ (tasks'[t] = tasks[t] /\ tasks[t] # "none")
    BY <1>1, <1>4, <1>7
  <2>4. tasks[t] # "none" => ~TaskIs(t, k, tasks[t])
    BY <2>2 DEF TaskIs
  <2>5. QED
    BY <1>1, <1>2, <2>2, <2>3, <2>4, TaskMoves
<1>8. ASSUME Current.of = t, Current.type = "TaskDeprecation" PROVE TaskOK(t)'
  <2>1. Is(k, "TaskDeprecation", t)
    BY <1>2, <1>8 DEF Is, Current
  <2>2. TaskIs(t, k + 1, "deprecated") /\ ~TaskIs(t, k, "none")
    BY <1>2, <1>5, <2>1, TaskStep
  <2>3. tasks'[t] = "deprecated" \/ (tasks'[t] = tasks[t] /\ tasks[t] = "none")
    BY <1>1, <1>4, <1>8
  <2>4. QED
    BY <1>1, <1>2, <2>2, <2>3, TaskMoves
<1>9. QED
  BY <1>4, <1>6, <1>7, <1>8

LEMMA TaskNext == ASSUME Typed, [Next]_vars, NEW t \in Tasks, TaskOK(t) PROVE TaskOK(t)'
<1>1. PICK n \in Nat : n = Len(chain) /\ chain \in Seq(Events)
  BY DEF Typed, ChainOK
<1>2. CASE Grows
  <2>1. PICK type, x, v : Emit(Event(type, x, v)) /\ Allowed(type, x)
    BY <1>2, GrowsBy
  <2>2. Waits /\ Len(chain') = n + 1 /\ tasks' = tasks
    BY <1>1, <2>1, EmitWaits
  <2>3. TaskLegal(n + 1, t)'
    <3>1. \A ty, y : Is(n + 1, ty, y)' <=> ty = type /\ y = x
      BY <1>1, <2>1, NewEvent
    <3>2. n + 1 \in 1 .. Len(chain) + 1 /\ Extends
      BY <1>1, <2>2 DEF Waits
    <3>3. Happened("TaskRegistered", t) <=> Before("TaskRegistered", t, n + 1)
      BY <1>1, HappenedIs
    <3>4. ASSUME Is(n + 1, "TaskRegistered", t)' PROVE TaskIs(t, n + 1, "none")'
      <4>1. ~Before("TaskRegistered", t, n + 1)
        BY <2>1, <3>1, <3>3, <3>4 DEF Allowed
      <4>2. ASSUME NEW i \in 1 .. (n + 1) - 1, Is(i, "TaskDeprecation", t) PROVE FALSE
        <5>1. i \in 1 .. n /\ i \in Nat /\ i <= n + 1
          OBVIOUS
        <5>2. Before("TaskRegistered", t, i)
          BY <1>1, <4>2, <5>1 DEF TaskOK, TaskLegal
        <5>3. QED
          BY <4>1, <5>1, <5>2, BeforeGrows
      <4>3. TaskIs(t, n + 1, "none")
        BY <4>1, <4>2 DEF TaskIs, Before
      <4>4. QED
        BY <3>2, <4>3, PrefixStays
    <3>5. ASSUME Is(n + 1, "TaskDeprecation", t)' PROVE Before("TaskRegistered", t, n + 1)'
      <4>1. Before("TaskRegistered", t, n + 1)
        BY <2>1, <3>1, <3>3, <3>5 DEF Allowed
      <4>2. QED
        BY <3>2, <4>1, PrefixStays
    <3>6. QED
      BY <3>4, <3>5 DEF TaskLegal
  <2>4. QED
    BY <1>1, <2>2, <2>3, NewPosition, TaskWaits
<1>3. CASE Quiet
  <2>1. Waits /\ chain' = chain /\ tasks' = tasks
    BY <1>3, QuietWaits
  <2>2. QED
    BY <2>1, TaskWaits
<1>4. ASSUME Moves, tasks' = tasks, next \in lost' \/ Current.type \notin AboutTask PROVE TaskOK(t)'
  <2>1. PICK k \in Nat : k = next
    BY <1>4 DEF Moves
  <2>2. Current.type \notin AboutTask => ~AboutIt(k, t)
    BY <2>1 DEF AboutIt, Is, Current, AboutTask
  <2>3. QED
    BY <1>4, <2>1, <2>2, TaskMoves
<1>5. CASE DatabaseError
  BY <1>4, <1>5, ErrorMoves
<1>6. CASE handle_atoma_event
  BY <1>4, <1>6, HandlerMoves, TaskHandled
<1>7. QED
  BY <1>2, <1>3, <1>5, <1>6, StepKinds

-----------------------------------------------------------------------------
(* What was said before the next event, in a step.                         *)

LEMMA Within ==
  ASSUME NEW n \in Nat, NEW k \in Nat, NEW h \in Nat, h <= k, k <= n + 1
  PROVE  \A i \in 1 .. h - 1 : i \in 1 .. n /\ i \in 1 .. k - 1
  OBVIOUS

LEMMA WaitsBefore ==
  ASSUME Waits, NEW type, NEW o
  PROVE  /\ Before(type, o, Len(chain) + 1) => Before(type, o, Len(chain) + 1)'
         /\ Before(type, o, next)' => Before(type, o, next)
         /\ Kept(type, o)' <=> Kept(type, o)
<1>1. PICK n \in Nat, m \in Nat : n = Len(chain) /\ m = Len(chain') /\ n <= m
  BY DEF Waits, Extends
<1>2. PICK k \in Nat, h \in Nat : k = next /\ h = next' /\ h <= k /\ k <= n + 1
  BY <1>1 DEF Waits
<1>3. \A i \in 1 .. n : Is(i, type, o)' <=> Is(i, type, o)
  BY <1>1, EventsStay DEF Waits
<1>4. Before(type, o, n + 1) => Before(type, o, Len(chain) + 1)'
  <2>1. \A i \in 1 .. (n + 1) - 1 : i \in 1 .. n /\ i \in 1 .. (m + 1) - 1
    BY <1>1
  <2>2. QED
    BY <1>1, <1>3, <2>1 DEF Before
<1>5. Before(type, o, next)' => Before(type, o, k)
  <2>1. \A i \in 1 .. h - 1 : i \in 1 .. n /\ i \in 1 .. k - 1
    BY <1>1, <1>2, Within
  <2>2. QED
    BY <1>2, <1>3, <2>1 DEF Before
<1>6. Kept(type, o)' <=> Kept(type, o)
  BY <1>1, <1>3 DEF Kept, Waits
<1>7. QED
  BY <1>1, <1>2, <1>4, <1>5, <1>6

LEMMA MovesBefore ==
  ASSUME Moves, NEW o, NEW k \in Nat, k = next
  PROVE  \A type : /\ Before(type, o, next)' <=> Before(type, o, k) \/ Is(k, type, o)
                   /\ Before(type, o, Len(chain) + 1)' <=> Before(type, o, Len(chain) + 1)
                   /\ Is(k, type, o) => Before(type, o, Len(chain) + 1)
                   /\ Kept(type, o)' => Kept(type, o) /\ (Is(k, type, o) => k \notin lost')
<1>1. chain' = chain /\ Len(chain) \in Nat /\ k \in 1 .. Len(chain) /\ next' = k + 1 /\ lost \subseteq lost'
      /\ k > 0
  BY DEF Moves
<1>2. ASSUME NEW type
      PROVE  /\ Before(type, o, next)' <=> Before(type, o, k) \/ Is(k, type, o)
             /\ Before(type, o, Len(chain) + 1)' <=> Before(type, o, Len(chain) + 1)
             /\ Is(k, type, o) => Before(type, o, Len(chain) + 1)
             /\ Kept(type, o)' => Kept(type, o) /\ (Is(k, type, o) => k \notin lost')
  <2>1. Before(type, o, next)' <=> Before(type, o, k + 1)
    BY <1>1 DEF Before, Is
  <2>2. Before(type, o, k + 1) <=> Before(type, o, k) \/ Is(k, type, o)
    BY <1>1, BeforeNext
  <2>3. Before(type, o, Len(chain) + 1)' <=> Before(type, o, Len(chain) + 1)
    BY <1>1 DEF Before, Is
  <2>4. Is(k, type, o) => Before(type, o, Len(chain) + 1)
    <3>1. k \in 1 .. (Len(chain) + 1) - 1
      BY <1>1
    <3>2. QED
      BY <3>1 DEF Before
  <2>5. Kept(type, o)' => Kept(type, o) /\ (Is(k, type, o) => k \notin lost')
    BY <1>1 DEF Kept, Is
  <2>6. QED
    BY <2>1, <2>2, <2>3, <2>4, <2>5
<1>3. QED
  BY <1>2

-----------------------------------------------------------------------------
(* Tickets.                                                                *)

TicketTypes == {"StackTrySettle", "StackSettlementTicket", "StackSettlementTicketClaimed"}

LEMMA TicketWaits ==
  ASSUME Waits, NEW s, TicketOK(s),
         ticket'[s] = ticket[s], settled_at'[s] = settled_at[s], ticket_claimed'[s] = ticket_claimed[s],
         \A k \in 1 .. Len(chain') : k \in 1 .. Len(chain) \/ TicketLegal(k, s)'
  PROVE  TicketOK(s)'
<1>1. Extends
  BY DEF Waits
<1>2. \A k \in 1 .. Len(chain') : TicketLegal(k, s)'
  BY <1>1, EventsStay DEF TicketOK
<1>3. ticket'[s] # 0 => \E i \in 1 .. Len(chain') : TicketFrom(i, s)'
  <2>1. SUFFICES ASSUME ticket[s] # 0 PROVE \E i \in 1 .. Len(chain') : TicketFrom(i, s)'
    OBVIOUS
  <2>2. PICK i \in 1 .. Len(chain) : TicketFrom(i, s)
    BY <2>1 DEF TicketOK
  <2>3. TicketFrom(i, s)' /\ i \in 1 .. Len(chain')
    BY <1>1, <2>2, EventsStay DEF TicketFrom
  <2>4. QED
    BY <2>3
<1>4. /\ settled_at'[s] # 0 => Before("StackSettlementTicket", s, Len(chain) + 1)'
      /\ ticket_claimed'[s] => Before("StackSettlementTicketClaimed", s, Len(chain) + 1)'
  BY WaitsBefore DEF TicketOK
<1>5. ASSUME Kept("StackTrySettle", s)'
      PROVE  /\ Before("StackTrySettle", s, next)' => ticket'[s] # 0
             /\ Kept("StackSettlementTicket", s)' /\ Before("StackSettlementTicket", s, next)' => settled_at'[s] # 0
             /\ Kept("StackSettlementTicketClaimed", s)' /\ Before("StackSettlementTicketClaimed", s, next)'
                  => ticket_claimed'[s]
  BY <1>5, WaitsBefore DEF TicketOK
<1>6. QED
  BY <1>2, <1>3, <1>4, <1>5 DEF TicketOK

(* The next event is handled. *)
LEMMA TicketMoves ==
  ASSUME Moves, NEW s, TicketOK(s), NEW k \in Nat, k = next,
         ticket'[s] # 0 => ticket'[s] = ticket[s] \/ (Is(k, "StackTrySettle", s) /\ ticket'[s] = chain[k].val),
         settled_at'[s] # 0 => settled_at[s] # 0 \/ Is(k, "StackSettlementTicket", s),
         ticket_claimed'[s] => ticket_claimed[s] \/ Is(k, "StackSettlementTicketClaimed", s),
         Kept("StackTrySettle", s)' =>
           /\ Before("StackTrySettle", s, next)' => ticket'[s] # 0
           /\ Kept("StackSettlementTicket", s)' /\ Before("StackSettlementTicket", s, next)' => settled_at'[s] # 0
           /\ Kept("StackSettlementTicketClaimed", s)' /\ Before("StackSettlementTicketClaimed", s, next)'
                => ticket_claimed'[s]
  PROVE  TicketOK(s)'
<1>1. Extends /\ chain' = chain /\ k \in 1 .. Len(chain)
  BY MovesExtends DEF Moves
<1>2. \A j \in 1 .. Len(chain') : TicketLegal(j, s)'
  BY <1>1, EventsStay DEF TicketOK
<1>3. ASSUME ticket'[s] # 0 PROVE \E i \in 1 .. Len(chain') : TicketFrom(i, s)'
  <2>1. CASE ticket'[s] = ticket[s]
    <3>1. PICK i \in 1 .. Len(chain) : TicketFrom(i, s)
      BY <1>3, <2>1 DEF TicketOK
    <3>2. TicketFrom(i, s)'
      BY <1>1, <2>1, <3>1 DEF TicketFrom, Is
    <3>3. QED
      BY <1>1, <3>2
  <2>2. CASE Is(k, "StackTrySettle", s) /\ ticket'[s] = chain[k].val
    <3>1. TicketFrom(k, s)'
      BY <1>1, <2>2 DEF TicketFrom, Is
    <3>2. QED
      BY <1>1, <3>1
  <2>3. QED
    BY <1>3, <2>1, <2>2
<1>4. settled_at'[s] # 0 => Before("StackSettlementTicket", s, Len(chain) + 1)'
  BY MovesBefore DEF TicketOK
<1>5. ticket_claimed'[s] => Before("StackSettlementTicketClaimed", s, Len(chain) + 1)'
  BY MovesBefore DEF TicketOK
<1>6. QED
  BY <1>2, <1>3, <1>4, <1>5 DEF TicketOK

LEMMA TicketPassed ==
  ASSUME Moves, NEW s, TicketOK(s),
         ticket'[s] = ticket[s], settled_at'[s] = settled_at[s], ticket_claimed'[s] = ticket_claimed[s],
         \A type \in TicketTypes : Is(next, type, s) => next \in lost'
  PROVE  TicketOK(s)'
<1>1. PICK k \in Nat : k = next
  BY DEF Moves
<1>2. ASSUME NEW type \in TicketTypes, Kept(type, s)'
      PROVE  Kept(type, s) /\ (Before(type, s, next)' => Before(type, s, next))
  BY <1>1, <1>2, MovesBefore
<1>3. "StackTrySettle" \in TicketTypes /\ "StackSettlementTicket" \in TicketTypes
      /\ "StackSettlementTicketClaimed" \in TicketTypes
  BY DEF TicketTypes
<1>4. ASSUME Kept("StackTrySettle", s)'
      PROVE  /\ Before("StackTrySettle", s, next)' => ticket'[s] # 0
             /\ Kept("StackSettlementTicket", s)' /\ Before("StackSettlementTicket", s, next)' => settled_at'[s] # 0
             /\ Kept("StackSettlementTicketClaimed", s)' /\ Before("StackSettlementTicketClaimed", s, next)'
                  => ticket_claimed'[s]
  BY <1>2, <1>3, <1>4 DEF TicketOK
<1>5. QED
  BY <1>1, <1>4, TicketMoves

LEMMA TicketHandled ==
  ASSUME Typed, NEW s \in Stacks, TicketOK(s),
         \/ handle_stack_try_settle_event \/ handle_stack_settlement_ticket_event
         \/ handle_stack_settlement_ticket_claimed_event
  PROVE  TicketOK(s)'
<1>1. /\ Moves /\ ticket \in [Stacks -> Claims \cup {0}] /\ settled_at \in [Stacks -> {0, 1}]
      /\ ticket_claimed \in [Stacks -> BOOLEAN]
  BY HandlerMoves DEF handle_atoma_event, Typed, TypeOK
<1>2. PICK k \in Nat : k = next /\ k \in 1 .. Len(chain)
  BY <1>1 DEF Moves
<1>3. /\ Current.of \in Stacks /\ (Current.type = "StackTrySettle" => Current.val \in Claims)
      /\ (Current.type = "StackSettlementTicket" => Current.val = 1)
  BY CurrentOK DEF handle_stack_try_settle_event, handle_stack_settlement_ticket_event,
     handle_stack_settlement_ticket_claimed_event, EventOK, AboutStack
<1>4. \/ /\ Current.type = "StackTrySettle"
         /\ \/ /\ ticket[Current.of] = 0
               /\ ticket' = [ticket EXCEPT ![Current.of] = Current.val]
               /\ settled_at' = [settled_at EXCEPT ![Current.of] = 0]
               /\ ticket_claimed' = [ticket_claimed EXCEPT ![Current.of] = FALSE]
            \/ ticket[Current.of] # 0 /\ UNCHANGED <<ticket, settled_at, ticket_claimed>>
      \/ /\ Current.type = "StackSettlementTicket" /\ UNCHANGED <<ticket, ticket_claimed>>
         /\ \/ ticket[Current.of] = 0 /\ settled_at' = settled_at
            \/ ticket[Current.of] # 0 /\ settled_at' = [settled_at EXCEPT ![Current.of] = Current.val]
      \/ /\ Current.type = "StackSettlementTicketClaimed" /\ UNCHANGED <<ticket, settled_at>>
         /\ \/ ticket[Current.of] = 0 /\ ticket_claimed' = ticket_claimed
            \/ ticket[Current.of] # 0 /\ ticket_claimed' = [ticket_claimed EXCEPT ![Current.of] = TRUE]
  BY DEF handle_stack_try_settle_event, handle_stack_settlement_ticket_event,
     handle_stack_settlement_ticket_claimed_event, insert_new_stack_settlement_ticket, NewTicket,
     settle_stack_settlement_ticket, update_stack_settlement_ticket_with_claim, Arrives
<1>5. ASSUME Current.of # s PROVE TicketOK(s)'
  <2>1. ticket'[s] = ticket[s] /\ settled_at'[s] = settled_at[s] /\ ticket_claimed'[s] = ticket_claimed[s]
    BY <1>1, <1>3, <1>4, <1>5
  <2>2. \A type : ~Is(next, type, s)
    BY <1>5 DEF Is, Current
  <2>3. QED
    BY <1>1, <2>1, <2>2, TicketPassed
<1>6. TicketLegal(k, s)
  BY <1>2 DEF TicketOK
<1>7. /\ \A type : Before(type, s, next)' <=> Before(type, s, k) \/ Is(k, type, s)
      /\ \A type : Kept(type, s)' => Kept(type, s)
  BY <1>1, <1>2, MovesBefore
<1>8. Current.of = s => \A type : Is(k, type, s) <=> Current.type = type
  BY <1>2 DEF Is, Current
<1>9. ASSUME Current.of = s, Current.type = "StackTrySettle" PROVE TicketOK(s)'
  <2>1. /\ Is(k, "StackTrySettle", s)
        /\ ~Before("StackSettlementTicket", s, next)' /\ ~Before("StackSettlementTicketClaimed", s, next)'
    BY <1>6, <1>7, <1>8, <1>9 DEF TicketLegal
  <2>2. Current.val # 0 /\ Current.val = chain[k].val
    BY <1>2, <1>3, <1>9, AmountsAssumption DEF Current
  <2>3. \/ ticket'[s] = Current.val /\ settled_at'[s] = 0 /\ ticket_claimed'[s] = FALSE
        \/ /\ ticket[s] # 0 /\ ticket'[s] = ticket[s] /\ settled_at'[s] = settled_at[s]
           /\ ticket_claimed'[s] = ticket_claimed[s]
    BY <1>1, <1>4, <1>9
  <2>4. QED
    BY <1>1, <1>2, <2>1, <2>2, <2>3, TicketMoves
<1>10. ASSUME Current.of = s, Current.type = "StackSettlementTicket" PROVE TicketOK(s)'
  <2>1. /\ Is(k, "StackSettlementTicket", s) /\ Before("StackTrySettle", s, k)
        /\ ~Is(k, "StackTrySettle", s) /\ ~Is(k, "StackSettlementTicketClaimed", s)
    BY <1>6, <1>8, <1>10 DEF TicketLegal
  <2>2. /\ ticket'[s] = ticket[s] /\ ticket_claimed'[s] = ticket_claimed[s]
        /\ ticket[s] # 0 => settled_at'[s] = 1
    BY <1>1, <1>3, <1>4, <1>10
  <2>3. Kept("StackTrySettle", s)' =>
          /\ ticket'[s] # 0 /\ settled_at'[s] # 0
          /\ Kept("StackSettlementTicketClaimed", s)' /\ Before("StackSettlementTicketClaimed", s, next)'
               => ticket_claimed'[s]
    BY <1>2, <1>7, <2>1, <2>2 DEF TicketOK
  <2>4. QED
    BY <1>1, <1>2, <2>1, <2>2, <2>3, TicketMoves
<1>11. ASSUME Current.of = s, Current.type = "StackSettlementTicketClaimed" PROVE TicketOK(s)'
  <2>1. /\ Is(k, "StackSettlementTicketClaimed", s) /\ Before("StackTrySettle", s, k)
        /\ ~Is(k, "StackTrySettle", s) /\ ~Is(k, "StackSettlementTicket", s)
    BY <1>6, <1>8, <1>11 DEF TicketLegal
  <2>2. /\ ticket'[s] = ticket[s] /\ settled_at'[s] = settled_at[s]
        /\ ticket[s] # 0 => ticket_claimed'[s]
    BY <1>1, <1>3, <1>4, <1>11
  <2>3. Kept("StackTrySettle", s)' =>
          /\ ticket'[s] # 0 /\ ticket_claimed'[s]
          /\ Kept("StackSettlementTicket", s)' /\ Before("StackSettlementTicket", s, next)' => settled_at'[s] # 0
    BY <1>2, <1>7, <2>1, <2>2 DEF TicketOK
  <2>4. QED
    BY <1>1, <1>2, <2>1, <2>2, <2>3, TicketMoves
<1>12. QED
  BY <1>4, <1>5, <1>9, <1>10, <1>11

LEMMA TicketNext == ASSUME Typed, [Next]_vars, NEW s \in Stacks, TicketOK(s) PROVE TicketOK(s)'
<1>1. PICK n \in Nat : n = Len(chain) /\ chain \in Seq(Events)
  BY DEF Typed, ChainOK
<1>2. CASE Grows
  <2>1. PICK type, x, v : Emit(Event(type, x, v)) /\ Allowed(type, x)
    BY <1>2, GrowsBy
  <2>2. Waits /\ Len(chain') = n + 1 /\ UNCHANGED <<ticket, settled_at, ticket_claimed>>
    BY <1>1, <2>1, EmitWaits
  <2>3. TicketLegal(n + 1, s)'
    <3>1. \A ty, y : Is(n + 1, ty, y)' <=> ty = type /\ y = x
      BY <1>1, <2>1, NewEvent
    <3>2. \A ty : Before(ty, s, n + 1)' <=> Before(ty, s, n + 1)
      <4>1. n + 1 \in 1 .. Len(chain) + 1 /\ Extends
        BY <1>1, <2>2 DEF Waits
      <4>2. QED
        BY <4>1, PrefixStays
    <3>3. Happened("StackTrySettle", s) <=> Before("StackTrySettle", s, n + 1)
      BY <1>1, HappenedIs
    <3>4. ASSUME ~Before("StackTrySettle", s, n + 1), NEW i \in 1 .. (n + 1) - 1,
                 Is(i, "StackSettlementTicket", s) \/ Is(i, "StackSettlementTicketClaimed", s)
          PROVE  FALSE
      <4>1. i \in 1 .. n /\ i \in Nat /\ i <= n + 1
        OBVIOUS
      <4>2. Before("StackTrySettle", s, i)
        BY <1>1, <3>4, <4>1 DEF TicketOK, TicketLegal
      <4>3. QED
        BY <3>4, <4>1, <4>2, BeforeGrows
    <3>5. ASSUME Is(n + 1, "StackTrySettle", s)'
          PROVE  /\ ~Before("StackTrySettle", s, n + 1)' /\ ~Before("StackSettlementTicket", s, n + 1)'
                 /\ ~Before("StackSettlementTicketClaimed", s, n + 1)'
      <4>1. ~Before("StackTrySettle", s, n + 1)
        BY <2>1, <3>1, <3>3, <3>5 DEF Allowed
      <4>2. ~Before("StackSettlementTicket", s, n + 1) /\ ~Before("StackSettlementTicketClaimed", s, n + 1)
        BY <3>4, <4>1 DEF Before
      <4>3. QED
        BY <3>2, <4>1, <4>2
    <3>6. ASSUME Is(n + 1, "StackSettlementTicket", s)' \/ Is(n + 1, "StackSettlementTicketClaimed", s)'
          PROVE  Before("StackTrySettle", s, n + 1)'
      <4>1. Before("StackTrySettle", s, n + 1)
        BY <2>1, <3>1, <3>3, <3>6 DEF Allowed
      <4>2. QED
        BY <3>2, <4>1
    <3>7. QED
      BY <3>5, <3>6 DEF TicketLegal
  <2>4. QED
    BY <1>1, <2>2, <2>3, NewPosition, TicketWaits
<1>3. CASE Quiet
  <2>1. Waits /\ UNCHANGED <<chain, ticket, settled_at, ticket_claimed>>
    BY <1>3, QuietWaits
  <2>2. QED
    BY <2>1, TicketWaits
<1>4. CASE DatabaseError
  BY <1>4, ErrorMoves, TicketPassed
<1>5. CASE handle_atoma_event
  <2>1. ASSUME Moves, UNCHANGED <<ticket, settled_at, ticket_claimed>>,
               Current.type \notin AboutStack \ {"ClaimedStack"}
        PROVE  TicketOK(s)'
    <3>1. \A type \in TicketTypes : ~Is(next, type, s)
      BY <2>1 DEF TicketTypes, AboutStack, Is, Current
    <3>2. QED
      BY <2>1, <3>1, TicketPassed
  <2>2. QED
    BY <1>5, <2>1, HandlerMoves, TicketHandled
<1>6. QED
  BY <1>2, <1>3, <1>4, <1>5, StepKinds

-----------------------------------------------------------------------------
(* Rows of stacks and the chain.                                           *)

LEMMA RowWaits ==
  ASSUME Waits, NEW s, RowOK(s),
         \A k \in 1 .. Len(chain') :
           k \in 1 .. Len(chain) \/ (Is(k, "ClaimedStack", s)' => Before("StackCreated", s, k)'),
         s \in acquiring' => ~Before("ClaimedStack", s, Len(chain) + 1)',
         row'[s] = "claimed" => row[s] = "claimed",
         row[s] = "claimed" => row'[s] = "claimed",
         row[s] = "none" => row'[s] = "none" \/ ~Before("ClaimedStack", s, Len(chain) + 1)
  PROVE  RowOK(s)'
<1>1. Extends
  BY DEF Waits
<1>2. \A k \in 1 .. Len(chain') : Is(k, "ClaimedStack", s)' => Before("StackCreated", s, k)'
  <2>1. ASSUME NEW k \in 1 .. Len(chain), Is(k, "ClaimedStack", s)' PROVE Before("StackCreated", s, k)'
    <3>1. k \in 1 .. Len(chain) + 1
      BY <1>1 DEF Extends
    <3>2. Before("StackCreated", s, k)
      BY <1>1, <2>1, EventsStay DEF RowOK
    <3>3. QED
      BY <1>1, <3>1, <3>2, PrefixStays
  <2>2. QED
    BY <2>1
<1>3. row'[s] = "claimed" => Before("ClaimedStack", s, Len(chain) + 1)'
  BY WaitsBefore DEF RowOK
<1>4. ASSUME Kept("ClaimedStack", s)', Before("ClaimedStack", s, next)' PROVE row'[s] \in {"none", "claimed"}
  <2>1. Kept("ClaimedStack", s) /\ Before("ClaimedStack", s, next)
    BY <1>4, WaitsBefore
  <2>2. row[s] \in {"none", "claimed"}
    BY <2>1 DEF RowOK
  <2>3. Before("ClaimedStack", s, Len(chain) + 1)
    BY <2>1, BeforeGrows DEF Waits, Extends
  <2>4. QED
    BY <2>2, <2>3
<1>5. QED
  BY <1>2, <1>3, <1>4 DEF RowOK

LEMMA RowMoves ==
  ASSUME Moves, NEW s, RowOK(s), NEW k \in Nat, k = next, acquiring' = acquiring,
         \/ row'[s] = row[s] /\ (Is(k, "ClaimedStack", s) => k \in lost' \/ row[s] = "none")
         \/ row'[s] = "claimed" /\ Is(k, "ClaimedStack", s)
  PROVE  RowOK(s)'
<1>1. Extends /\ chain' = chain
  BY MovesExtends DEF Moves
<1>2. \A j \in 1 .. Len(chain') : Is(j, "ClaimedStack", s)' => Before("StackCreated", s, j)'
  BY <1>1 DEF RowOK, Is, Before
<1>3. /\ s \in acquiring' => ~Before("ClaimedStack", s, Len(chain) + 1)'
      /\ row'[s] = "claimed" => Before("ClaimedStack", s, Len(chain) + 1)'
  BY MovesBefore DEF RowOK
<1>4. ASSUME Kept("ClaimedStack", s)', Before("ClaimedStack", s, next)' PROVE row'[s] \in {"none", "claimed"}
  <2>1. /\ Kept("ClaimedStack", s) /\ (Is(k, "ClaimedStack", s) => k \notin lost')
        /\ Before("ClaimedStack", s, k) \/ Is(k, "ClaimedStack", s)
    BY <1>4, MovesBefore
  <2>2. Before("ClaimedStack", s, k) => row[s] \in {"none", "claimed"}
    BY <2>1 DEF RowOK
  <2>3. QED
    BY <2>1, <2>2
<1>5. QED
  BY <1>2, <1>3, <1>4 DEF RowOK

LEMMA RowNext == ASSUME Typed, [Next]_vars, NEW s \in Stacks, RowOK(s) PROVE RowOK(s)'
<1>1. PICK n \in Nat : n = Len(chain) /\ chain \in Seq(Events)
  BY DEF Typed, ChainOK
<1>2. CASE Grows
  <2>1. PICK type, x, v : /\ Emit(Event(type, x, v)) /\ Allowed(type, x)
                          /\ \A u \in acquiring' : u \in acquiring \/ (type = "StackCreated" /\ x = u)
    BY <1>2, GrowsBy
  <2>2. Waits /\ Len(chain') = n + 1 /\ row' = row
    BY <1>1, <2>1, EmitWaits
  <2>3. \A ty, y : Is(n + 1, ty, y)' <=> ty = type /\ y = x
    BY <1>1, <2>1, NewEvent
  <2>4. \A ty : Before(ty, s, n + 1)' <=> Before(ty, s, n + 1)
    <3>1. n + 1 \in 1 .. Len(chain) + 1 /\ Extends
      BY <1>1, <2>2 DEF Waits
    <3>2. QED
      BY <3>1, PrefixStays
  <2>5. Happened("StackCreated", s) <=> Before("StackCreated", s, n + 1)
    BY <1>1, HappenedIs
  <2>6. Is(n + 1, "ClaimedStack", s)' => Before("StackCreated", s, n + 1)'
    BY <2>1, <2>3, <2>4, <2>5 DEF Allowed
  <2>7. ASSUME s \in acquiring' PROVE ~Before("ClaimedStack", s, Len(chain) + 1)'
    <3>1. ~Before("ClaimedStack", s, n + 1)
      <4>1. CASE s \in acquiring
        BY <1>1, <4>1 DEF RowOK
      <4>2. CASE type = "StackCreated" /\ x = s
        <5>1. ~Before("StackCreated", s, n + 1)
          BY <2>1, <2>5, <4>2 DEF Allowed
        <5>2. ASSUME NEW i \in 1 .. (n + 1) - 1, Is(i, "ClaimedStack", s) PROVE FALSE
          <6>1. i \in 1 .. n /\ i \in Nat /\ i <= n + 1
            OBVIOUS
          <6>2. Before("StackCreated", s, i)
            BY <1>1, <5>2, <6>1 DEF RowOK
          <6>3. QED
            BY <5>1, <6>1, <6>2, BeforeGrows
        <5>3. QED
          BY <5>2 DEF Before
      <4>3. QED
        BY <2>1, <2>7, <4>1, <4>2
    <3>2. ~Is(n + 1, "ClaimedStack", s)'
      BY <2>1, <2>3, <2>7 DEF Allowed
    <3>3. ~Before("ClaimedStack", s, n + 2)'
      <4>1. \A i \in 1 .. (n + 2) - 1 : i \in 1 .. (n + 1) - 1 \/ i = n + 1
        OBVIOUS
      <4>2. ~Before("ClaimedStack", s, n + 1)'
        BY <2>4, <3>1
      <4>3. QED
        BY <3>2, <4>1, <4>2 DEF Before
    <3>4. Len(chain') + 1 = n + 2
      BY <2>2
    <3>5. QED
      BY <3>3, <3>4 DEF Before
  <2>8. QED
    BY <1>1, <2>2, <2>6, <2>7, NewPosition, RowWaits
<1>3. CASE Quiet
  <2>1. Waits /\ chain' = chain
    BY <1>3, QuietWaits
  <2>2. acquiring' \subseteq acquiring
    BY <1>3 DEF Quiet, handle_stack_created_event, lock_stack, SaveCursor, Crash, vars
  <2>3. row \in [Stacks -> {"none", "open", "locked", "claimed"}]
    BY DEF Typed, TypeOK
  <2>4. \/ row'[s] = row[s]
        \/ row[s] = "none" /\ row'[s] = "open" /\ s \in acquiring
        \/ row[s] = "open" /\ row'[s] = "locked"
    <3>1. CASE \E u \in Stacks : handle_stack_created_event(u)
      BY <2>3, <3>1 DEF handle_stack_created_event, insert_new_stack
    <3>2. CASE \E u \in Stacks : lock_stack(u)
      BY <2>3, <3>2 DEF lock_stack
    <3>3. CASE SaveCursor \/ Crash \/ UNCHANGED vars
      BY <3>3 DEF SaveCursor, Crash, vars, tables, stack_tables
    <3>4. QED
      BY <1>3, <3>1, <3>2, <3>3 DEF Quiet
  <2>5. Before("ClaimedStack", s, Len(chain) + 1)' <=> Before("ClaimedStack", s, Len(chain) + 1)
    BY <2>1 DEF Before, Is
  <2>6. s \in acquiring => ~Before("ClaimedStack", s, Len(chain) + 1)
    BY DEF RowOK
  <2>7. QED
    BY <2>1, <2>2, <2>4, <2>5, <2>6, RowWaits
<1>4. CASE DatabaseError
  <2>1. PICK k \in Nat : k = next
    BY DEF Typed, TypeOK, ChainOK
  <2>2. Moves /\ k \in lost' /\ row' = row /\ acquiring' = acquiring
    BY <1>4, <2>1, ErrorMoves DEF DatabaseError
  <2>3. QED
    BY <2>1, <2>2, RowMoves
<1>5. CASE handle_atoma_event
  <2>1. Moves /\ acquiring' = acquiring
    BY <1>5, HandlerMoves
  <2>2. PICK k \in Nat : k = next
    BY <2>1 DEF Moves
  <2>3. CASE row' = row /\ Current.type # "ClaimedStack"
    <3>1. ~Is(k, "ClaimedStack", s)
      BY <2>2, <2>3 DEF Is, Current
    <3>2. QED
      BY <2>1, <2>2, <2>3, <3>1, RowMoves
  <2>4. CASE handle_claimed_stack_event
    <3>1. Current.type = "ClaimedStack" /\ Current.of \in Stacks
      BY <2>4, CurrentOK DEF handle_claimed_stack_event, EventOK, AboutStack
    <3>2. row' = IF row[Current.of] = "none" THEN row ELSE [row EXCEPT ![Current.of] = "claimed"]
      BY <2>4 DEF handle_claimed_stack_event, update_stack_claimed
    <3>3. row \in [Stacks -> {"none", "open", "locked", "claimed"}]
      BY DEF Typed, TypeOK
    <3>4. Is(k, "ClaimedStack", s) <=> Current.of = s
      BY <2>2, <3>1 DEF Is, Current
    <3>5. \/ row'[s] = row[s] /\ (Current.of = s => row[s] = "none")
          \/ row'[s] = "claimed" /\ Current.of = s
      BY <3>1, <3>2, <3>3
    <3>6. QED
      BY <2>1, <2>2, <3>4, <3>5, RowMoves
  <2>5. QED
    BY <1>5, <2>3, <2>4, HandlerMoves
<1>6. QED
  BY <1>2, <1>3, <1>4, <1>5, StepKinds

-----------------------------------------------------------------------------
(* The theorems about the tables.                                          *)

LEMMA FollowInit == ASSUME Init PROVE FollowInv
<1>1. chain = <<>> /\ Len(chain) = 0 /\ next = 1 /\ acquiring = {} /\ lost = {}
  BY DEF Init
<1>2. \A type, o : ~Before(type, o, 1)
  BY DEF Before
<1>3. 1 \in next .. Len(chain) + 1 /\ \A k \in 1 .. Len(chain) : FALSE
  BY <1>1
<1>4. ASSUME NEW t \in Tasks PROVE TaskOK(t)
  <2>1. tasks[t] = "none"
    BY DEF Init
  <2>2. TaskIs(t, 1, tasks[t])
    BY <1>2, <2>1 DEF TaskIs
  <2>3. QED
    BY <1>3, <2>2 DEF TaskOK
<1>5. ASSUME NEW o \in Offers PROVE OfferOK(o)
  <2>1. price[o] = 0
    BY DEF Init
  <2>2. PriceIs(o, 1, price[o])
    BY <2>1 DEF PriceIs
  <2>3. QED
    BY <1>3, <2>2 DEF OfferOK
<1>6. ASSUME NEW s \in Stacks PROVE TicketOK(s) /\ RowOK(s)
  <2>1. ticket[s] = 0 /\ settled_at[s] = 0 /\ ticket_claimed[s] = FALSE /\ row[s] = "none"
    BY DEF Init
  <2>2. \A type : ~Before(type, s, next)
    BY <1>1, <1>2
  <2>3. TicketOK(s)
    BY <1>3, <2>1, <2>2 DEF TicketOK
  <2>4. RowOK(s)
    BY <1>1, <1>3, <2>1, <2>2 DEF RowOK
  <2>5. QED
    BY <2>3, <2>4
<1>7. QED
  BY <1>4, <1>5, <1>6 DEF FollowInv

LEMMA FollowNext == ASSUME Typed, FollowInv, [Next]_vars PROVE FollowInv'
  BY TaskNext, OfferNext, TicketNext, RowNext DEF FollowInv

(* In every state the part of a table that belongs to an object none of    *)
(* whose events was lost is what the chain says of the object at some      *)
(* position from the next event on, and the contract's events are in       *)
(* order: an INSERT, UPDATE or DELETE that comes again either sets what    *)
(* it set the first time or leaves a newer row alone.                      *)
THEOREM TablesAgree == Spec => []FollowInv
<1>1. Init => FollowInv
  BY FollowInit
<1>2. ChainInv /\ FollowInv /\ [Next]_vars => FollowInv'
  BY FollowNext DEF ChainInv
<1>3. QED
  BY <1>1, <1>2, ChainInvHolds, PTL DEF Spec

(* What Intact says of lost events. *)
LEMMA IntactIs ==
  ASSUME Typed, NEW type, NEW o, Intact(Of(type, o)) PROVE Kept(type, o)
<1>1. lost \subseteq 1 .. Len(chain) /\ DOMAIN chain = 1 .. Len(chain)
  BY DEF Typed, TypeOK, ChainOK
<1>2. QED
  BY <1>1 DEF Intact, Of, Kept, Is

(* TablesFollowChain: when every event was handled, tasks, offers, tickets *)
(* and stacks are what the chain's events about them say, however often    *)
(* the proxy restarted and from wherever the events came again, and a lost *)
(* event hurts nothing but its own object.                                 *)
THEOREM TablesAlwaysFollow == Spec => []TablesFollowChain
<1>1. ASSUME Typed, FollowInv, next > Len(chain)
      PROVE  /\ \A t \in Tasks : TaskFollows(t)
             /\ \A o \in Offers : OfferFollows(o)
             /\ \A s \in Stacks : TicketFollows(s) /\ RowFollows(s)
  <2>1. PICK n \in Nat : n = Len(chain) /\ next = n + 1 /\ chain \in Seq(Events)
    BY <1>1 DEF Typed, TypeOK, ChainOK
  <2>2. \A h \in next .. Len(chain) + 1 : h = n + 1
    BY <2>1
  <2>3. \A type, o : Happened(type, o) <=> Before(type, o, n + 1)
    BY <2>1, HappenedIs
  <2>4. ASSUME NEW t \in Tasks PROVE TaskFollows(t)
    <3>1. SUFFICES ASSUME Intact(Of("TaskRegistered", t) \cup Of("TaskDeprecation", t))
                   PROVE  tasks[t] = IF Happened("TaskDeprecation", t) THEN "deprecated"
                                     ELSE IF Happened("TaskRegistered", t) THEN "live" ELSE "none"
      BY DEF TaskFollows
    <3>2. Kept("TaskRegistered", t) /\ Kept("TaskDeprecation", t)
      <4>1. Intact(Of("TaskRegistered", t)) /\ Intact(Of("TaskDeprecation", t))
        BY <3>1 DEF Intact
      <4>2. QED
        BY <1>1, <4>1, IntactIs
    <3>3. TaskIs(t, n + 1, tasks[t])
      BY <1>1, <2>2, <3>2 DEF FollowInv, TaskOK
    <3>4. QED
      BY <2>3, <3>3 DEF TaskIs
  <2>5. ASSUME NEW o \in Offers PROVE OfferFollows(o)
    <3>1. SUFFICES ASSUME Intact(AboutOffer(o)) PROVE price[o] = ChainPrice(o)
      BY DEF OfferFollows
    <3>2. \A i \in lost : ~IsOffer(i, o)
      <4>1. lost \subseteq 1 .. Len(chain) /\ DOMAIN chain = 1 .. Len(chain)
        BY <1>1, <2>1 DEF Typed, TypeOK
      <4>2. QED
        BY <3>1, <4>1 DEF Intact, AboutOffer, Of, IsOffer
    <3>3. PriceIs(o, n + 1, price[o])
      BY <1>1, <2>2, <3>2 DEF FollowInv, OfferOK
    <3>4. PriceIs(o, n + 1, ChainPrice(o)) /\ n + 1 \in Nat
      BY <2>1, ChainPriceIs
    <3>5. QED
      BY <3>3, <3>4, PriceUnique
  <2>6. ASSUME NEW s \in Stacks PROVE TicketFollows(s)
    <3>1. SUFFICES ASSUME Intact(Of("StackTrySettle", s))
                   PROVE  /\ (ticket[s] > 0) <=> Happened("StackTrySettle", s)
                          /\ \A i \in Of("StackTrySettle", s) : ticket[s] = chain[i].val
                          /\ Intact(Of("StackSettlementTicket", s)) =>
                               (settled_at[s] > 0 <=> Happened("StackSettlementTicket", s))
                          /\ Intact(Of("StackSettlementTicketClaimed", s)) =>
                               (ticket_claimed[s] <=> Happened("StackSettlementTicketClaimed", s))
      BY DEF TicketFollows
    <3>2. Kept("StackTrySettle", s) /\ TicketOK(s)
      BY <1>1, <3>1, IntactIs DEF FollowInv
    <3>3. ticket[s] \in Nat /\ settled_at[s] \in Nat
      <4>1. ticket \in [Stacks -> Claims \cup {0}] /\ settled_at \in [Stacks -> {0, 1}]
        BY <1>1 DEF Typed, TypeOK
      <4>2. ticket[s] \in Claims \cup {0} /\ settled_at[s] \in {0, 1}
        BY <4>1
      <4>3. \A c \in Claims : c \in Nat
        BY AmountsAssumption
      <4>4. ticket[s] \in Claims \/ ticket[s] = 0
        BY <4>2
      <4>5. PICK v : v = ticket[s] /\ (v \in Claims \/ v = 0)
        BY <4>4
      <4>6. v \in Nat
        BY <4>3, <4>5
      <4>7. settled_at[s] \in Nat
        BY <4>2
      <4>8. QED
        BY <4>5, <4>6, <4>7
    <3>4. ticket[s] # 0 <=> Before("StackTrySettle", s, n + 1)
      <4>1. ticket[s] # 0 => Before("StackTrySettle", s, n + 1)
        <5>1. 1 .. (n + 1) - 1 = 1 .. Len(chain)
          BY <2>1
        <5>2. QED
          BY <3>2, <5>1 DEF TicketOK, TicketFrom, Before
      <4>2. Before("StackTrySettle", s, n + 1) => ticket[s] # 0
        BY <2>1, <3>2 DEF TicketOK
      <4>3. QED
        BY <4>1, <4>2
    <3>5. ASSUME NEW i \in Of("StackTrySettle", s) PROVE ticket[s] = chain[i].val
      <4>1. i \in 1 .. n /\ Is(i, "StackTrySettle", s) /\ i \in 1 .. (n + 1) - 1
        BY <2>1 DEF Of, Is
      <4>2. ticket[s] # 0
        BY <3>4, <4>1 DEF Before
      <4>3. PICK j \in 1 .. n : TicketFrom(j, s)
        BY <2>1, <3>2, <4>2 DEF TicketOK
      <4>4. i = j
        <5>1. ~(i < j)
          BY <2>1, <3>2, <4>1, <4>3 DEF TicketOK, TicketLegal, TicketFrom, Before
        <5>2. ~(j < i)
          BY <2>1, <3>2, <4>1, <4>3 DEF TicketOK, TicketLegal, TicketFrom, Before
        <5>3. QED
          BY <4>1, <5>1, <5>2
      <4>5. QED
        BY <4>3, <4>4 DEF TicketFrom
    <3>6. ASSUME Intact(Of("StackSettlementTicket", s))
          PROVE  settled_at[s] # 0 <=> Before("StackSettlementTicket", s, n + 1)
      BY <1>1, <2>1, <3>2, <3>6, IntactIs DEF TicketOK
    <3>7. ASSUME Intact(Of("StackSettlementTicketClaimed", s))
          PROVE  ticket_claimed[s] <=> Before("StackSettlementTicketClaimed", s, n + 1)
      BY <1>1, <2>1, <3>2, <3>7, IntactIs DEF TicketOK
    <3>8. (ticket[s] > 0 <=> ticket[s] # 0) /\ (settled_at[s] > 0 <=> settled_at[s] # 0)
      BY <3>3
    <3>9. QED
      BY <2>3, <3>4, <3>5, <3>6, <3>7, <3>8
  <2>7. ASSUME NEW s \in Stacks PROVE RowFollows(s)
    <3>1. SUFFICES ASSUME Intact(Of("ClaimedStack", s)), row[s] # "none"
                   PROVE  row[s] = "claimed" <=> Happened("ClaimedStack", s)
      BY DEF RowFollows
    <3>2. Kept("ClaimedStack", s) /\ RowOK(s)
      BY <1>1, <3>1, IntactIs DEF FollowInv
    <3>3. QED
      BY <2>1, <2>3, <3>1, <3>2 DEF RowOK
  <2>8. QED
    BY <2>4, <2>5, <2>6, <2>7
<1>2. ChainInv /\ FollowInv => TablesFollowChain
  BY <1>1 DEF ChainInv, TablesFollowChain
<1>3. QED
  BY <1>2, ChainInvHolds, TablesAgree, PTL
=============================================================================
