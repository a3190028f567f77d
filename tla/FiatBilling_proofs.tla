------------------------- MODULE FiatBilling_proofs -------------------------
(***************************************************************************)
(* Proofs about FiatBilling, for every set of users and requests, every    *)
(* price, balance and bound on faults.  Each theorem rests on the ones     *)
(* before it.                                                              *)
(***************************************************************************)
EXTENDS FiatBilling, SumTheorems

USE DEF PCs, Endpoints, HoldStatus

-----------------------------------------------------------------------------
(* Type correctness.                                                       *)

(* An amount is a natural number: nothing is locked or charged below zero. *)
LEMMA AmountIsNat ==
  ASSUME NEW t \in Nat, NEW p \in Nat
  PROVE  Amount(t, p) \in Nat
<1>1. t * p \in Nat
  OBVIOUS
<1>2. \A n \in Nat, m \in Nat \ {0} : n \div m \in Nat
  OBVIOUS
<1>3. QED
  BY <1>1, <1>2, OneMillionAssumption DEF Amount

(* The events of the channel are well formed. *)
LEMMA EventTypes ==
  ASSUME NEW r \in Requests, NEW q \in Request, NEW i \in Nat, NEW o \in Nat
  PROVE  LockEvent(r, q) \in Event /\ SettleEvent(r, q, i, o) \in Event
<1>1. /\ q.est_input \in Nat /\ q.est_output \in Nat
      /\ q.price_input \in Nat /\ q.price_output \in Nat
      /\ <<r, q.attempt>> \in Reservations
  BY DEF Request, Reservations
<1>2. /\ Amount(q.est_input, q.price_input) \in Nat
      /\ Amount(q.est_output, q.price_output) \in Nat
      /\ Amount(i, q.price_input) \in Nat
      /\ Amount(o, q.price_output) \in Nat
  BY <1>1, AmountIsNat
<1>3. QED
  BY <1>1, <1>2 DEF LockEvent, SettleEvent, Event

(* A settlement keeps the channel and the locks well formed. *)
LEMMA SettlementType ==
  ASSUME TypeOK, NEW r \in Requests, NEW i \in Nat, NEW o \in Nat,
         update_state_manager_fiat(r, i, o)
  PROVE  queue' \in Seq(Event) /\ hold' \in [Reservations -> Hold]
<1>1. SettleEvent(r, req[r], i, o) \in Event
  BY EventTypes DEF TypeOK
<1>2. queue' \in Seq(Event)
  BY <1>1 DEF update_state_manager_fiat, TypeOK
<1>3. <<r, req[r].attempt>> \in Reservations
  BY DEF TypeOK, Request, Reservations
<1>4. hold' \in [Reservations -> Hold]
  BY <1>3 DEF update_state_manager_fiat, TypeOK, Hold
<1>5. QED
  BY <1>2, <1>4

(* Moving or ending a request keeps the metadata well formed. *)
LEMMA GotoType ==
  ASSUME TypeOK, NEW r \in Requests, NEW pc \in PCs, Goto(r, pc) \/ Finish(r)
  PROVE  req' \in [Requests -> Request]
<1>1. Finished \in Request
  BY DEF Finished, NoRequest, Request
<1>2. \A q \in Request : [q EXCEPT !.pc = pc] \in Request
  BY DEF Request
<1>3. QED
  BY <1>1, <1>2 DEF TypeOK, Goto, Finish

(* Estimates, and what an answer is billed as, are token counts. *)
LEMMA TokenTypes ==
  ASSUME NEW q \in Request
  PROVE  /\ \A e \in Endpoints : Estimates(e) \subseteq Nat \X Nat
         /\ Billed(q) \subseteq Nat \X Nat
  BY TokensAssumption
     DEF Estimates, ChatEstimates, CompletionsEstimates, EmbeddingsEstimates,
         ImageEstimates, Billed, ChatUsage, CompletionsUsage, EmbeddingsUsage,
         ImageUsage, Request

(* What the state manager writes is well formed. *)
LEMMA SettleTypes ==
  ASSUME TypeOK, NEW e \in Event, update_real_amount_fiat_balance(e)
  PROVE  /\ fiat' \in [Users -> Row]
         /\ hold' \in [Reservations -> Hold]
         /\ excess' \in [Users -> Nat]
<1>1. OwnerOf(e.key) \in Users /\ e.key \in Reservations
  BY OwnerAssumption DEF Event, Reservations, OwnerOf
<1>2. ASSUME NEW row \in Row PROVE SettleRow(row, e) \in Row
  <2>1. /\ row.unsettled_input - e.est_input \in Int
        /\ row.unsettled_completions - e.est_output \in Int
        /\ row.debited_input + e.input \in Nat
        /\ row.debited_completions + e.output \in Nat
        /\ row.num_requests + (IF e.output > 0 THEN 1 ELSE 0) \in Nat
    BY DEF Row, Event
  <2>2. QED
    BY <2>1, Zenon DEF Row, SettleRow
<1>3. \A n \in Nat : n + Excess(e.input + e.output, e.est_input + e.est_output) \in Nat
  BY DEF Event, Excess
<1>4. fiat' \in [Users -> Row]
  BY <1>1, <1>2 DEF update_real_amount_fiat_balance, TypeOK
<1>5. hold' \in [Reservations -> Hold]
  BY <1>1 DEF update_real_amount_fiat_balance, TypeOK, Hold, Event
<1>6. excess' \in [Users -> Nat]
  BY <1>1, <1>3 DEF update_real_amount_fiat_balance, TypeOK
<1>7. QED
  BY <1>4, <1>5, <1>6

LEMMA UsageTypes ==
  ASSUME NEW row \in UsageRow, NEW e \in Event
  PROVE  DayRow(row, e) \in UsageRow /\ ModelRow(row, e) \in UsageRow
<1>1. /\ row.input_amount + e.input \in Nat
      /\ row.input_tokens + e.input_tokens \in Nat
      /\ row.output_amount + e.output \in Nat
      /\ row.output_tokens + e.output_tokens \in Nat
      /\ row.model_input + e.input \in Nat
      /\ row.model_output + e.output \in Nat
  BY DEF UsageRow, Event
<1>2. QED
  BY <1>1, Zenon DEF UsageRow, DayRow, ModelRow

(* Asking for a lock keeps the channel and the metadata well formed. *)
LEMMA SendLockType ==
  ASSUME TypeOK, NEW r \in Requests, NEW q \in Request, SendLock(r, q)
  PROVE  queue' \in Seq(Event) /\ req' \in [Requests -> Request]
<1>1. LockEvent(r, q) \in Event
  BY EventTypes, 0 \in Nat
<1>2. queue' \in Seq(Event)
  BY <1>1 DEF SendLock, TypeOK
<1>3. req' \in [Requests -> Request]
  BY DEF SendLock, TypeOK
<1>4. QED
  BY <1>2, <1>3

(* The event at the head of the channel, and the channel without it. *)
LEMMA HeadType ==
  ASSUME TypeOK, queue # <<>>
  PROVE  /\ Head(queue) \in Event /\ Tail(queue) \in Seq(Event)
         /\ Head(queue).key \in Reservations /\ Head(queue).key[1] \in Requests
         /\ OwnerOf(Head(queue).key) \in Users
         /\ Owner[Head(queue).key[1]] \in Users
<1>1. Head(queue) \in Event /\ Tail(queue) \in Seq(Event)
  BY DEF TypeOK
<1>2. Head(queue).key \in Requests \X {1, 2}
  BY <1>1 DEF Event, Reservations
<1>3. QED
  BY <1>1, <1>2, OwnerAssumption DEF Reservations, OwnerOf

(* Every step keeps every variable in its type. *)
LEMMA TypeStep == TypeOK /\ [Next]_vars => TypeOK'
<1> SUFFICES ASSUME TypeOK, [Next]_vars PROVE TypeOK'
  OBVIOUS
<1>1. ASSUME NEW r \in Requests, authenticate_and_lock_compute_units(r) PROVE TypeOK'
  <2>1. PICK endpoint \in Endpoints, p \in Prices \X Prices : \E est \in Estimates(endpoint) :
           SendLock(r, [pc |-> "locking", attempt |-> 1, endpoint |-> endpoint,
                        est_input |-> est[1], est_output |-> est[2],
                        price_input |-> p[1], price_output |-> p[2]])
    BY <1>1, Zenon DEF authenticate_and_lock_compute_units
  <2>2. PICK est \in Estimates(endpoint) :
           SendLock(r, [pc |-> "locking", attempt |-> 1, endpoint |-> endpoint,
                        est_input |-> est[1], est_output |-> est[2],
                        price_input |-> p[1], price_output |-> p[2]])
    BY <2>1, Zenon
  <2>3. est[1] \in Nat /\ est[2] \in Nat
    BY TokensAssumption
       DEF Estimates, ChatEstimates, CompletionsEstimates, EmbeddingsEstimates, ImageEstimates
  <2>4. p[1] \in Nat /\ p[2] \in Nat
    BY PricesAssumption
  <2>5. [pc |-> "locking", attempt |-> 1, endpoint |-> endpoint,
         est_input |-> est[1], est_output |-> est[2],
         price_input |-> p[1], price_output |-> p[2]] \in Request
    BY <2>3, <2>4 DEF Request
  <2>6. queue' \in Seq(Event) /\ req' \in [Requests -> Request]
    BY <2>2, <2>5, SendLockType
  <2>7. QED
    BY <1>1, <2>6 DEF authenticate_and_lock_compute_units, TypeOK
<1>2. ASSUME NEW r \in Requests, RejectRequest(r) PROVE TypeOK'
  <2>1. req' \in [Requests -> Request]
    BY <1>2, GotoType DEF RejectRequest
  <2>2. QED
    BY <1>2, <2>1 DEF RejectRequest, TypeOK
<1>3. ASSUME NEW r \in Requests, create_fiat_request(r) PROVE TypeOK'
  <2>1. req' \in [Requests -> Request]
    BY <1>3, GotoType DEF create_fiat_request
  <2>2. queue' \in Seq(Event) /\ hold' \in [Reservations -> Hold]
    <3>1. CASE update_state_manager_fiat(r, 0, 0)
      BY <3>1, SettlementType, 0 \in Nat
    <3>2. CASE UNCHANGED <<queue, hold>>
      BY <3>2 DEF TypeOK
    <3>3. QED
      BY <1>3, <3>1, <3>2 DEF create_fiat_request
  <2>3. QED
    BY <1>3, <2>1, <2>2 DEF create_fiat_request, TypeOK
<1>4. ASSUME NEW r \in Requests, ExtractorRejects(r) \/ HandlerPanics(r) PROVE TypeOK'
  <2>1. req' \in [Requests -> Request]
    BY <1>4, GotoType DEF ExtractorRejects, HandlerPanics
  <2>2. QED
    BY <1>4, <2>1 DEF ExtractorRejects, HandlerPanics, TypeOK
<1>5. ASSUME NEW r \in Requests, HandleLocked(r) PROVE TypeOK'
  <2>1. CASE Finish(r) /\ UNCHANGED queue
    BY <1>5, <2>1, GotoType DEF HandleLocked, TypeOK
  <2>2. ASSUME NEW p \in Prices \X Prices,
               SendLock(r, [req[r] EXCEPT !.pc = "locking", !.attempt = 2,
                                          !.price_input = p[1], !.price_output = p[2]])
        PROVE  TypeOK'
    <3>1. p[1] \in Nat /\ p[2] \in Nat
      BY PricesAssumption
    <3>2. [req[r] EXCEPT !.pc = "locking", !.attempt = 2,
                         !.price_input = p[1], !.price_output = p[2]] \in Request
      <4>1. \A q \in Request :
               [q EXCEPT !.pc = "locking", !.attempt = 2,
                         !.price_input = p[1], !.price_output = p[2]] \in Request
        BY <3>1, Zenon DEF Request
      <4>2. QED
        BY <4>1 DEF TypeOK
    <3>3. queue' \in Seq(Event) /\ req' \in [Requests -> Request]
      BY <2>2, <3>2, SendLockType
    <3>4. QED
      BY <1>5, <3>3 DEF HandleLocked, TypeOK
  <2>3. QED
    BY <1>5, <2>1, <2>2 DEF HandleLocked
<1>6. ASSUME NEW r \in Requests, HandleTooEarly(r) PROVE TypeOK'
  <2>1. req' \in [Requests -> Request]
    BY <1>6, GotoType DEF HandleTooEarly
  <2>2. QED
    BY <1>6, <2>1 DEF HandleTooEarly, TypeOK
<1>7. ASSUME NEW r \in Requests, NodeStep(r) PROVE TypeOK'
  <2>1. req' \in [Requests -> Request]
    BY <1>7, GotoType DEF NodeStep, HandlerFails, HandlerSucceeds, handle_streaming_response,
                          handle_final_chunk, DropStreamer
  <2>2. queue' \in Seq(Event) /\ hold' \in [Reservations -> Hold]
    <3>1. CASE handle_streaming_response(r)
      BY <3>1 DEF handle_streaming_response, TypeOK
    <3>2. ASSUME NEW i \in Nat, NEW o \in Nat, update_state_manager_fiat(r, i, o)
          PROVE  queue' \in Seq(Event) /\ hold' \in [Reservations -> Hold]
      BY <3>2, SettlementType
    <3>3. CASE HandlerFails(r)
      BY <3>2, <3>3, 0 \in Nat DEF HandlerFails
    <3>4. CASE HandlerSucceeds(r)
      BY <3>2, <3>4, TokenTypes DEF HandlerSucceeds, TypeOK
    <3>5. CASE handle_final_chunk(r)
      BY <3>2, <3>5, TokensAssumption DEF handle_final_chunk
    <3>6. CASE DropStreamer(r)
      <4>1. req[r].est_input \in Nat
        BY DEF TypeOK, Request
      <4>2. QED
        BY <3>2, <3>6, <4>1, TokensAssumption DEF DropStreamer
    <3>7. QED
      BY <1>7, <3>1, <3>3, <3>4, <3>5, <3>6 DEF NodeStep
  <2>3. QED
    BY <1>7, <2>1, <2>2 DEF NodeStep, HandlerFails, HandlerSucceeds, handle_streaming_response,
                            handle_final_chunk, DropStreamer, TypeOK
<1>8. CASE lock_user_fiat_balance
  <2> DEFINE e == Head(queue)
  <2>1. /\ e \in Event /\ queue' \in Seq(Event) /\ e.key \in Reservations
        /\ e.key[1] \in Requests /\ Owner[e.key[1]] \in Users
    BY <1>8, HeadType DEF lock_user_fiat_balance
  <2>2. req' \in [Requests -> Request]
    BY <1>8, <2>1, GotoType DEF lock_user_fiat_balance
  <2>3. ASSUME NEW row \in Row PROVE LockRow(row, e) \in Row
    <3>1. row.unsettled_input + e.est_input \in Int
          /\ row.unsettled_completions + e.est_output \in Int
      BY <2>1 DEF Row, Event
    <3>2. QED
      BY <3>1, Zenon DEF Row, LockRow
  <2>4. [status |-> "held", input |-> e.est_input, output |-> e.est_output] \in Hold
    BY <2>1 DEF Hold, Event
  <2>5. fiat' \in [Users -> Row] /\ hold' \in [Reservations -> Hold]
    <3> HIDE DEF e
    <3>1. \/ UNCHANGED <<fiat, hold>>
          \/ /\ fiat' = [fiat EXCEPT ![Owner[e.key[1]]] = LockRow(@, e)]
             /\ hold' = [hold EXCEPT ![e.key] = [status |-> "held", input |-> e.est_input,
                                                 output |-> e.est_output]]
      BY <1>8, Zenon DEF lock_user_fiat_balance, e
    <3>2. CASE UNCHANGED <<fiat, hold>>
      BY <3>2 DEF TypeOK
    <3>3. CASE /\ fiat' = [fiat EXCEPT ![Owner[e.key[1]]] = LockRow(@, e)]
               /\ hold' = [hold EXCEPT ![e.key] = [status |-> "held", input |-> e.est_input,
                                                   output |-> e.est_output]]
      <4>1. fiat[Owner[e.key[1]]] \in Row
        BY <2>1 DEF TypeOK
      <4>2. LockRow(fiat[Owner[e.key[1]]], e) \in Row
        BY <2>3, <4>1
      <4>3. QED
        BY <2>4, <3>3, <4>2, Zenon DEF TypeOK
    <3>4. QED
      BY <3>1, <3>2, <3>3
  <2>6. QED
    BY <1>8, <2>1, <2>2, <2>5 DEF lock_user_fiat_balance, TypeOK
<1>9. CASE UpdateStackNumTokensFiat
  <2>1. Head(queue) \in Event /\ queue' \in Seq(Event) /\ OwnerOf(Head(queue).key) \in Users
    BY <1>9, HeadType DEF UpdateStackNumTokensFiat
  <2>2. /\ fiat' \in [Users -> Row]
        /\ hold' \in [Reservations -> Hold]
        /\ excess' \in [Users -> Nat]
    BY <1>9, <2>1, SettleTypes DEF UpdateStackNumTokensFiat
  <2>3. usage' \in [Users -> UsageRow]
    BY <1>9, <2>1, UsageTypes DEF UpdateStackNumTokensFiat, UpdateUsage, TypeOK
  <2>4. QED
    BY <1>9, <2>1, <2>2, <2>3 DEF UpdateStackNumTokensFiat, TypeOK
<1>10. CASE DatabaseError
  <2>1. /\ Head(queue) \in Event /\ queue' \in Seq(Event)
        /\ Head(queue).key[1] \in Requests /\ OwnerOf(Head(queue).key) \in Users
    BY <1>10, HeadType DEF DatabaseError
  <2>2. env' \in [top_ups : Nat, db_errors : Nat, crashes : Nat]
    BY <1>10 DEF DatabaseError, TypeOK
  <2>3. req' \in [Requests -> Request]
    BY <1>10, <2>1, GotoType DEF DatabaseError, TypeOK
  <2>4. /\ fiat' \in [Users -> Row]
        /\ hold' \in [Reservations -> Hold]
        /\ excess' \in [Users -> Nat]
    BY <1>10, <2>1, SettleTypes DEF DatabaseError, TypeOK
  <2>5. usage' \in [Users -> UsageRow]
    BY <1>10, <2>1, UsageTypes DEF DatabaseError, TypeOK
  <2>6. QED
    BY <2>1, <2>2, <2>3, <2>4, <2>5 DEF TypeOK
<1>11. CASE Crash
  <2>1. Finished \in Request
    BY DEF Finished, NoRequest, Request
  <2>2. req' \in [Requests -> Request]
    BY <1>11, <2>1 DEF Crash, TypeOK
  <2>3. env' \in [top_ups : Nat, db_errors : Nat, crashes : Nat]
    <3>1. env.crashes + 1 \in Nat
      BY DEF TypeOK
    <3>2. QED
      BY <1>11, <3>1, Zenon DEF Crash, TypeOK
  <2>4. QED
    BY <1>11, <2>2, <2>3 DEF Crash, TypeOK
<1>12. ASSUME NEW u \in Users, TopUp(u) PROVE TypeOK'
  <2>1. \A row \in Row : [row EXCEPT !.usd_balance = @ + 1] \in Row
    BY DEF Row
  <2>2. fiat' \in [Users -> Row]
    BY <1>12, <2>1 DEF TopUp, TypeOK
  <2>3. env' \in [top_ups : Nat, db_errors : Nat, crashes : Nat]
    <3>1. env.top_ups + 1 \in Nat
      BY DEF TypeOK
    <3>2. QED
      BY <1>12, <3>1, Zenon DEF TopUp, TypeOK
  <2>4. QED
    BY <1>12, <2>2, <2>3 DEF TopUp, TypeOK
<1>13. CASE UNCHANGED vars
  BY <1>13 DEF vars, TypeOK
<1>14. QED
  BY <1>1, <1>2, <1>3, <1>4, <1>5, <1>6, <1>7, <1>8, <1>9, <1>10, <1>11, <1>12, <1>13
     DEF Next, ProxyStep, StateManagerStep

LEMMA TypeInit == Init => TypeOK
  BY BalanceAssumption
     DEF Init, TypeOK, NewRow, Row, NoUsageRow, UsageRow, NoRequest, Request, NoHold, Hold

(* The tables, the channel and the metadata keep their types: no column of *)
(* debits and no amount in flight is ever negative.                        *)
THEOREM TypeCorrect == Spec => []TypeOK
  BY TypeInit, TypeStep, PTL DEF Spec

-----------------------------------------------------------------------------
(* What a step does to the money: nothing, but for the lock it may mark as *)
(* being released; grant the lock at the head of the channel; charge the   *)
(* settlement at the head of the channel; or take a payment in.            *)

PastLock == {"locked", "forwarded", "streaming"}

Quiet ==
  /\ UNCHANGED <<fiat, usage, excess>>
  /\ \/ UNCHANGED hold
     \/ \E r \in Requests :
          /\ req[r].pc \in PastLock
          /\ hold' = [hold EXCEPT ![<<r, req[r].attempt>>].status = "releasing"]

Granted(e) ==
  /\ e.type = "lock"
  /\ CanLock(fiat[OwnerOf(e.key)], e)
  /\ fiat' = [fiat EXCEPT ![OwnerOf(e.key)] = LockRow(@, e)]
  /\ hold' = [hold EXCEPT ![e.key] = [status |-> "held", input |-> e.est_input,
                                      output |-> e.est_output]]
  /\ UNCHANGED <<usage, excess>>

Charged(e) ==
  /\ e.type = "settle"
  /\ update_real_amount_fiat_balance(e)
  /\ \/ UNCHANGED usage
     \/ usage' = [usage EXCEPT ![OwnerOf(e.key)] = DayRow(@, e)]
     \/ usage' = [usage EXCEPT ![OwnerOf(e.key)] = ModelRow(DayRow(@, e), e)]

PaidIn ==
  /\ \E u \in Users : fiat' = [fiat EXCEPT ![u].usd_balance = @ + 1]
  /\ UNCHANGED <<usage, hold, excess>>

LEMMA Effects ==
  ASSUME TypeOK, [Next]_vars
  PROVE  \/ Quiet
         \/ queue # <<>> /\ (Granted(Head(queue)) \/ Charged(Head(queue)))
         \/ PaidIn
<1>1. ASSUME NEW r \in Requests,
             \/ authenticate_and_lock_compute_units(r) \/ RejectRequest(r)
             \/ ExtractorRejects(r) \/ HandlerPanics(r)
      PROVE  Quiet
  BY <1>1 DEF authenticate_and_lock_compute_units, RejectRequest, ExtractorRejects,
              HandlerPanics, Quiet
<1>2. ASSUME NEW r \in Requests, ProxyStep(r) PROVE Quiet
  BY <1>2 DEF ProxyStep, create_fiat_request, HandleLocked, HandleTooEarly,
              update_state_manager_fiat, Quiet, PastLock
<1>3. ASSUME NEW r \in Requests, NodeStep(r) PROVE Quiet
  BY <1>3 DEF NodeStep, HandlerFails, HandlerSucceeds, handle_streaming_response,
              handle_final_chunk, DropStreamer, update_state_manager_fiat, Quiet, PastLock
<1>4. CASE lock_user_fiat_balance
  <2>1. ASSUME CanLock(fiat[Owner[Head(queue).key[1]]], Head(queue)),
               fiat' = [fiat EXCEPT ![Owner[Head(queue).key[1]]] = LockRow(@, Head(queue))],
               hold' = [hold EXCEPT ![Head(queue).key] =
                          [status |-> "held", input |-> Head(queue).est_input,
                           output |-> Head(queue).est_output]]
        PROVE  Granted(Head(queue))
    BY <1>4, <2>1, Zenon DEF Granted, OwnerOf, lock_user_fiat_balance
  <2>2. CASE UNCHANGED <<fiat, hold>>
    BY <1>4, <2>2 DEF Quiet, lock_user_fiat_balance
  <2>3. QED
    BY <1>4, <2>1, <2>2, Zenon DEF lock_user_fiat_balance
<1>5. CASE UpdateStackNumTokensFiat
  BY <1>5, Zenon DEF UpdateStackNumTokensFiat, UpdateUsage, Charged
<1>6. CASE DatabaseError
  BY <1>6, Zenon DEF DatabaseError, Charged, Quiet
<1>7. CASE Crash
  BY <1>7 DEF Crash, Quiet
<1>8. ASSUME NEW u \in Users, TopUp(u) PROVE PaidIn
  BY <1>8 DEF TopUp, PaidIn
<1>9. CASE UNCHANGED vars
  BY <1>9 DEF vars, Quiet
<1>10. QED
  BY <1>1, <1>2, <1>3, <1>4, <1>5, <1>6, <1>7, <1>8, <1>9 DEF Next, StateManagerStep

-----------------------------------------------------------------------------
(* Charges and estimates stay within the balance.                          *)

LEMMA NoOverdraftStep == TypeOK /\ NoOverdraft /\ [Next]_vars => NoOverdraft'
<1> SUFFICES ASSUME TypeOK, NoOverdraft, [Next]_vars, NEW u \in Users
             PROVE  TotalAmount(fiat'[u]) <= fiat'[u].usd_balance + excess'[u]
  BY DEF NoOverdraft
<1>1. TotalAmount(fiat[u]) <= fiat[u].usd_balance + excess[u]
  BY DEF NoOverdraft
<1>2. fiat[u] \in Row /\ excess[u] \in Nat
  BY DEF TypeOK
<1>3. CASE Quiet
  BY <1>1, <1>3 DEF Quiet
<1>4. CASE queue # <<>> /\ Granted(Head(queue))
  <2> DEFINE e == Head(queue)
  <2>1. e \in Event
    BY <1>4, HeadType
  <2>2. CASE OwnerOf(e.key) = u
    <3>1. CanLock(fiat[u], e) /\ fiat'[u] = LockRow(fiat[u], e) /\ excess'[u] = excess[u]
      BY <1>4, <2>2 DEF Granted, TypeOK
    <3>2. QED
      BY <1>2, <2>1, <3>1 DEF CanLock, LockRow, TotalAmount, Row, Event
  <2>3. CASE OwnerOf(e.key) # u
    BY <1>1, <1>4, <2>3 DEF Granted, TypeOK
  <2>4. QED
    BY <2>2, <2>3
<1>5. CASE queue # <<>> /\ Charged(Head(queue))
  <2> DEFINE e == Head(queue)
  <2>1. e \in Event
    BY <1>5, HeadType
  <2>2. CASE OwnerOf(e.key) = u
    <3>1. /\ fiat'[u] = SettleRow(fiat[u], e)
          /\ excess'[u] = excess[u] + Excess(e.input + e.output, e.est_input + e.est_output)
      BY <1>5, <2>2 DEF Charged, update_real_amount_fiat_balance, TypeOK
    <3>2. QED
      BY <1>1, <1>2, <2>1, <3>1 DEF SettleRow, TotalAmount, Excess, Row, Event
  <2>3. CASE OwnerOf(e.key) # u
    BY <1>1, <1>5, <2>3 DEF Charged, update_real_amount_fiat_balance, TypeOK
  <2>4. QED
    BY <2>2, <2>3
<1>6. CASE PaidIn
  BY <1>1, <1>2, <1>6 DEF PaidIn, TotalAmount, TypeOK, Row
<1>7. QED
  BY <1>3, <1>4, <1>5, <1>6, Effects

(* What lock_user_fiat_balance admits, together with everything it has     *)
(* admitted and charged before, stays within what the user paid in and the *)
(* usage that nodes reported above their estimates.                        *)
THEOREM NoOverdraftHolds == Spec => []NoOverdraft
<1>1. Init => NoOverdraft
  BY BalanceAssumption DEF Init, NoOverdraft, NewRow, TotalAmount
<1>2. QED
  BY <1>1, NoOverdraftStep, TypeCorrect, PTL DEF Spec

-----------------------------------------------------------------------------
(* The usage statistics follow the balance.                                *)

LEMMA UsageStep ==
  TypeOK /\ UsageNeverExceedsDebits /\ [Next]_vars => UsageNeverExceedsDebits'
<1> SUFFICES ASSUME TypeOK, UsageNeverExceedsDebits, [Next]_vars, NEW u \in Users
             PROVE  /\ usage'[u].input_amount <= fiat'[u].debited_input
                    /\ usage'[u].output_amount <= fiat'[u].debited_completions
  BY DEF UsageNeverExceedsDebits
<1>1. /\ usage[u].input_amount <= fiat[u].debited_input
      /\ usage[u].output_amount <= fiat[u].debited_completions
  BY DEF UsageNeverExceedsDebits
<1>2. fiat[u] \in Row /\ usage[u] \in UsageRow
  BY DEF TypeOK
<1>3. CASE Quiet
  BY <1>1, <1>3 DEF Quiet
<1>4. CASE queue # <<>> /\ Granted(Head(queue))
  BY <1>1, <1>2, <1>4 DEF Granted, LockRow, TypeOK, Row
<1>5. CASE queue # <<>> /\ Charged(Head(queue))
  <2> DEFINE e == Head(queue)
  <2>1. e \in Event
    BY <1>5, HeadType
  <2>2. CASE OwnerOf(e.key) = u
    <3>1. fiat'[u] = SettleRow(fiat[u], e)
      BY <1>5, <2>2 DEF Charged, update_real_amount_fiat_balance, TypeOK
    <3>2. \/ usage'[u] = usage[u]
          \/ usage'[u] = DayRow(usage[u], e)
          \/ usage'[u] = ModelRow(DayRow(usage[u], e), e)
      BY <1>5, <2>2 DEF Charged, TypeOK
    <3>3. /\ fiat'[u].debited_input = fiat[u].debited_input + e.input
          /\ fiat'[u].debited_completions = fiat[u].debited_completions + e.output
      BY <1>2, <3>1 DEF SettleRow, Row
    <3>4. \/ usage'[u] = usage[u]
          \/ /\ usage'[u].input_amount = usage[u].input_amount + e.input
             /\ usage'[u].output_amount = usage[u].output_amount + e.output
      BY <1>2, <3>2 DEF DayRow, ModelRow, UsageRow
    <3>5. QED
      BY <1>1, <1>2, <2>1, <3>3, <3>4 DEF Row, UsageRow, Event
  <2>3. CASE OwnerOf(e.key) # u
    BY <1>1, <1>5, <2>3 DEF Charged, update_real_amount_fiat_balance, TypeOK
  <2>4. QED
    BY <2>2, <2>3
<1>6. CASE PaidIn
  <2>1. PICK v \in Users : fiat' = [fiat EXCEPT ![v].usd_balance = @ + 1]
    BY <1>6 DEF PaidIn
  <2>2. /\ fiat'[u].debited_input = fiat[u].debited_input
        /\ fiat'[u].debited_completions = fiat[u].debited_completions
    BY <2>1 DEF TypeOK, Row
  <2>3. QED
    BY <1>1, <1>6, <2>2 DEF PaidIn
<1>7. QED
  BY <1>3, <1>4, <1>5, <1>6, Effects

(* usage_per_day never shows more than was charged to the balance, however *)
(* the statements of a settlement fail.                                    *)
THEOREM UsageWithinDebits == Spec => []UsageNeverExceedsDebits
<1>1. Init => UsageNeverExceedsDebits
  BY DEF Init, UsageNeverExceedsDebits, NewRow, NoUsageRow
<1>2. QED
  BY <1>1, UsageStep, TypeCorrect, PTL DEF Spec

-----------------------------------------------------------------------------
(* What a step does to the requests, the channel and the locks.            *)

AsksLock ==
  \E r \in Requests, q \in Request :
    /\ SendLock(r, q)
    /\ UNCHANGED hold
    /\ q.pc = "locking"
    /\ \/ req[r].pc = "idle" /\ q.attempt = 1
       \/ req[r].pc = "locked_answer" /\ q.attempt = 2

Walks ==
  \E r \in Requests :
    /\ UNCHANGED <<queue, hold>>
    /\ \/ req[r].pc # "locking" /\ Finish(r)
       \/ req[r].pc \in PastLock /\ \E pc \in PastLock : Goto(r, pc)

Settles ==
  \E r \in Requests, i \in Nat, o \in Nat :
    /\ req[r].pc \in PastLock
    /\ update_state_manager_fiat(r, i, o)
    /\ \/ Finish(r)
       \/ /\ req[r].attempt = 1
          /\ Goto(r, "locked_answer") \/ Goto(r, "too_early_answer")

Grants ==
  /\ queue # <<>> /\ Head(queue).type = "lock" /\ queue' = Tail(queue)
  /\ hold' = [hold EXCEPT ![Head(queue).key] =
                [status |-> "held", input |-> Head(queue).est_input,
                 output |-> Head(queue).est_output]]
  /\ Goto(Head(queue).key[1], "locked")

Refuses ==
  /\ queue # <<>> /\ Head(queue).type = "lock" /\ queue' = Tail(queue)
  /\ Finish(Head(queue).key[1])
  /\ UNCHANGED hold

Charges ==
  /\ queue # <<>> /\ Head(queue).type = "settle" /\ queue' = Tail(queue)
  /\ hold' = [hold EXCEPT ![Head(queue).key] =
                [status |-> "settled", input |-> Head(queue).input,
                 output |-> Head(queue).output]]
  /\ UNCHANGED req

Drops ==
  /\ queue # <<>> /\ Head(queue).type = "settle" /\ queue' = Tail(queue)
  /\ env'.db_errors > 0
  /\ UNCHANGED <<req, hold>>

Still == UNCHANGED <<queue, req, hold>>

LEMMA Moves ==
  ASSUME TypeOK, [Next]_vars
  PROVE  \/ AsksLock \/ Walks \/ Settles \/ Grants \/ Refuses \/ Charges \/ Drops
         \/ Crash \/ Still
<1>1. ASSUME NEW r \in Requests, authenticate_and_lock_compute_units(r) PROVE AsksLock
  <2>1. PICK endpoint \in Endpoints, p \in Prices \X Prices : \E est \in Estimates(endpoint) :
           SendLock(r, [pc |-> "locking", attempt |-> 1, endpoint |-> endpoint,
                        est_input |-> est[1], est_output |-> est[2],
                        price_input |-> p[1], price_output |-> p[2]])
    BY <1>1, Zenon DEF authenticate_and_lock_compute_units
  <2>2. PICK est \in Estimates(endpoint) :
           SendLock(r, [pc |-> "locking", attempt |-> 1, endpoint |-> endpoint,
                        est_input |-> est[1], est_output |-> est[2],
                        price_input |-> p[1], price_output |-> p[2]])
    BY <2>1, Zenon
  <2> DEFINE q == [pc |-> "locking", attempt |-> 1, endpoint |-> endpoint,
                   est_input |-> est[1], est_output |-> est[2],
                   price_input |-> p[1], price_output |-> p[2]]
  <2>3. est[1] \in Nat /\ est[2] \in Nat
    BY TokensAssumption
       DEF Estimates, ChatEstimates, CompletionsEstimates, EmbeddingsEstimates, ImageEstimates
  <2>4. p[1] \in Nat /\ p[2] \in Nat
    BY PricesAssumption
  <2>5. q \in Request /\ q.pc = "locking" /\ q.attempt = 1
    BY <2>3, <2>4 DEF Request
  <2>6. SendLock(r, q) /\ UNCHANGED hold /\ req[r].pc = "idle"
    BY <1>1, <2>2 DEF authenticate_and_lock_compute_units
  <2> HIDE DEF q
  <2>7. QED
    BY <2>5, <2>6 DEF AsksLock
<1>2. ASSUME NEW r \in Requests, RejectRequest(r) PROVE Walks
  BY <1>2 DEF RejectRequest, Walks
<1>3. ASSUME NEW r \in Requests, create_fiat_request(r) PROVE Walks \/ Settles
  <2>1. CASE Goto(r, "forwarded") /\ UNCHANGED <<queue, hold>>
    BY <1>3, <2>1 DEF create_fiat_request, Walks, PastLock
  <2>2. CASE Finish(r) /\ update_state_manager_fiat(r, 0, 0)
    BY <1>3, <2>2, 0 \in Nat DEF create_fiat_request, Settles, PastLock
  <2>3. QED
    BY <1>3, <2>1, <2>2 DEF create_fiat_request
<1>4. ASSUME NEW r \in Requests,
             ExtractorRejects(r) \/ HandlerPanics(r) \/ HandleTooEarly(r)
      PROVE  Walks
  BY <1>4 DEF ExtractorRejects, HandlerPanics, HandleTooEarly, Walks
<1>5. ASSUME NEW r \in Requests, HandleLocked(r) PROVE AsksLock \/ Walks
  <2>1. CASE Finish(r) /\ UNCHANGED queue
    BY <1>5, <2>1 DEF HandleLocked, Walks
  <2>2. ASSUME NEW p \in Prices \X Prices,
               SendLock(r, [req[r] EXCEPT !.pc = "locking", !.attempt = 2,
                                          !.price_input = p[1], !.price_output = p[2]])
        PROVE  AsksLock
    <3> DEFINE q == [req[r] EXCEPT !.pc = "locking", !.attempt = 2,
                                   !.price_input = p[1], !.price_output = p[2]]
    <3>1. p[1] \in Nat /\ p[2] \in Nat
      BY PricesAssumption
    <3>2. \A x \in Request :
             [x EXCEPT !.pc = "locking", !.attempt = 2,
                       !.price_input = p[1], !.price_output = p[2]] \in Request
      BY <3>1, Zenon DEF Request
    <3>3. q \in Request
      BY <3>2 DEF TypeOK
    <3>4. q.pc = "locking" /\ q.attempt = 2
      BY DEF TypeOK, Request
    <3>5. SendLock(r, q) /\ UNCHANGED hold /\ req[r].pc = "locked_answer"
      BY <1>5, <2>2 DEF HandleLocked
    <3> HIDE DEF q
    <3>6. QED
      BY <3>3, <3>4, <3>5 DEF AsksLock
  <2>3. QED
    BY <1>5, <2>1, <2>2 DEF HandleLocked
<1>6. ASSUME NEW r \in Requests, NodeStep(r) PROVE Walks \/ Settles
  <2>1. CASE HandlerFails(r)
    BY <2>1, 0 \in Nat DEF HandlerFails, Settles, PastLock
  <2>2. CASE HandlerSucceeds(r)
    <3>1. \E i \in Nat, o \in Nat : update_state_manager_fiat(r, i, o)
      BY <2>2, TokenTypes DEF HandlerSucceeds, TypeOK
    <3>2. QED
      BY <2>2, <3>1 DEF HandlerSucceeds, Settles, PastLock
  <2>3. CASE handle_streaming_response(r)
    BY <2>3 DEF handle_streaming_response, Walks, PastLock
  <2>4. CASE handle_final_chunk(r)
    <3>1. \E i \in Nat, o \in Nat : update_state_manager_fiat(r, i, o)
      BY <2>4, TokensAssumption DEF handle_final_chunk
    <3>2. QED
      BY <2>4, <3>1 DEF handle_final_chunk, Settles, PastLock
  <2>5. CASE DropStreamer(r)
    <3>1. req[r].est_input \in Nat
      BY DEF TypeOK, Request
    <3>2. \E i \in Nat, o \in Nat : update_state_manager_fiat(r, i, o)
      BY <2>5, <3>1, TokensAssumption DEF DropStreamer
    <3>3. QED
      BY <2>5, <3>2 DEF DropStreamer, Settles, PastLock
  <2>6. QED
    BY <1>6, <2>1, <2>2, <2>3, <2>4, <2>5 DEF NodeStep
<1>7. CASE lock_user_fiat_balance
  BY <1>7, Zenon DEF lock_user_fiat_balance, Grants, Refuses
<1>8. CASE UpdateStackNumTokensFiat
  BY <1>8, Zenon DEF UpdateStackNumTokensFiat, update_real_amount_fiat_balance, Charges
<1>9. CASE DatabaseError
  <2>1. env'.db_errors > 0
    BY <1>9 DEF DatabaseError, TypeOK
  <2>2. QED
    BY <1>9, <2>1, Zenon
       DEF DatabaseError, update_real_amount_fiat_balance, Charges, Refuses, Drops
<1>10. ASSUME NEW u \in Users, TopUp(u) PROVE Still
  BY <1>10 DEF TopUp, Still
<1>11. CASE UNCHANGED vars
  BY <1>11 DEF vars, Still
<1>12. QED
  BY <1>1, <1>2, <1>3, <1>4, <1>5, <1>6, <1>7, <1>8, <1>9, <1>10, <1>11
     DEF Next, ProxyStep, StateManagerStep

-----------------------------------------------------------------------------
(* The channel, the requests and the locks agree.                          *)

CoreInv == TypeOK /\ (\A r \in Requests : RequestAgrees(r)) /\ QueueAgrees

(* A request whose metadata and locks a step leaves alone. *)
LEMMA SameRequest ==
  ASSUME NEW r, RequestAgrees(r), req'[r] = req[r],
         hold'[<<r, 1>>] = hold[<<r, 1>>], hold'[<<r, 2>>] = hold[<<r, 2>>],
         req[r].attempt \in {1, 2}
  PROVE  RequestAgrees(r)'
  BY DEF RequestAgrees

(* The channel with one more event, and the channel without its head. *)
LEMMA AppendFacts ==
  ASSUME NEW S, NEW s \in Seq(S), NEW e \in S
  PROVE  /\ Len(Append(s, e)) = Len(s) + 1 /\ Len(s) \in Nat
         /\ \A i \in 1 .. Len(s) : Append(s, e)[i] = s[i]
         /\ Append(s, e)[Len(s) + 1] = e
  OBVIOUS

LEMMA TailFacts ==
  ASSUME NEW S, NEW s \in Seq(S), s # <<>>
  PROVE  /\ Len(Tail(s)) = Len(s) - 1 /\ Len(s) \in Nat \ {0}
         /\ \A i \in 1 .. Len(Tail(s)) : Tail(s)[i] = s[i + 1] /\ i + 1 \in 1 .. Len(s)
         /\ Head(s) = s[1]
  OBVIOUS

(* A step that appends an event keeps the channel in agreement if the new  *)
(* event agrees, the old ones still do, and none of them has its key.      *)
LEMMA AppendAgrees ==
  ASSUME TypeOK, QueueAgrees, NEW e \in Event, queue' = Append(queue, e), EventAgrees(e)',
         \A x \in Event, i \in 1 .. Len(queue) :
            x = queue[i] => EventAgrees(x)' /\ x.key # e.key
  PROVE  QueueAgrees'
<1>1. queue \in Seq(Event)
  BY DEF TypeOK
<1>2. /\ Len(queue') = Len(queue) + 1 /\ Len(queue) \in Nat
      /\ \A i \in 1 .. Len(queue) : queue'[i] = queue[i] /\ queue[i] \in Event
      /\ queue'[Len(queue) + 1] = e
  BY <1>1, AppendFacts
<1>3. ASSUME NEW x \in Event, NEW i \in 1 .. Len(queue'), x = queue'[i] PROVE EventAgrees(x)'
  <2>1. CASE i \in 1 .. Len(queue)
    BY <1>2, <1>3, <2>1
  <2>2. CASE i = Len(queue) + 1
    BY <1>2, <1>3, <2>2
  <2>3. QED
    BY <1>2, <2>1, <2>2
<1>4. \A i \in 1 .. Len(queue') : queue'[i] \in Event
  BY <1>2
<1>5. ASSUME NEW i \in 1 .. Len(queue') PROVE EventAgrees(queue[i])'
  <2>1. PICK x \in Event : x = queue'[i]
    BY <1>4
  <2>2. EventAgrees(x)'
    BY <1>3, <2>1
  <2>3. QED
    BY <2>1, <2>2 DEF EventAgrees
<1>6. ASSUME NEW i \in 1 .. Len(queue'), NEW j \in 1 .. Len(queue'), queue'[i].key = queue'[j].key
      PROVE  i = j
  BY <1>2, <1>6 DEF QueueAgrees
<1>7. QED
  BY <1>5, <1>6 DEF QueueAgrees

(* A step that removes the head keeps the channel in agreement if the      *)
(* events with another key still agree.                                    *)
LEMMA TailAgrees ==
  ASSUME TypeOK, QueueAgrees, queue # <<>>, queue' = Tail(queue),
         \A x \in Event, i \in 1 .. Len(queue) :
            x = queue[i] /\ x.key # Head(queue).key => EventAgrees(x)'
  PROVE  QueueAgrees'
<1>1. queue \in Seq(Event)
  BY DEF TypeOK
<1>2. /\ Len(queue') = Len(queue) - 1 /\ Len(queue) \in Nat \ {0}
      /\ \A i \in 1 .. Len(queue') : queue'[i] = queue[i + 1] /\ i + 1 \in 1 .. Len(queue)
      /\ Head(queue) = queue[1]
  BY <1>1, TailFacts
<1>3. \A i \in 1 .. Len(queue) : queue[i] \in Event
  BY <1>1
<1>4. ASSUME NEW i \in 1 .. Len(queue') PROVE EventAgrees(queue[i])'
  <2>1. queue'[i] = queue[i + 1] /\ i + 1 \in 1 .. Len(queue) /\ i + 1 # 1
    BY <1>2
  <2>2. queue[i + 1].key # Head(queue).key
    BY <1>2, <2>1 DEF QueueAgrees
  <2>3. PICK x \in Event : x = queue[i + 1]
    BY <1>3, <2>1
  <2>4. EventAgrees(x)'
    BY <2>1, <2>2, <2>3
  <2>5. QED
    BY <2>1, <2>3, <2>4 DEF EventAgrees
<1>5. ASSUME NEW i \in 1 .. Len(queue'), NEW j \in 1 .. Len(queue'), queue'[i].key = queue'[j].key
      PROVE  i = j
  BY <1>2, <1>5 DEF QueueAgrees
<1>6. QED
  BY <1>4, <1>5 DEF QueueAgrees

LEMMA SameQueueAgrees ==
  ASSUME TypeOK, QueueAgrees, UNCHANGED queue,
         \A x \in Event, i \in 1 .. Len(queue) : x = queue[i] => EventAgrees(x)'
  PROVE  QueueAgrees'
<1>1. \A i \in 1 .. Len(queue) : queue[i] \in Event
  BY DEF TypeOK
<1>2. ASSUME NEW i \in 1 .. Len(queue) PROVE EventAgrees(queue[i])'
  <2>1. PICK x \in Event : x = queue[i]
    BY <1>1
  <2>2. EventAgrees(x)'
    BY <2>1
  <2>3. QED
    BY <2>1, <2>2 DEF EventAgrees
<1>3. QED
  BY <1>2 DEF QueueAgrees

(* The key of an event is a request and the number of its attempt. *)
LEMMA KeyFacts ==
  ASSUME NEW k \in Reservations
  PROVE  k[1] \in Requests /\ k[2] \in {1, 2} /\ k = <<k[1], k[2]>>
  BY DEF Reservations

LEMMA CoreStep == CoreInv /\ [Next]_vars => CoreInv'
<1> SUFFICES ASSUME CoreInv, [Next]_vars PROVE CoreInv'
  OBVIOUS
<1>a. TypeOK /\ TypeOK' /\ QueueAgrees /\ \A r \in Requests : RequestAgrees(r)
  BY TypeStep DEF CoreInv
<1>b. \A r \in Requests : req[r].attempt \in {1, 2} /\ <<r, req[r].attempt>> \in Reservations
                         /\ <<r, 1>> \in Reservations /\ <<r, 2>> \in Reservations
  BY <1>a DEF TypeOK, Request, Reservations
<1>c. \A i \in 1 .. Len(queue) : EventAgrees(queue[i])
  BY <1>a DEF QueueAgrees
<1>d. \A x \in Event : x.key \in Reservations
  BY DEF Event
<1>1. CASE AsksLock
  <2>1. PICK r \in Requests, q \in Request :
          /\ SendLock(r, q)
          /\ UNCHANGED hold
          /\ q.pc = "locking"
          /\ \/ req[r].pc = "idle" /\ q.attempt = 1
             \/ req[r].pc = "locked_answer" /\ q.attempt = 2
    BY <1>1 DEF AsksLock
  <2>2. req' = [req EXCEPT ![r] = q] /\ queue' = Append(queue, LockEvent(r, q))
    BY <2>1 DEF SendLock
  <2>3. req'[r] = q /\ \A x \in Requests \ {r} : req'[x] = req[x]
    BY <1>a, <2>2 DEF TypeOK
  <2>4. /\ hold[<<r, q.attempt>>].status = "none"
        /\ q.attempt = 1 => hold[<<r, 2>>].status = "none"
    BY <1>a, <2>1 DEF RequestAgrees
  <2>5. ASSUME NEW x \in Requests PROVE RequestAgrees(x)'
    <3>1. CASE x = r
      BY <2>1, <2>3, <2>4, <3>1 DEF RequestAgrees
    <3>2. CASE x # r
      BY <1>a, <1>b, <2>1, <2>3, <3>2, SameRequest
    <3>3. QED
      BY <3>1, <3>2
  <2>6. LockEvent(r, q) \in Event /\ LockEvent(r, q).key = <<r, q.attempt>>
    BY EventTypes, 0 \in Nat DEF LockEvent
  <2>7. EventAgrees(LockEvent(r, q))'
    BY <2>1, <2>3 DEF EventAgrees, LockEvent
  <2>8. ASSUME NEW x \in Event, NEW i \in 1 .. Len(queue), x = queue[i]
        PROVE  EventAgrees(x)' /\ x.key # <<r, q.attempt>>
    <3>1. EventAgrees(x)
      BY <1>c, <2>8
    <3>2. CASE x.type = "lock"
      <4>1. req[x.key[1]].pc = "locking"
        BY <3>1, <3>2 DEF EventAgrees
      <4>2. x.key[1] # r
        BY <2>1, <4>1
      <4>3. req'[x.key[1]] = req[x.key[1]]
        BY <1>d, <2>3, <4>2, KeyFacts
      <4>4. QED
        BY <3>1, <3>2, <4>2, <4>3 DEF EventAgrees
    <3>3. CASE x.type = "settle"
      <4>1. hold[x.key].status = "releasing"
        BY <3>1, <3>3 DEF EventAgrees
      <4>2. QED
        BY <2>1, <2>4, <3>1, <3>3, <4>1 DEF EventAgrees
    <3>4. QED
      BY <3>2, <3>3 DEF Event
  <2>9. QueueAgrees'
    BY <1>a, <2>2, <2>6, <2>7, <2>8, AppendAgrees
  <2>10. QED
    BY <1>a, <2>5, <2>9 DEF CoreInv
<1>2. CASE Walks
  <2>1. PICK r \in Requests :
          /\ UNCHANGED <<queue, hold>>
          /\ \/ req[r].pc # "locking" /\ Finish(r)
             \/ req[r].pc \in PastLock /\ \E pc \in PastLock : Goto(r, pc)
    BY <1>2 DEF Walks
  <2>2. /\ req[r].pc # "locking"
        /\ \A x \in Requests \ {r} : req'[x] = req[x]
        /\ \/ req'[r] = Finished
           \/ req[r].pc \in PastLock /\ \E pc \in PastLock : req'[r] = [req[r] EXCEPT !.pc = pc]
    BY <1>a, <2>1 DEF TypeOK, Finish, Goto, PastLock
  <2>3. ASSUME NEW x \in Requests PROVE RequestAgrees(x)'
    <3>1. CASE x = r /\ req'[r] = Finished
      BY <3>1 DEF RequestAgrees, Finished, NoRequest
    <3>2. CASE x = r /\ req'[r] # Finished
      <4>1. PICK pc \in PastLock : req'[r] = [req[r] EXCEPT !.pc = pc]
        BY <2>2, <3>2
      <4>2. req[r] \in Request /\ RequestAgrees(r) /\ req[r].pc \in PastLock /\ UNCHANGED hold
        BY <1>a, <2>1, <2>2, <3>2 DEF TypeOK
      <4>3. /\ req'[r].pc = pc /\ req'[r].attempt = req[r].attempt
            /\ req'[r].est_input = req[r].est_input /\ req'[r].est_output = req[r].est_output
            /\ req'[r].price_input = req[r].price_input
            /\ req'[r].price_output = req[r].price_output
        BY <4>1, <4>2 DEF Request
      <4>4. QED
        BY <3>2, <4>1, <4>2, <4>3 DEF RequestAgrees, PastLock
    <3>3. CASE x # r
      BY <1>a, <1>b, <2>1, <2>2, <3>3, SameRequest
    <3>4. QED
      BY <3>1, <3>2, <3>3
  <2>4. ASSUME NEW x \in Event, NEW i \in 1 .. Len(queue), x = queue[i] PROVE EventAgrees(x)'
    <3>1. EventAgrees(x) /\ x.key[1] \in Requests
      BY <1>c, <1>d, <2>4, KeyFacts
    <3>2. x.type = "lock" => req'[x.key[1]] = req[x.key[1]]
      BY <2>2, <3>1 DEF EventAgrees
    <3>3. QED
      BY <2>1, <3>1, <3>2 DEF EventAgrees
  <2>5. QueueAgrees'
    BY <1>a, <2>1, <2>4, SameQueueAgrees
  <2>6. QED
    BY <1>a, <2>3, <2>5 DEF CoreInv
<1>3. CASE Settles
  <2>1. PICK r \in Requests, n \in Nat, o \in Nat :
          /\ req[r].pc \in PastLock
          /\ update_state_manager_fiat(r, n, o)
          /\ \/ Finish(r)
             \/ /\ req[r].attempt = 1
                /\ Goto(r, "locked_answer") \/ Goto(r, "too_early_answer")
    BY <1>3 DEF Settles
  <2> DEFINE k == <<r, req[r].attempt>>
  <2>e. PICK e \in Event : e = SettleEvent(r, req[r], n, o)
    BY <1>a, EventTypes DEF TypeOK
  <2>2. /\ k \in Reservations
        /\ hold[k] = [status |-> "held",
                      input |-> Amount(req[r].est_input, req[r].price_input),
                      output |-> Amount(req[r].est_output, req[r].price_output)]
    BY <1>a, <1>b, <2>1 DEF RequestAgrees, PastLock
  <2>3. /\ hold' = [hold EXCEPT ![k].status = "releasing"]
        /\ queue' = Append(queue, e)
    BY <2>1, <2>e DEF update_state_manager_fiat
  <2>4. /\ hold'[k] = [status |-> "releasing",
                       input |-> Amount(req[r].est_input, req[r].price_input),
                       output |-> Amount(req[r].est_output, req[r].price_output)]
        /\ \A j \in Reservations \ {k} : hold'[j] = hold[j]
    <3> HIDE DEF k
    <3>1. /\ hold'[k] = [hold[k] EXCEPT !.status = "releasing"]
          /\ \A j \in Reservations \ {k} : hold'[j] = hold[j]
      BY <1>a, <2>2, <2>3 DEF TypeOK
    <3>2. QED
      BY <2>2, <3>1
  <2>5. /\ \A x \in Requests \ {r} : req'[x] = req[x]
        /\ \/ req'[r].pc = "done"
           \/ /\ req'[r].pc \in {"locked_answer", "too_early_answer"}
              /\ req'[r].attempt = 1 /\ req[r].attempt = 1
    <3>1. CASE Finish(r)
      BY <1>a, <3>1 DEF TypeOK, Finish, Finished, NoRequest
    <3>2. ASSUME NEW pc \in {"locked_answer", "too_early_answer"}, Goto(r, pc),
                 req[r].attempt = 1
          PROVE  /\ \A x \in Requests \ {r} : req'[x] = req[x]
                 /\ req'[r].pc = pc /\ req'[r].attempt = 1
      <4>1. /\ \A x \in Requests \ {r} : req'[x] = req[x]
            /\ req'[r] = [req[r] EXCEPT !.pc = pc] /\ req[r] \in Request
        BY <1>a, <3>2 DEF TypeOK, Goto
      <4>2. QED
        BY <3>2, <4>1 DEF Request
    <3>3. QED
      BY <2>1, <3>1, <3>2
  <2>6. ASSUME NEW x \in Requests PROVE RequestAgrees(x)'
    <3>1. CASE x = r /\ req'[r].pc = "done"
      BY <3>1 DEF RequestAgrees
    <3>2. CASE x = r /\ req'[r].pc # "done"
      <4>1. hold[<<r, 2>>].status = "none"
        BY <1>a, <2>1, <2>5, <3>2 DEF RequestAgrees, PastLock
      <4>k. <<r, 2>> # k
        BY <2>5, <3>2
      <4>2. hold'[<<r, 2>>].status = "none"
        BY <1>b, <2>4, <4>1, <4>k
      <4>3. QED
        BY <2>5, <3>2, <4>2 DEF RequestAgrees
    <3>3. CASE x # r
      <4>1. hold'[<<x, 1>>] = hold[<<x, 1>>] /\ hold'[<<x, 2>>] = hold[<<x, 2>>]
        BY <1>b, <2>4, <3>3
      <4>2. QED
        BY <1>a, <1>b, <2>5, <3>3, <4>1, SameRequest
    <3>4. QED
      BY <3>1, <3>2, <3>3
  <2>7. /\ e.type = "settle" /\ e.key = k
        /\ e.est_input = Amount(req[r].est_input, req[r].price_input)
        /\ e.est_output = Amount(req[r].est_output, req[r].price_output)
    BY <2>e DEF SettleEvent
  <2>8. EventAgrees(e)'
    BY <2>4, <2>7 DEF EventAgrees
  <2>9. ASSUME NEW x \in Event, NEW i \in 1 .. Len(queue), x = queue[i]
        PROVE  EventAgrees(x)' /\ x.key # k
    <3>1. EventAgrees(x) /\ x.key[1] \in Requests /\ x.key \in Reservations
      BY <1>c, <1>d, <2>9, KeyFacts
    <3>2. CASE x.type = "lock"
      <4>1. x.key[1] # r
        BY <2>1, <3>1, <3>2 DEF EventAgrees, PastLock
      <4>2. QED
        BY <2>5, <3>1, <3>2, <4>1 DEF EventAgrees
    <3>3. CASE x.type = "settle"
      <4>1. x.key # k
        BY <2>2, <3>1, <3>3 DEF EventAgrees
      <4>2. QED
        BY <2>4, <3>1, <3>3, <4>1 DEF EventAgrees
    <3>4. QED
      BY <3>2, <3>3 DEF Event
  <2>10. QueueAgrees'
    BY <1>a, <2>3, <2>7, <2>8, <2>9, AppendAgrees
  <2>11. QED
    BY <1>a, <2>6, <2>10 DEF CoreInv
<1>4. CASE Grants
  <2>1. PICK e \in Event : e = Head(queue)
    BY <1>a, <1>4, HeadType DEF Grants
  <2>2. /\ e.key \in Reservations /\ e.key[1] \in Requests /\ e.key[2] \in {1, 2}
        /\ e.key = <<e.key[1], e.key[2]>>
    BY <1>d, KeyFacts
  <2>3. EventAgrees(e) /\ e.type = "lock"
    <3>1. Head(queue) = queue[1] /\ 1 \in 1 .. Len(queue)
      BY <1>a, <1>4 DEF TypeOK, Grants
    <3>2. QED
      BY <1>c, <1>4, <2>1, <3>1 DEF Grants
  <2>4. /\ req[e.key[1]].pc = "locking" /\ e.key[2] = req[e.key[1]].attempt
        /\ e.est_input = Amount(req[e.key[1]].est_input, req[e.key[1]].price_input)
        /\ e.est_output = Amount(req[e.key[1]].est_output, req[e.key[1]].price_output)
    BY <2>3 DEF EventAgrees
  <2>5. /\ hold'[e.key] = [status |-> "held", input |-> e.est_input, output |-> e.est_output]
        /\ \A j \in Reservations \ {e.key} : hold'[j] = hold[j]
    BY <1>4, <1>a, <2>1, <2>2 DEF Grants, TypeOK
  <2>6. /\ \A x \in Requests \ {e.key[1]} : req'[x] = req[x]
        /\ req'[e.key[1]] = [req[e.key[1]] EXCEPT !.pc = "locked"]
    BY <1>4, <1>a, <2>1, <2>2 DEF Grants, TypeOK, Goto
  <2>7. ASSUME NEW x \in Requests PROVE RequestAgrees(x)'
    <3>1. CASE x = e.key[1]
      <4>1. req[x] \in Request
        BY <1>a DEF TypeOK
      <4>2. /\ req'[x].pc = "locked" /\ req'[x].attempt = req[x].attempt
            /\ req'[x].est_input = req[x].est_input /\ req'[x].est_output = req[x].est_output
            /\ req'[x].price_input = req[x].price_input
            /\ req'[x].price_output = req[x].price_output
        BY <2>6, <3>1, <4>1 DEF Request
      <4>3. e.key = <<x, req[x].attempt>>
        BY <2>2, <2>4, <3>1
      <4>4. req[x].attempt = 1 => hold'[<<x, 2>>].status = "none"
        BY <1>a, <1>b, <2>4, <2>5, <3>1, <4>3 DEF RequestAgrees
      <4>5. QED
        BY <2>4, <2>5, <3>1, <4>2, <4>3, <4>4 DEF RequestAgrees
    <3>2. CASE x # e.key[1]
      <4>1. hold'[<<x, 1>>] = hold[<<x, 1>>] /\ hold'[<<x, 2>>] = hold[<<x, 2>>]
        <5>1. <<x, 1>>[1] = x /\ <<x, 2>>[1] = x
          OBVIOUS
        <5>2. <<x, 1>> # e.key /\ <<x, 2>> # e.key
          BY <3>2, <5>1
        <5>3. QED
          BY <1>b, <2>5, <5>2
      <4>2. QED
        BY <1>a, <1>b, <2>6, <3>2, <4>1, SameRequest
    <3>3. QED
      BY <3>1, <3>2
  <2>8. ASSUME NEW x \in Event, NEW i \in 1 .. Len(queue), x = queue[i], x.key # e.key
        PROVE  EventAgrees(x)'
    <3>1. EventAgrees(x) /\ x.key[1] \in Requests /\ x.key \in Reservations
          /\ x.key = <<x.key[1], x.key[2]>>
      BY <1>c, <1>d, <2>8, KeyFacts
    <3>2. CASE x.type = "lock"
      <4>1. x.key[1] # e.key[1]
        BY <2>2, <2>4, <2>8, <3>1, <3>2 DEF EventAgrees
      <4>2. QED
        BY <2>6, <3>1, <3>2, <4>1 DEF EventAgrees
    <3>3. CASE x.type = "settle"
      BY <2>5, <2>8, <3>1, <3>3 DEF EventAgrees
    <3>4. QED
      BY <3>2, <3>3 DEF Event
  <2>9. QueueAgrees'
    BY <1>4, <1>a, <2>1, <2>8, TailAgrees DEF Grants
  <2>10. QED
    BY <1>a, <2>7, <2>9 DEF CoreInv
<1>5. CASE Refuses
  <2>1. PICK e \in Event : e = Head(queue)
    BY <1>a, <1>5, HeadType DEF Refuses
  <2>2. /\ e.key \in Reservations /\ e.key[1] \in Requests /\ e.key[2] \in {1, 2}
        /\ e.key = <<e.key[1], e.key[2]>>
    BY <1>d, KeyFacts
  <2>3. EventAgrees(e) /\ e.type = "lock"
    <3>1. Head(queue) = queue[1] /\ 1 \in 1 .. Len(queue)
      BY <1>a, <1>5 DEF TypeOK, Refuses
    <3>2. QED
      BY <1>c, <1>5, <2>1, <3>1 DEF Refuses
  <2>4. req[e.key[1]].pc = "locking" /\ e.key[2] = req[e.key[1]].attempt
    BY <2>3 DEF EventAgrees
  <2>5. /\ \A x \in Requests \ {e.key[1]} : req'[x] = req[x]
        /\ req'[e.key[1]].pc = "done"
        /\ UNCHANGED hold
    BY <1>5, <1>a, <2>1, <2>2 DEF Refuses, TypeOK, Finish, Finished, NoRequest
  <2>6. ASSUME NEW x \in Requests PROVE RequestAgrees(x)'
    <3>1. CASE x = e.key[1]
      BY <2>5, <3>1 DEF RequestAgrees
    <3>2. CASE x # e.key[1]
      BY <1>a, <1>b, <2>5, <3>2, SameRequest
    <3>3. QED
      BY <3>1, <3>2
  <2>7. ASSUME NEW x \in Event, NEW i \in 1 .. Len(queue), x = queue[i], x.key # e.key
        PROVE  EventAgrees(x)'
    <3>1. EventAgrees(x) /\ x.key[1] \in Requests /\ x.key = <<x.key[1], x.key[2]>>
      BY <1>c, <1>d, <2>7, KeyFacts
    <3>2. x.type = "lock" => x.key[1] # e.key[1]
      BY <2>2, <2>4, <2>7, <3>1 DEF EventAgrees
    <3>3. QED
      BY <2>5, <3>1, <3>2 DEF EventAgrees
  <2>8. QueueAgrees'
    BY <1>5, <1>a, <2>1, <2>7, TailAgrees DEF Refuses
  <2>9. QED
    BY <1>a, <2>6, <2>8 DEF CoreInv
<1>6. CASE Charges
  <2>1. PICK e \in Event : e = Head(queue)
    BY <1>a, <1>6, HeadType DEF Charges
  <2>2. /\ e.key \in Reservations /\ e.key[1] \in Requests /\ e.key[2] \in {1, 2}
        /\ e.key = <<e.key[1], e.key[2]>>
    BY <1>d, KeyFacts
  <2>3. EventAgrees(e) /\ e.type = "settle"
    <3>1. Head(queue) = queue[1] /\ 1 \in 1 .. Len(queue)
      BY <1>a, <1>6 DEF TypeOK, Charges
    <3>2. QED
      BY <1>c, <1>6, <2>1, <3>1 DEF Charges
  <2>4. hold[e.key].status = "releasing"
    BY <2>3 DEF EventAgrees
  <2>5. /\ hold'[e.key].status = "settled"
        /\ \A j \in Reservations \ {e.key} : hold'[j] = hold[j]
        /\ UNCHANGED req
    BY <1>6, <1>a, <2>1, <2>2 DEF Charges, TypeOK
  <2>6. ASSUME NEW x \in Requests PROVE RequestAgrees(x)'
    <3>1. hold[<<x, 1>>].status = "releasing" \/ hold'[<<x, 1>>] = hold[<<x, 1>>]
      BY <1>b, <2>4, <2>5
    <3>2. hold[<<x, 2>>].status = "releasing" \/ hold'[<<x, 2>>] = hold[<<x, 2>>]
      BY <1>b, <2>4, <2>5
    <3>3. RequestAgrees(x) /\ req'[x] = req[x] /\ req[x].attempt \in {1, 2}
      BY <1>a, <1>b, <2>5
    <3>4. QED
      BY <3>1, <3>2, <3>3 DEF RequestAgrees
  <2>7. ASSUME NEW x \in Event, NEW i \in 1 .. Len(queue), x = queue[i], x.key # e.key
        PROVE  EventAgrees(x)'
    BY <1>c, <1>d, <2>5, <2>7 DEF EventAgrees
  <2>8. QueueAgrees'
    BY <1>6, <1>a, <2>1, <2>7, TailAgrees DEF Charges
  <2>9. QED
    BY <1>a, <2>6, <2>8 DEF CoreInv
<1>7. CASE Drops
  <2>1. ASSUME NEW x \in Requests PROVE RequestAgrees(x)'
    BY <1>7, <1>a DEF Drops, RequestAgrees
  <2>2. ASSUME NEW x \in Event, NEW i \in 1 .. Len(queue), x = queue[i]
        PROVE  EventAgrees(x)'
    BY <1>7, <1>c, <2>2 DEF Drops, EventAgrees
  <2>3. QueueAgrees'
    BY <1>7, <1>a, <2>2, TailAgrees DEF Drops
  <2>4. QED
    BY <1>a, <2>1, <2>3 DEF CoreInv
<1>8. CASE Crash
  <2>1. ASSUME NEW x \in Requests PROVE RequestAgrees(x)'
    <3>1. req'[x] = req[x] \/ req'[x].pc = "done"
      BY <1>8 DEF Crash, Finished, NoRequest
    <3>2. QED
      BY <1>8, <1>a, <3>1 DEF Crash, RequestAgrees
  <2>2. QueueAgrees'
    BY <1>8 DEF Crash, QueueAgrees
  <2>3. QED
    BY <1>a, <2>1, <2>2 DEF CoreInv
<1>9. CASE Still
  <2>1. ASSUME NEW x \in Requests PROVE RequestAgrees(x)'
    BY <1>9, <1>a DEF Still, RequestAgrees
  <2>2. QueueAgrees'
    BY <1>9, <1>a DEF Still, QueueAgrees, EventAgrees
  <2>3. QED
    BY <1>a, <2>1, <2>2 DEF CoreInv
<1>10. QED
  BY <1>1, <1>2, <1>3, <1>4, <1>5, <1>6, <1>7, <1>8, <1>9, <1>a, Moves

LEMMA CoreInit == Init => CoreInv
  BY TypeInit DEF Init, CoreInv, QueueAgrees, RequestAgrees, NoRequest, NoHold, Reservations

LEMMA CoreCorrect == Spec => []CoreInv
  BY CoreInit, CoreStep, PTL DEF Spec

-----------------------------------------------------------------------------
(* The columns of the balance add up to the locks.                         *)

AmountOf == [k \in Reservations |-> hold[k].input + hold[k].output]
TakenOf(u) == {k \in Reservations : OwnerOf(k) = u /\ hold[k].status # "none"}

LedgerSums(u) ==
  /\ IsSum(fiat[u].unsettled_input, InputOf, OutstandingOf(u))
  /\ IsSum(fiat[u].unsettled_completions, OutputOf, OutstandingOf(u))
  /\ IsSum(fiat[u].debited_input, InputOf, SettledOf(u))
  /\ IsSum(fiat[u].debited_completions, OutputOf, SettledOf(u))
  /\ IsSum(TotalAmount(fiat[u]), AmountOf, TakenOf(u))

LedgerInv == CoreInv /\ \A u \in Users : LedgerSums(u)

(* A user whose row and locks a step leaves alone, but for the mark that a *)
(* lock is being released.                                                 *)
LEMMA SameLedger ==
  ASSUME NEW u \in Users, LedgerSums(u),
         /\ fiat'[u].unsettled_input = fiat[u].unsettled_input
         /\ fiat'[u].unsettled_completions = fiat[u].unsettled_completions
         /\ fiat'[u].debited_input = fiat[u].debited_input
         /\ fiat'[u].debited_completions = fiat[u].debited_completions,
         \A k \in Reservations :
            OwnerOf(k) = u => /\ hold'[k].input = hold[k].input
                              /\ hold'[k].output = hold[k].output
                              /\ Outstanding(hold'[k]) <=> Outstanding(hold[k])
                              /\ hold'[k].status = "settled" <=> hold[k].status = "settled"
                              /\ hold'[k].status = "none" <=> hold[k].status = "none"
  PROVE  LedgerSums(u)'
<1>1. /\ OutstandingOf(u)' = OutstandingOf(u)
      /\ SettledOf(u)' = SettledOf(u)
      /\ TakenOf(u)' = TakenOf(u)
  BY DEF OutstandingOf, SettledOf, TakenOf
<1>2. TotalAmount(fiat[u])' = TotalAmount(fiat[u])
  BY DEF TotalAmount
<1>3. \A k \in OutstandingOf(u) : InputOf'[k] = InputOf[k] /\ OutputOf'[k] = OutputOf[k]
  BY DEF OutstandingOf, InputOf, OutputOf
<1>4. \A k \in SettledOf(u) : InputOf'[k] = InputOf[k] /\ OutputOf'[k] = OutputOf[k]
  BY DEF SettledOf, InputOf, OutputOf
<1>5. \A k \in TakenOf(u) : AmountOf'[k] = AmountOf[k]
  BY DEF TakenOf, AmountOf
<1>6. IsSum(fiat[u].unsettled_input, InputOf', OutstandingOf(u))
  BY <1>3, SumSame DEF LedgerSums
<1>7. IsSum(fiat[u].unsettled_completions, OutputOf', OutstandingOf(u))
  BY <1>3, SumSame DEF LedgerSums
<1>8. IsSum(fiat[u].debited_input, InputOf', SettledOf(u))
  BY <1>4, SumSame DEF LedgerSums
<1>9. IsSum(fiat[u].debited_completions, OutputOf', SettledOf(u))
  BY <1>4, SumSame DEF LedgerSums
<1>10. IsSum(TotalAmount(fiat[u]), AmountOf', TakenOf(u))
  BY <1>5, SumSame DEF LedgerSums
<1>11. /\ IsSum(fiat'[u].unsettled_input, InputOf', OutstandingOf(u)')
       /\ IsSum(fiat'[u].unsettled_completions, OutputOf', OutstandingOf(u)')
       /\ IsSum(fiat'[u].debited_input, InputOf', SettledOf(u)')
       /\ IsSum(fiat'[u].debited_completions, OutputOf', SettledOf(u)')
       /\ IsSum(TotalAmount(fiat[u])', AmountOf', TakenOf(u)')
  BY <1>1, <1>2, <1>6, <1>7, <1>8, <1>9, <1>10, Zenon
<1>12. QED
  BY <1>11, Zenon DEF LedgerSums, IsSum, SumOver, Units

(* The lock at the head of the channel is granted. *)
LEMMA GrantedLedger ==
  ASSUME TypeOK, NEW e \in Event, Granted(e), hold[e.key].status = "none",
         LedgerSums(OwnerOf(e.key))
  PROVE  LedgerSums(OwnerOf(e.key))'
<1> DEFINE u == OwnerOf(e.key)
           k == e.key
<1>1. k \in Reservations /\ u \in Users
  BY OwnerAssumption DEF Event, Reservations, OwnerOf
<1>2. /\ hold'[k] = [status |-> "held", input |-> e.est_input, output |-> e.est_output]
      /\ \A j \in Reservations \ {k} : hold'[j] = hold[j]
  BY <1>1 DEF Granted, TypeOK
<1>3. /\ fiat[u] \in Row
      /\ fiat'[u] = LockRow(fiat[u], e)
  BY <1>1 DEF Granted, TypeOK
<1>4. /\ fiat'[u].unsettled_input = fiat[u].unsettled_input + e.est_input
      /\ fiat'[u].unsettled_completions = fiat[u].unsettled_completions + e.est_output
      /\ fiat'[u].debited_input = fiat[u].debited_input
      /\ fiat'[u].debited_completions = fiat[u].debited_completions
  BY <1>3 DEF LockRow, Row
<1>5. TotalAmount(fiat'[u]) = TotalAmount(fiat[u]) + (e.est_input + e.est_output)
  BY <1>3, <1>4 DEF TotalAmount, Row, Event
<1>6. /\ OutstandingOf(u)' = OutstandingOf(u) \cup {k} /\ k \notin OutstandingOf(u)
      /\ SettledOf(u)' = SettledOf(u) /\ k \notin SettledOf(u)
      /\ TakenOf(u)' = TakenOf(u) \cup {k} /\ k \notin TakenOf(u)
  <2>1. Outstanding(hold'[k]) /\ ~Outstanding(hold[k])
    BY <1>2 DEF Outstanding
  <2>2. hold'[k].status = "held"
    BY <1>2
  <2>3. OutstandingOf(u)' = OutstandingOf(u) \cup {k} /\ k \notin OutstandingOf(u)
    BY <1>1, <1>2, <2>1 DEF OutstandingOf
  <2>4. SettledOf(u)' = SettledOf(u) /\ k \notin SettledOf(u)
    BY <1>1, <1>2, <2>2 DEF SettledOf
  <2>5. TakenOf(u)' = TakenOf(u) \cup {k} /\ k \notin TakenOf(u)
    BY <1>1, <1>2, <2>2 DEF TakenOf
  <2>6. QED
    BY <2>3, <2>4, <2>5
<1>7. /\ InputOf'[k] = e.est_input /\ OutputOf'[k] = e.est_output
      /\ AmountOf'[k] = e.est_input + e.est_output
      /\ e.est_input \in Nat /\ e.est_output \in Nat /\ e.est_input + e.est_output \in Nat
  BY <1>1, <1>2 DEF InputOf, OutputOf, AmountOf, Event
<1>8. \A j \in Reservations \ {k} : /\ InputOf'[j] = InputOf[j] /\ OutputOf'[j] = OutputOf[j]
                                    /\ AmountOf'[j] = AmountOf[j]
  BY <1>2 DEF InputOf, OutputOf, AmountOf
<1>9. /\ OutstandingOf(u) \subseteq Reservations \ {k}
      /\ SettledOf(u) \subseteq Reservations \ {k}
      /\ TakenOf(u) \subseteq Reservations \ {k}
  BY <1>6 DEF OutstandingOf, SettledOf, TakenOf
<1>s. /\ IsSum(fiat[u].unsettled_input, InputOf, OutstandingOf(u))
      /\ IsSum(fiat[u].unsettled_completions, OutputOf, OutstandingOf(u))
      /\ IsSum(fiat[u].debited_input, InputOf, SettledOf(u))
      /\ IsSum(fiat[u].debited_completions, OutputOf, SettledOf(u))
      /\ IsSum(TotalAmount(fiat[u]), AmountOf, TakenOf(u))
  BY DEF LedgerSums
<1>n. InputOf'[k] \in Nat /\ OutputOf'[k] \in Nat /\ AmountOf'[k] \in Nat
  BY <1>7
<1>o. \A j \in OutstandingOf(u) : InputOf'[j] = InputOf[j] /\ OutputOf'[j] = OutputOf[j]
  BY <1>8, <1>9
<1>p. \A j \in SettledOf(u) : InputOf'[j] = InputOf[j] /\ OutputOf'[j] = OutputOf[j]
  BY <1>8, <1>9
<1>q. \A j \in TakenOf(u) : AmountOf'[j] = AmountOf[j]
  BY <1>8, <1>9
<1> HIDE DEF u, k
<1>10. IsSum(fiat[u].unsettled_input + InputOf'[k], InputOf', OutstandingOf(u) \cup {k})
  BY <1>6, <1>s, <1>n, <1>o, SumJoin, Zenon
<1>11. IsSum(fiat[u].unsettled_completions + OutputOf'[k], OutputOf', OutstandingOf(u) \cup {k})
  BY <1>6, <1>s, <1>n, <1>o, SumJoin, Zenon
<1>12. IsSum(fiat[u].debited_input, InputOf', SettledOf(u))
  BY <1>s, <1>p, SumSame, Zenon
<1>13. IsSum(fiat[u].debited_completions, OutputOf', SettledOf(u))
  BY <1>s, <1>p, SumSame, Zenon
<1>14. IsSum(TotalAmount(fiat[u]) + AmountOf'[k], AmountOf', TakenOf(u) \cup {k})
  BY <1>6, <1>s, <1>n, <1>q, SumJoin, Zenon
<1>15. /\ IsSum(fiat'[u].unsettled_input, InputOf', OutstandingOf(u)')
       /\ IsSum(fiat'[u].unsettled_completions, OutputOf', OutstandingOf(u)')
       /\ IsSum(fiat'[u].debited_input, InputOf', SettledOf(u)')
       /\ IsSum(fiat'[u].debited_completions, OutputOf', SettledOf(u)')
       /\ IsSum(TotalAmount(fiat'[u]), AmountOf', TakenOf(u)')
  BY <1>4, <1>5, <1>6, <1>7, <1>10, <1>11, <1>12, <1>13, <1>14, Zenon
<1>16. QED
  BY <1>15, Zenon DEF LedgerSums, IsSum, SumOver, Units, TotalAmount, u, k

(* The settlement at the head of the channel is charged. *)
LEMMA ChargedLedger ==
  ASSUME TypeOK, NEW e \in Event, update_real_amount_fiat_balance(e),
         hold[e.key] = [status |-> "releasing", input |-> e.est_input, output |-> e.est_output],
         LedgerSums(OwnerOf(e.key))
  PROVE  LedgerSums(OwnerOf(e.key))'
<1> DEFINE u == OwnerOf(e.key)
           k == e.key
<1>1. k \in Reservations /\ u \in Users
  BY OwnerAssumption DEF Event, Reservations, OwnerOf
<1>2. /\ hold'[k] = [status |-> "settled", input |-> e.input, output |-> e.output]
      /\ \A j \in Reservations \ {k} : hold'[j] = hold[j]
  BY <1>1 DEF update_real_amount_fiat_balance, TypeOK
<1>3. fiat[u] \in Row /\ fiat'[u] = SettleRow(fiat[u], e)
  BY <1>1 DEF update_real_amount_fiat_balance, TypeOK
<1>4. /\ fiat'[u].unsettled_input = fiat[u].unsettled_input - e.est_input
      /\ fiat'[u].unsettled_completions = fiat[u].unsettled_completions - e.est_output
      /\ fiat'[u].debited_input = fiat[u].debited_input + e.input
      /\ fiat'[u].debited_completions = fiat[u].debited_completions + e.output
  BY <1>3 DEF SettleRow, Row
<1>5. TotalAmount(fiat'[u])
        = (TotalAmount(fiat[u]) - (e.est_input + e.est_output)) + (e.input + e.output)
  BY <1>3, <1>4 DEF TotalAmount, Row, Event
<1>6. /\ k \in OutstandingOf(u) /\ OutstandingOf(u)' = OutstandingOf(u) \ {k}
      /\ k \notin SettledOf(u) /\ SettledOf(u)' = SettledOf(u) \cup {k}
      /\ k \in TakenOf(u) /\ TakenOf(u)' = (TakenOf(u) \ {k}) \cup {k}
  <2>1. Outstanding(hold[k]) /\ ~Outstanding(hold'[k])
    BY <1>2 DEF Outstanding
  <2>2. hold'[k].status = "settled" /\ hold[k].status = "releasing"
    BY <1>2
  <2>3. k \in OutstandingOf(u) /\ OutstandingOf(u)' = OutstandingOf(u) \ {k}
    BY <1>1, <1>2, <2>1 DEF OutstandingOf
  <2>4. k \notin SettledOf(u) /\ SettledOf(u)' = SettledOf(u) \cup {k}
    BY <1>1, <1>2, <2>2 DEF SettledOf
  <2>5. k \in TakenOf(u) /\ TakenOf(u)' = (TakenOf(u) \ {k}) \cup {k}
    BY <1>1, <1>2, <2>2 DEF TakenOf
  <2>6. QED
    BY <2>3, <2>4, <2>5
<1>7. /\ InputOf'[k] = e.input /\ OutputOf'[k] = e.output
      /\ AmountOf'[k] = e.input + e.output
      /\ InputOf[k] = e.est_input /\ OutputOf[k] = e.est_output
      /\ AmountOf[k] = e.est_input + e.est_output
  BY <1>1, <1>2 DEF InputOf, OutputOf, AmountOf
<1>8. \A j \in Reservations \ {k} : /\ InputOf'[j] = InputOf[j] /\ OutputOf'[j] = OutputOf[j]
                                    /\ AmountOf'[j] = AmountOf[j]
  BY <1>2 DEF InputOf, OutputOf, AmountOf
<1>9. /\ OutstandingOf(u) \subseteq Reservations
      /\ SettledOf(u) \subseteq Reservations \ {k}
      /\ TakenOf(u) \subseteq Reservations
  BY <1>6 DEF OutstandingOf, SettledOf, TakenOf
<1>s. /\ IsSum(fiat[u].unsettled_input, InputOf, OutstandingOf(u))
      /\ IsSum(fiat[u].unsettled_completions, OutputOf, OutstandingOf(u))
      /\ IsSum(fiat[u].debited_input, InputOf, SettledOf(u))
      /\ IsSum(fiat[u].debited_completions, OutputOf, SettledOf(u))
      /\ IsSum(TotalAmount(fiat[u]), AmountOf, TakenOf(u))
  BY DEF LedgerSums
<1>n. /\ InputOf'[k] \in Nat /\ OutputOf'[k] \in Nat /\ AmountOf'[k] \in Nat
      /\ InputOf[k] \in Nat /\ OutputOf[k] \in Nat /\ AmountOf[k] \in Nat
  BY <1>7 DEF Event
<1>o. \A j \in OutstandingOf(u) \ {k} : InputOf'[j] = InputOf[j] /\ OutputOf'[j] = OutputOf[j]
  BY <1>8, <1>9
<1>p. \A j \in SettledOf(u) : InputOf'[j] = InputOf[j] /\ OutputOf'[j] = OutputOf[j]
  BY <1>8, <1>9
<1>q. \A j \in TakenOf(u) \ {k} : AmountOf'[j] = AmountOf[j]
  BY <1>8, <1>9
<1>r. k \notin TakenOf(u) \ {k}
  OBVIOUS
<1> HIDE DEF u, k
<1>10. IsSum(fiat[u].unsettled_input - InputOf[k], InputOf', OutstandingOf(u) \ {k})
  BY <1>6, <1>s, <1>n, <1>o, SumLeave, Zenon
<1>11. IsSum(fiat[u].unsettled_completions - OutputOf[k], OutputOf', OutstandingOf(u) \ {k})
  BY <1>6, <1>s, <1>n, <1>o, SumLeave, Zenon
<1>12. IsSum(fiat[u].debited_input + InputOf'[k], InputOf', SettledOf(u) \cup {k})
  <2>1. IsSum(fiat[u].debited_input, InputOf, SettledOf(u))
    BY <1>s
  <2>2. k \notin SettledOf(u) /\ InputOf'[k] \in Nat
    BY <1>6, <1>n
  <2>3. \A j \in SettledOf(u) : InputOf'[j] = InputOf[j]
    BY <1>p
  <2>4. QED
    BY <2>1, <2>2, <2>3, SumJoin, Zenon
<1>13. IsSum(fiat[u].debited_completions + OutputOf'[k], OutputOf', SettledOf(u) \cup {k})
  <2>1. IsSum(fiat[u].debited_completions, OutputOf, SettledOf(u))
    BY <1>s
  <2>2. k \notin SettledOf(u) /\ OutputOf'[k] \in Nat
    BY <1>6, <1>n
  <2>3. \A j \in SettledOf(u) : OutputOf'[j] = OutputOf[j]
    BY <1>p
  <2>4. QED
    BY <2>1, <2>2, <2>3, SumJoin, Zenon
<1>14. IsSum((TotalAmount(fiat[u]) - AmountOf[k]) + AmountOf'[k], AmountOf',
             (TakenOf(u) \ {k}) \cup {k})
  <2>1. IsSum(TotalAmount(fiat[u]) - AmountOf[k], AmountOf', TakenOf(u) \ {k})
    BY <1>6, <1>s, <1>n, <1>q, SumLeave, Zenon
  <2>2. QED
    BY <1>n, <1>r, <2>1, SumAdd, Zenon
<1>15. /\ IsSum(fiat'[u].unsettled_input, InputOf', OutstandingOf(u)')
       /\ IsSum(fiat'[u].unsettled_completions, OutputOf', OutstandingOf(u)')
       /\ IsSum(fiat'[u].debited_input, InputOf', SettledOf(u)')
       /\ IsSum(fiat'[u].debited_completions, OutputOf', SettledOf(u)')
       /\ IsSum(TotalAmount(fiat'[u]), AmountOf', TakenOf(u)')
  BY <1>4, <1>5, <1>6, <1>7, <1>10, <1>11, <1>12, <1>13, <1>14, Zenon
<1>16. QED
  BY <1>15, Zenon DEF LedgerSums, IsSum, SumOver, Units, TotalAmount, u, k

(* The event at the head of the channel, seen with the locks it names. *)
LEMMA HeadAgrees ==
  ASSUME CoreInv, queue # <<>>
  PROVE  /\ Head(queue) \in Event
         /\ Head(queue).type = "lock" => hold[Head(queue).key].status = "none"
         /\ Head(queue).type = "settle" =>
              hold[Head(queue).key] = [status |-> "releasing",
                                       input |-> Head(queue).est_input,
                                       output |-> Head(queue).est_output]
<1>1. Head(queue) = queue[1] /\ 1 \in 1 .. Len(queue)
  BY DEF CoreInv, TypeOK
<1>2. PICK e \in Event : e = Head(queue)
  BY HeadType DEF CoreInv
<1>3. EventAgrees(e) /\ e.key[1] \in Requests /\ e.key = <<e.key[1], e.key[2]>>
  BY <1>1, <1>2, KeyFacts DEF CoreInv, QueueAgrees, Event
<1>4. e.type = "lock" => hold[e.key].status = "none"
  <2>1. RequestAgrees(e.key[1])
    BY <1>3 DEF CoreInv
  <2>2. QED
    BY <1>3, <2>1 DEF EventAgrees, RequestAgrees
<1>5. QED
  BY <1>2, <1>3, <1>4 DEF EventAgrees

(* What a step does to a lock of a request that has ended: no new event    *)
(* names it, and it changes only as a settlement that is in the channel    *)
(* says.                                                                   *)
LEMMA EndedStays ==
  ASSUME CoreInv, [Next]_vars, NEW k \in Reservations, req[k[1]].pc = "done"
  PROVE  /\ req'[k[1]].pc = "done"
         /\ \A i \in 1 .. Len(queue') :
              queue'[i].key = k => \E j \in 1 .. Len(queue) : queue[j] = queue'[i]
         /\ \/ hold'[k] = hold[k]
            \/ \E j \in 1 .. Len(queue) :
                 /\ queue[j].key = k
                 /\ hold'[k] = [status |-> "settled", input |-> queue[j].input,
                                output |-> queue[j].output]
<1> DEFINE r == k[1]
<1>a. /\ TypeOK /\ TypeOK' /\ queue \in Seq(Event) /\ r \in Requests
      /\ req \in [Requests -> Request] /\ hold \in [Reservations -> Hold]
  BY TypeStep, KeyFacts DEF CoreInv, TypeOK
<1>b. Finished.pc = "done"
  BY DEF Finished, NoRequest
<1>c. \A s \in Requests : \A q : (s # r /\ req' = [req EXCEPT ![s] = q]) => req'[r].pc = "done"
  BY <1>a
<1>d. \A s \in Requests : Finish(s) => req'[r].pc = "done"
  BY <1>a, <1>b DEF Finish
<1>e. \A s \in Requests, pc \in PCs : s # r /\ Goto(s, pc) => req'[r].pc = "done"
  BY <1>a DEF Goto
<1>f. ASSUME queue # <<>>, queue' = Tail(queue)
      PROVE  \A i \in 1 .. Len(queue') : \E j \in 1 .. Len(queue) : queue[j] = queue'[i]
  BY <1>a, <1>f, TailFacts
<1>g. ASSUME NEW e \in Event, queue' = Append(queue, e), e.key # k
      PROVE  \A i \in 1 .. Len(queue') :
               queue'[i].key = k => \E j \in 1 .. Len(queue) : queue[j] = queue'[i]
  <2>1. /\ Len(queue') = Len(queue) + 1 /\ Len(queue) \in Nat
        /\ \A i \in 1 .. Len(queue) : queue'[i] = queue[i]
        /\ queue'[Len(queue) + 1] = e
    BY <1>a, <1>g, AppendFacts
  <2>2. QED
    BY <2>1, <1>g
<1>h. ASSUME queue # <<>>, Head(queue).type = "lock"
      PROVE  Head(queue).key[1] # r /\ Head(queue).key[1] \in Requests
  <2>1. PICK e \in Event : e = Head(queue)
    BY <1>a, <1>h, HeadType
  <2>2. Head(queue) = queue[1] /\ 1 \in 1 .. Len(queue)
    BY <1>a, <1>h
  <2>3. EventAgrees(e) /\ e.key \in Reservations
    BY <2>1, <2>2 DEF CoreInv, QueueAgrees, Event
  <2>4. QED
    BY <1>h, <2>1, <2>3, KeyFacts DEF EventAgrees
<1>1. CASE AsksLock
  <2>1. PICK s \in Requests, q \in Request :
          /\ SendLock(s, q) /\ UNCHANGED hold
          /\ req[s].pc \in {"idle", "locked_answer"}
    BY <1>1 DEF AsksLock
  <2>2. s # r /\ LockEvent(s, q) \in Event /\ LockEvent(s, q).key # k
    BY <2>1, EventTypes, KeyFacts DEF LockEvent
  <2>3. QED
    BY <1>a, <1>c, <1>g, <2>1, <2>2 DEF SendLock
<1>2. CASE Walks
  <2>1. PICK s \in Requests :
          /\ UNCHANGED <<queue, hold>>
          /\ Finish(s) \/ (req[s].pc \in PastLock /\ \E pc \in PastLock : Goto(s, pc))
    BY <1>2 DEF Walks
  <2>2. req'[r].pc = "done"
    BY <2>1, <1>d, <1>e DEF PastLock, PCs
  <2>3. QED
    BY <2>1, <2>2
<1>3. CASE Settles
  <2>1. PICK s \in Requests, i \in Nat, o \in Nat :
          /\ req[s].pc \in PastLock /\ update_state_manager_fiat(s, i, o)
          /\ Finish(s) \/ Goto(s, "locked_answer") \/ Goto(s, "too_early_answer")
    BY <1>3 DEF Settles
  <2> DEFINE e == SettleEvent(s, req[s], i, o)
  <2>2. s # r /\ e \in Event /\ e.key = <<s, req[s].attempt>> /\ e.key # k
    BY <1>a, <2>1, EventTypes, KeyFacts DEF SettleEvent, PastLock
  <2>3. queue' = Append(queue, e) /\ hold'[k] = hold[k]
    BY <1>a, <2>1, <2>2 DEF update_state_manager_fiat
  <2>4. req'[r].pc = "done"
    BY <2>1, <2>2, <1>d, <1>e DEF PCs
  <2> HIDE DEF e
  <2>5. QED
    BY <1>g, <2>2, <2>3, <2>4
<1>4. CASE Grants
  <2>1. Head(queue).key[1] # r /\ Head(queue).key[1] \in Requests /\ Head(queue).key # k
    BY <1>4, <1>h DEF Grants
  <2>2. req'[r].pc = "done"
    BY <1>4, <1>e, <2>1 DEF Grants, PCs
  <2>3. hold'[k] = hold[k]
    BY <1>4, <1>a, <2>1 DEF Grants
  <2>4. QED
    BY <1>4, <1>f, <2>2, <2>3 DEF Grants
<1>5. CASE Refuses
  BY <1>5, <1>d, <1>f, <1>h DEF Refuses
<1>6. CASE Charges
  <2>1. /\ queue # <<>> /\ queue' = Tail(queue) /\ req'[r].pc = "done"
        /\ Head(queue) = queue[1] /\ 1 \in 1 .. Len(queue)
    BY <1>6, <1>a DEF Charges
  <2>2. \/ hold'[k] = hold[k]
        \/ /\ queue[1].key = k
           /\ hold'[k] = [status |-> "settled", input |-> queue[1].input,
                          output |-> queue[1].output]
    BY <1>6, <1>a, <2>1 DEF Charges
  <2>3. QED
    BY <1>f, <2>1, <2>2
<1>7. CASE Drops
  BY <1>7, <1>f DEF Drops
<1>8. CASE Crash
  <2>1. queue' = <<>> /\ hold' = hold /\ req'[r].pc = "done"
    BY <1>8, <1>a, <1>b DEF Crash
  <2>2. QED
    BY <2>1
<1>9. CASE Still
  BY <1>9 DEF Still
<1>10. QED
  BY <1>a, <1>1, <1>2, <1>3, <1>4, <1>5, <1>6, <1>7, <1>8, <1>9, Moves

LEMMA LedgerStep == LedgerInv /\ [Next]_vars => LedgerInv'
<1> SUFFICES ASSUME LedgerInv, [Next]_vars PROVE LedgerInv'
  OBVIOUS
<1>1. CoreInv /\ CoreInv' /\ TypeOK /\ TypeOK'
  BY CoreStep DEF LedgerInv, CoreInv
<1>2. ASSUME NEW u \in Users PROVE LedgerSums(u)'
  <2>1. LedgerSums(u)
    BY DEF LedgerInv
  <2>2. CASE Quiet
    <3>1. UNCHANGED fiat
      BY <2>2 DEF Quiet
    <3>2. CASE UNCHANGED hold
      BY <2>1, <3>1, <3>2, SameLedger
    <3>3. ASSUME NEW r \in Requests, req[r].pc \in PastLock,
                 hold' = [hold EXCEPT ![<<r, req[r].attempt>>].status = "releasing"]
          PROVE  LedgerSums(u)'
      <4>1. PICK k \in Reservations : k = <<r, req[r].attempt>>
        BY <1>1 DEF TypeOK, Request, Reservations
      <4>2. hold[k].status = "held" /\ hold[k] \in Hold
        <5>1. RequestAgrees(r) /\ hold[k] \in Hold
          BY <1>1 DEF CoreInv, TypeOK
        <5>2. hold[<<r, req[r].attempt>>].status = "held"
          BY <3>3, <5>1 DEF RequestAgrees, PastLock
        <5>3. QED
          BY <4>1, <5>1, <5>2
      <4>3. /\ hold'[k] = [hold[k] EXCEPT !.status = "releasing"]
            /\ \A j \in Reservations \ {k} : hold'[j] = hold[j]
        BY <1>1, <3>3, <4>1 DEF TypeOK
      <4>4. /\ hold'[k].status = "releasing"
            /\ hold'[k].input = hold[k].input /\ hold'[k].output = hold[k].output
        BY <4>2, <4>3 DEF Hold
      <4>5. \A j \in Reservations :
               /\ hold'[j].input = hold[j].input
               /\ hold'[j].output = hold[j].output
               /\ Outstanding(hold'[j]) <=> Outstanding(hold[j])
               /\ hold'[j].status = "settled" <=> hold[j].status = "settled"
               /\ hold'[j].status = "none" <=> hold[j].status = "none"
        BY <4>2, <4>3, <4>4 DEF Outstanding
      <4>6. QED
        BY <2>1, <3>1, <4>5, SameLedger
    <3>4. QED
      BY <2>2, <3>2, <3>3 DEF Quiet
  <2>3. CASE queue # <<>> /\ (Granted(Head(queue)) \/ Charged(Head(queue)))
    <3>1. PICK e \in Event : e = Head(queue)
      BY <1>1, <2>3, HeadAgrees
    <3>2. CASE OwnerOf(e.key) = u /\ Granted(Head(queue))
      <4>1. Granted(e) /\ hold[e.key].status = "none"
        BY <1>1, <2>3, <3>1, <3>2, HeadAgrees DEF Granted
      <4>2. LedgerSums(OwnerOf(e.key))'
        BY <1>1, <2>1, <3>2, <4>1, GrantedLedger
      <4>3. QED
        BY <3>2, <4>2
    <3>3. CASE OwnerOf(e.key) = u /\ Charged(Head(queue))
      <4>1. /\ update_real_amount_fiat_balance(e)
            /\ hold[e.key] = [status |-> "releasing", input |-> e.est_input,
                              output |-> e.est_output]
        BY <1>1, <2>3, <3>1, <3>3, HeadAgrees DEF Charged
      <4>2. LedgerSums(OwnerOf(e.key))'
        BY <1>1, <2>1, <3>3, <4>1, ChargedLedger
      <4>3. QED
        BY <3>3, <4>2
    <3>4. CASE OwnerOf(e.key) # u
      <4>1. \A j \in Reservations : OwnerOf(j) = u => hold'[j] = hold[j]
        BY <1>1, <2>3, <3>1, <3>4 DEF Granted, Charged, update_real_amount_fiat_balance, TypeOK
      <4>2. fiat'[u] = fiat[u]
        BY <1>1, <2>3, <3>1, <3>4 DEF Granted, Charged, update_real_amount_fiat_balance, TypeOK
      <4>3. QED
        BY <2>1, <4>1, <4>2, SameLedger
    <3>5. QED
      BY <2>3, <3>2, <3>3, <3>4
  <2>4. CASE PaidIn
    <3>1. PICK v \in Users : fiat' = [fiat EXCEPT ![v].usd_balance = @ + 1]
      BY <2>4 DEF PaidIn
    <3>2. /\ fiat'[u].unsettled_input = fiat[u].unsettled_input
          /\ fiat'[u].unsettled_completions = fiat[u].unsettled_completions
          /\ fiat'[u].debited_input = fiat[u].debited_input
          /\ fiat'[u].debited_completions = fiat[u].debited_completions
      BY <1>1, <3>1 DEF TypeOK, Row
    <3>3. UNCHANGED hold
      BY <2>4 DEF PaidIn
    <3>4. QED
      BY <2>1, <3>2, <3>3, SameLedger
  <2>5. QED
    BY <1>1, <2>2, <2>3, <2>4, Effects
<1>3. QED
  BY <1>1, <1>2 DEF LedgerInv

LEMMA LedgerInit == Init => LedgerInv
<1> SUFFICES ASSUME Init, NEW u \in Users PROVE LedgerSums(u)
  BY CoreInit DEF LedgerInv
<1>1. OutstandingOf(u) = {} /\ SettledOf(u) = {} /\ TakenOf(u) = {}
  BY DEF Init, NoHold, OutstandingOf, SettledOf, TakenOf, Outstanding
<1>2. /\ fiat[u].unsettled_input = 0 /\ fiat[u].unsettled_completions = 0
      /\ fiat[u].debited_input = 0 /\ fiat[u].debited_completions = 0
  BY DEF Init, NewRow
<1>3. TotalAmount(fiat[u]) = 0
  BY <1>2 DEF TotalAmount
<1>4. QED
  BY <1>1, <1>2, <1>3, SumEmpty DEF LedgerSums

LEMMA LedgerCorrect == Spec => []LedgerInv
  BY LedgerInit, LedgerStep, PTL DEF Spec

(* In every reachable state the overcharged_unsettled columns are exactly  *)
(* the sum of the estimates locked and not yet settled, and the            *)
(* already_debited columns the sum of what settlements charged.            *)
THEOREM LedgerMatches == Spec => []LedgerMatchesHolds
<1>1. LedgerInv => LedgerMatchesHolds
  BY DEF LedgerInv, LedgerSums, IsSum, LedgerMatchesHolds
<1>2. QED
  BY <1>1, LedgerCorrect, PTL

-----------------------------------------------------------------------------
(* A retry does not pay twice.                                             *)

RetryInv == CoreInv /\ RetriesAgree /\ RetryDoesNotPayTwice

(* Database errors are only ever added up. *)
LEMMA ErrorsGrow ==
  ASSUME TypeOK, [Next]_vars
  PROVE  env.db_errors > 0 => env'.db_errors > 0
<1>1. CASE DatabaseError
  BY <1>1 DEF DatabaseError, TypeOK
<1>2. CASE Crash
  BY <1>2 DEF Crash, TypeOK
<1>3. ASSUME NEW u \in Users, TopUp(u) PROVE env'.db_errors = env.db_errors
  BY <1>3 DEF TopUp, TypeOK
<1>4. ASSUME NEW r \in Requests, \/ authenticate_and_lock_compute_units(r) \/ RejectRequest(r)
                                 \/ ExtractorRejects(r) \/ HandlerPanics(r)
                                 \/ ProxyStep(r) \/ NodeStep(r)
      PROVE  UNCHANGED env
  BY <1>4 DEF authenticate_and_lock_compute_units, RejectRequest, ProxyStep, NodeStep,
              create_fiat_request, ExtractorRejects, HandlerPanics, HandleLocked,
              HandleTooEarly, HandlerFails, HandlerSucceeds, handle_streaming_response, handle_final_chunk,
              DropStreamer
<1>5. CASE StateManagerStep \/ UNCHANGED vars
  BY <1>5 DEF StateManagerStep, lock_user_fiat_balance, UpdateStackNumTokensFiat, vars
<1>6. QED
  BY <1>1, <1>2, <1>3, <1>4, <1>5 DEF Next

(* The rollback of the first attempt stays where it is ... *)
LEMMA KeepsFirst ==
  ASSUME NEW r, NEW n, FirstSettledWithin(r, n),
         env.db_errors > 0 => env'.db_errors > 0,
         hold'[<<r, 1>>].status \in {hold[<<r, 1>>].status, "settled"},
         \A j \in 1 .. n : queue'[j] = queue[j]
  PROVE  FirstSettledWithin(r, n)'
  BY DEF FirstSettledWithin

(* ... or moves up when another event is handled. *)
LEMMA ShiftsFirst ==
  ASSUME NEW r, NEW n \in Nat, FirstSettledWithin(r, n), n <= Len(queue),
         queue \in Seq(Event), queue # <<>>, queue' = Tail(queue),
         env.db_errors > 0 => env'.db_errors > 0,
         hold'[<<r, 1>>].status \in {hold[<<r, 1>>].status, "settled"},
         \/ Head(queue).key # <<r, 1>>
         \/ hold'[<<r, 1>>].status = "settled"
         \/ env'.db_errors > 0
         \/ hold[<<r, 1>>].status = "none"
  PROVE  FirstSettledWithin(r, n - 1)'
<1>1. /\ Len(queue) \in Nat \ {0} /\ Head(queue) = queue[1]
      /\ \A i \in 1 .. Len(queue) - 1 : queue'[i] = queue[i + 1]
  BY TailFacts
<1>2. CASE hold'[<<r, 1>>].status = "settled" \/ env'.db_errors > 0
  BY <1>2 DEF FirstSettledWithin
<1>3. CASE hold'[<<r, 1>>].status # "settled" /\ ~(env'.db_errors > 0)
  <2>1. PICK j \in 1 .. n : queue[j].key = <<r, 1>>
    BY <1>3 DEF FirstSettledWithin
  <2>2. hold[<<r, 1>>].status = "releasing" /\ hold'[<<r, 1>>].status = "releasing"
    BY <1>3 DEF FirstSettledWithin
  <2>3. j # 1
    BY <1>1, <1>3, <2>1, <2>2
  <2>4. j - 1 \in 1 .. n - 1 /\ j - 1 \in 1 .. Len(queue) - 1 /\ (j - 1) + 1 = j
    BY <1>1, <2>3
  <2>5. queue'[j - 1].key = <<r, 1>>
    BY <1>1, <2>1, <2>4
  <2>6. QED
    BY <2>2, <2>4, <2>5 DEF FirstSettledWithin
<1>4. QED
  BY <1>2, <1>3

(* Handling the head of the channel: what is left of it. *)
LEMMA TailRetries ==
  ASSUME CoreInv, RetriesAgree, queue # <<>>, queue' = Tail(queue),
         env.db_errors > 0 => env'.db_errors > 0,
         \A x \in Requests : req'[x].pc = "locked_answer" => req[x].pc = "locked_answer",
         \A x \in Requests :
            \/ hold'[<<x, 1>>].status = "settled"
            \/ hold[<<x, 1>>].status = "none"
            \/ /\ hold'[<<x, 1>>].status = hold[<<x, 1>>].status
               /\ Head(queue).key # <<x, 1>> \/ env'.db_errors > 0
  PROVE  RetriesAgree'
<1>1. queue \in Seq(Event)
  BY DEF CoreInv, TypeOK
<1>2. /\ Len(queue') = Len(queue) - 1 /\ Len(queue) \in Nat \ {0}
      /\ \A i \in 1 .. Len(queue') : queue'[i] = queue[i + 1] /\ i + 1 \in 1 .. Len(queue)
  BY <1>1, TailFacts
<1>3. ASSUME NEW x \in Requests, NEW n \in Nat, n <= Len(queue), FirstSettledWithin(x, n)
      PROVE  FirstSettledWithin(x, n - 1)'
  <2>1. hold[<<x, 1>>].status # "none"
    BY <1>3 DEF FirstSettledWithin
  <2>2. hold'[<<x, 1>>].status \in {hold[<<x, 1>>].status, "settled"}
    BY <2>1
  <2>3. \/ Head(queue).key # <<x, 1>>
        \/ hold'[<<x, 1>>].status = "settled"
        \/ env'.db_errors > 0
    BY <2>1
  <2>4. QED
    BY <1>1, <1>3, <2>2, <2>3, ShiftsFirst
<1>4. ASSUME NEW x \in Requests, req'[x].pc = "locked_answer"
      PROVE  FirstSettledWithin(x, Len(queue))'
  <2>1. FirstSettledWithin(x, Len(queue))
    BY <1>4 DEF RetriesAgree
  <2>2. PICK n \in Nat : n = Len(queue)
    BY <1>2
  <2>3. FirstSettledWithin(x, n - 1)'
    BY <1>3, <2>1, <2>2
  <2>4. n - 1 = Len(queue')
    BY <1>2, <2>2
  <2>5. QED
    BY <2>3, <2>4 DEF FirstSettledWithin
<1>5. ASSUME NEW x \in Requests, NEW i \in 1 .. Len(queue'),
             queue'[i].key = <<x, 2>>, queue'[i].type = "lock"
      PROVE  FirstSettledWithin(x, i - 1)'
  <2>1. FirstSettledWithin(x, (i + 1) - 1)
    BY <1>2, <1>5 DEF RetriesAgree
  <2>2. (i + 1) - 1 = i /\ i \in Nat /\ i <= Len(queue)
    BY <1>2
  <2>3. QED
    BY <1>3, <2>1, <2>2
<1>6. QED
  BY <1>4, <1>5 DEF RetriesAgree

LEMMA RetryStep == RetryInv /\ [Next]_vars => RetryInv'
<1> SUFFICES ASSUME RetryInv, [Next]_vars PROVE RetryInv'
  OBVIOUS
<1>a. CoreInv /\ CoreInv' /\ TypeOK /\ RetriesAgree /\ RetryDoesNotPayTwice
  BY CoreStep DEF RetryInv, CoreInv
<1>b. /\ queue \in Seq(Event) /\ Len(queue) \in Nat
      /\ \A r \in Requests : /\ <<r, req[r].attempt>> \in Reservations
                            /\ <<r, 1>> \in Reservations /\ <<r, 2>> \in Reservations
                            /\ req[r].attempt \in {1, 2} /\ RequestAgrees(r)
  BY <1>a DEF CoreInv, TypeOK, Request, Reservations
<1>c. env.db_errors > 0 => env'.db_errors > 0
  BY <1>a, ErrorsGrow
<1>d. \A x \in Requests : hold[<<x, 2>>].status # "none" =>
        \/ hold[<<x, 1>>].status = "settled"
        \/ hold[<<x, 1>>].status = "releasing" /\ env.db_errors > 0
  BY <1>a DEF RetryDoesNotPayTwice
<1>e. PICK n \in Nat : n = Len(queue)
  BY <1>b
<1>f. /\ \A r \in Requests : req[r].pc = "locked_answer" => FirstSettledWithin(r, n)
      /\ \A r \in Requests, i \in 1 .. n :
           queue[i].key = <<r, 2>> /\ queue[i].type = "lock" => FirstSettledWithin(r, i - 1)
  BY <1>a, <1>e DEF RetriesAgree
<1>1. CASE AsksLock
  <2>1. PICK r \in Requests, q \in Request :
          /\ SendLock(r, q)
          /\ UNCHANGED hold
          /\ q.pc = "locking"
          /\ \/ req[r].pc = "idle" /\ q.attempt = 1
             \/ req[r].pc = "locked_answer" /\ q.attempt = 2
    BY <1>1 DEF AsksLock
  <2>2. req' = [req EXCEPT ![r] = q] /\ queue' = Append(queue, LockEvent(r, q))
    BY <2>1 DEF SendLock
  <2>3. LockEvent(r, q) \in Event /\ LockEvent(r, q).key = <<r, q.attempt>>
    BY EventTypes, 0 \in Nat DEF LockEvent
  <2>4. /\ Len(queue') = n + 1
        /\ \A i \in 1 .. n : queue'[i] = queue[i]
        /\ queue'[n + 1] = LockEvent(r, q)
    BY <1>b, <1>e, <2>2, <2>3, AppendFacts
  <2>5. ASSUME NEW x \in Requests, NEW m \in Nat, m <= n, FirstSettledWithin(x, m)
        PROVE  FirstSettledWithin(x, m)'
    BY <1>c, <2>1, <2>4, <2>5, KeepsFirst
  <2>6. ASSUME NEW x \in Requests, req'[x].pc = "locked_answer"
        PROVE  FirstSettledWithin(x, Len(queue))'
    <3>1. x # r
      BY <1>a, <2>1, <2>2, <2>6 DEF TypeOK
    <3>2. req[x].pc = "locked_answer"
      BY <1>a, <2>2, <2>6, <3>1 DEF TypeOK
    <3>3. FirstSettledWithin(x, n)'
      BY <1>f, <2>5, <3>2
    <3>4. QED
      BY <2>4, <3>3 DEF FirstSettledWithin
  <2>7. ASSUME NEW x \in Requests, NEW i \in 1 .. Len(queue'),
               queue'[i].key = <<x, 2>>, queue'[i].type = "lock"
        PROVE  FirstSettledWithin(x, i - 1)'
    <3>1. CASE i \in 1 .. n
      <4>1. FirstSettledWithin(x, i - 1)
        BY <1>f, <2>4, <2>7, <3>1
      <4>2. QED
        BY <2>5, <3>1, <4>1
    <3>2. CASE i = n + 1
      <4>1. <<r, q.attempt>> = <<x, 2>>
        BY <2>3, <2>4, <2>7, <3>2
      <4>2. x = r /\ req[r].pc = "locked_answer"
        BY <2>1, <4>1
      <4>3. FirstSettledWithin(x, n)'
        BY <1>f, <2>5, <4>2
      <4>4. i - 1 = n
        BY <3>2
      <4>5. QED
        BY <4>3, <4>4
    <3>3. QED
      BY <2>4, <3>1, <3>2
  <2>8. RetryDoesNotPayTwice'
    BY <1>c, <1>d, <2>1 DEF RetryDoesNotPayTwice
  <2>9. QED
    BY <1>a, <2>6, <2>7, <2>8 DEF RetryInv, RetriesAgree
<1>2. CASE Walks
  <2>1. PICK r \in Requests :
          /\ UNCHANGED <<queue, hold>>
          /\ \/ req[r].pc # "locking" /\ Finish(r)
             \/ req[r].pc \in PastLock /\ \E pc \in PastLock : Goto(r, pc)
    BY <1>2 DEF Walks
  <2>2. \A x \in Requests : req'[x].pc = "locked_answer" => req[x].pc = "locked_answer"
    <3>1. CASE Finish(r)
      BY <1>a, <3>1 DEF TypeOK, Finish, Finished, NoRequest
    <3>2. ASSUME NEW pc \in PastLock, Goto(r, pc)
          PROVE  \A x \in Requests : req'[x].pc = "locked_answer" => req[x].pc = "locked_answer"
      BY <1>a, <3>2 DEF TypeOK, Goto, PastLock, Request
    <3>3. QED
      BY <2>1, <3>1, <3>2
  <2>3. ASSUME NEW x \in Requests, NEW m \in Nat, FirstSettledWithin(x, m)
        PROVE  FirstSettledWithin(x, m)'
    BY <1>c, <2>1, <2>3, KeepsFirst
  <2>4. RetriesAgree'
    <3>1. ASSUME NEW x \in Requests, req'[x].pc = "locked_answer"
          PROVE  FirstSettledWithin(x, Len(queue))'
      <4>1. FirstSettledWithin(x, n)'
        BY <1>f, <2>2, <2>3, <3>1
      <4>2. QED
        BY <1>e, <2>1, <4>1 DEF FirstSettledWithin
    <3>2. ASSUME NEW x \in Requests, NEW i \in 1 .. Len(queue),
                 queue[i].key = <<x, 2>>, queue[i].type = "lock"
          PROVE  FirstSettledWithin(x, i - 1)'
      <4>1. FirstSettledWithin(x, i - 1) /\ i - 1 \in Nat
        BY <1>e, <1>f, <3>2
      <4>2. QED
        BY <2>3, <4>1
    <3>3. QED
      BY <2>1, <3>1, <3>2 DEF RetriesAgree
  <2>5. RetryDoesNotPayTwice'
    BY <1>c, <1>d, <2>1 DEF RetryDoesNotPayTwice
  <2>6. QED
    BY <1>a, <2>4, <2>5 DEF RetryInv
<1>3. CASE Settles
  <2>1. PICK r \in Requests, a \in Nat, o \in Nat :
          /\ req[r].pc \in PastLock
          /\ update_state_manager_fiat(r, a, o)
          /\ \/ Finish(r)
             \/ /\ req[r].attempt = 1
                /\ Goto(r, "locked_answer") \/ Goto(r, "too_early_answer")
    BY <1>3 DEF Settles
  <2>2. PICK k \in Reservations : k = <<r, req[r].attempt>>
    BY <1>b
  <2>3. PICK e \in Event : e = SettleEvent(r, req[r], a, o)
    BY <1>a, EventTypes DEF TypeOK
  <2>4. /\ queue' = Append(queue, e) /\ e.key = k /\ e.type = "settle"
        /\ hold' = [hold EXCEPT ![k].status = "releasing"]
    BY <2>1, <2>2, <2>3 DEF update_state_manager_fiat, SettleEvent
  <2>5. /\ hold'[k].status = "releasing" /\ hold[k].status = "held"
        /\ \A j \in Reservations \ {k} : hold'[j] = hold[j]
    <3>1. /\ hold'[k] = [hold[k] EXCEPT !.status = "releasing"] /\ hold[k] \in Hold
          /\ \A j \in Reservations \ {k} : hold'[j] = hold[j]
      BY <1>a, <2>4 DEF TypeOK
    <3>2. hold'[k].status = "releasing"
      BY <3>1 DEF Hold
    <3>3. hold[k].status = "held"
      <4>1. RequestAgrees(r)
        BY <1>b
      <4>2. hold[<<r, req[r].attempt>>].status = "held"
        BY <2>1, <4>1 DEF RequestAgrees, PastLock
      <4>3. QED
        BY <2>2, <4>2
    <3>4. QED
      BY <3>1, <3>2, <3>3
  <2>6. /\ Len(queue') = n + 1
        /\ \A i \in 1 .. n : queue'[i] = queue[i]
        /\ queue'[n + 1] = e
    BY <1>b, <1>e, <2>4, AppendFacts
  <2>7. ASSUME NEW x \in Requests, NEW m \in Nat, m <= n, FirstSettledWithin(x, m)
        PROVE  FirstSettledWithin(x, m)'
    <3>1. <<x, 1>> # k
      BY <2>5, <2>7 DEF FirstSettledWithin
    <3>2. hold'[<<x, 1>>] = hold[<<x, 1>>]
      BY <1>b, <2>5, <3>1
    <3>3. QED
      BY <1>c, <2>6, <2>7, <3>2, KeepsFirst
  <2>8. ASSUME NEW x \in Requests, req'[x].pc = "locked_answer"
        PROVE  FirstSettledWithin(x, Len(queue))'
    <3>1. CASE x = r
      <4>1. req[r].attempt = 1
        BY <1>a, <2>1, <2>8, <3>1 DEF Finish, Finished, NoRequest, TypeOK
      <4>2. k = <<x, 1>>
        BY <2>2, <3>1, <4>1
      <4>3. hold'[<<x, 1>>].status = "releasing" /\ queue'[n + 1].key = <<x, 1>>
        BY <2>4, <2>5, <2>6, <4>2
      <4>4. n + 1 \in 1 .. Len(queue')
        BY <2>6
      <4>5. QED
        BY <4>3, <4>4 DEF FirstSettledWithin
    <3>2. CASE x # r
      <4>1. req[x].pc = "locked_answer"
        BY <1>a, <2>1, <2>8, <3>2 DEF TypeOK, Finish, Goto
      <4>2. FirstSettledWithin(x, n)'
        BY <1>f, <2>7, <4>1
      <4>3. \A j \in 1 .. n : j \in 1 .. Len(queue')
        BY <2>6
      <4>4. QED
        BY <4>2, <4>3 DEF FirstSettledWithin
    <3>3. QED
      BY <3>1, <3>2
  <2>9. ASSUME NEW x \in Requests, NEW i \in 1 .. Len(queue'),
               queue'[i].key = <<x, 2>>, queue'[i].type = "lock"
        PROVE  FirstSettledWithin(x, i - 1)'
    <3>1. i \in 1 .. n
      BY <2>4, <2>6, <2>9
    <3>2. FirstSettledWithin(x, i - 1)
      BY <1>f, <2>6, <2>9, <3>1
    <3>3. QED
      BY <2>7, <3>1, <3>2
  <2>10. RetryDoesNotPayTwice'
    <3>1. ASSUME NEW x \in Requests, hold'[<<x, 2>>].status # "none"
          PROVE  \/ hold'[<<x, 1>>].status = "settled"
                 \/ hold'[<<x, 1>>].status = "releasing" /\ env'.db_errors > 0
      <4>1. hold[<<x, 2>>].status # "none"
        BY <1>b, <2>5, <3>1
      <4>2. <<x, 1>> # k
        BY <1>d, <2>5, <4>1
      <4>3. hold'[<<x, 1>>] = hold[<<x, 1>>]
        BY <1>b, <2>5, <4>2
      <4>4. QED
        BY <1>c, <1>d, <4>1, <4>3
    <3>2. QED
      BY <3>1 DEF RetryDoesNotPayTwice
  <2>11. QED
    BY <1>a, <2>8, <2>9, <2>10 DEF RetryInv, RetriesAgree
<1>4. CASE Grants
  <2>1. PICK e \in Event : e = Head(queue)
    BY <1>a, <1>4, HeadType DEF Grants
  <2>2. /\ e.key \in Reservations /\ e.key[1] \in Requests /\ e.key[2] \in {1, 2}
        /\ e.key = <<e.key[1], e.key[2]>>
    BY KeyFacts DEF Event
  <2>3. hold[e.key].status = "none" /\ e = queue[1] /\ 1 \in 1 .. n /\ e.type = "lock"
    BY <1>4, <1>a, <1>b, <1>e, <2>1, HeadAgrees, TailFacts DEF Grants
  <2>4. /\ hold'[e.key].status = "held"
        /\ \A j \in Reservations \ {e.key} : hold'[j] = hold[j]
    BY <1>4, <1>a, <2>1, <2>2 DEF Grants, TypeOK
  <2>5. \A x \in Requests : req'[x].pc = "locked_answer" => req[x].pc = "locked_answer"
    BY <1>4, <1>a, <2>1, <2>2 DEF Grants, TypeOK, Goto, Request
  <2>6. RetriesAgree'
    <3>1. \A x \in Requests :
            \/ hold[<<x, 1>>].status = "none"
            \/ hold'[<<x, 1>>].status = hold[<<x, 1>>].status /\ Head(queue).key # <<x, 1>>
      BY <1>b, <2>1, <2>3, <2>4
    <3>2. QED
      BY <1>4, <1>a, <1>c, <2>5, <3>1, TailRetries DEF Grants
  <2>7. ASSUME NEW x \in Requests, hold'[<<x, 2>>].status # "none"
        PROVE  \/ hold'[<<x, 1>>].status = "settled"
               \/ hold'[<<x, 1>>].status = "releasing" /\ env'.db_errors > 0
    <3>1. CASE e.key = <<x, 2>>
      <4>1. FirstSettledWithin(x, 1 - 1)
        BY <1>f, <2>3, <3>1
      <4>2. \/ hold[<<x, 1>>].status = "settled"
            \/ hold[<<x, 1>>].status = "releasing" /\ env.db_errors > 0
        BY <4>1 DEF FirstSettledWithin
      <4>3. <<x, 1>> # e.key
        BY <3>1
      <4>4. QED
        BY <1>b, <1>c, <2>4, <4>2, <4>3
    <3>2. CASE e.key # <<x, 2>>
      <4>1. hold[<<x, 2>>].status # "none"
        BY <1>b, <2>4, <2>7, <3>2
      <4>2. hold[<<x, 1>>].status # "none"
        BY <1>d, <4>1
      <4>3. hold'[<<x, 1>>] = hold[<<x, 1>>]
        BY <1>b, <2>3, <2>4, <4>2
      <4>4. QED
        BY <1>c, <1>d, <4>1, <4>3
    <3>3. QED
      BY <3>1, <3>2
  <2>8. QED
    BY <1>a, <2>6, <2>7 DEF RetryInv, RetryDoesNotPayTwice
<1>5. CASE Refuses
  <2>1. \A x \in Requests : req'[x].pc = "locked_answer" => req[x].pc = "locked_answer"
    BY <1>5, <1>a DEF Refuses, TypeOK, Finish, Finished, NoRequest
  <2>2. hold[Head(queue).key].status = "none" /\ UNCHANGED hold
    BY <1>5, <1>a, HeadAgrees DEF Refuses
  <2>3. RetriesAgree'
    BY <1>5, <1>a, <1>c, <2>1, <2>2, TailRetries DEF Refuses
  <2>4. RetryDoesNotPayTwice'
    BY <1>c, <1>d, <2>2 DEF RetryDoesNotPayTwice
  <2>5. QED
    BY <1>a, <2>3, <2>4 DEF RetryInv
<1>6. CASE Charges
  <2>1. PICK e \in Event : e = Head(queue)
    BY <1>a, <1>6, HeadType DEF Charges
  <2>2. e.key \in Reservations /\ hold[e.key].status = "releasing"
    BY <1>6, <1>a, <2>1, HeadAgrees DEF Charges, Event
  <2>3. /\ hold'[e.key].status = "settled"
        /\ \A j \in Reservations \ {e.key} : hold'[j] = hold[j]
        /\ UNCHANGED req
    BY <1>6, <1>a, <2>1, <2>2 DEF Charges, TypeOK
  <2>4. RetriesAgree'
    <3>1. \A x \in Requests :
            \/ hold'[<<x, 1>>].status = "settled"
            \/ hold'[<<x, 1>>].status = hold[<<x, 1>>].status /\ Head(queue).key # <<x, 1>>
      BY <1>b, <2>1, <2>3
    <3>2. QED
      BY <1>6, <1>a, <1>c, <2>3, <3>1, TailRetries DEF Charges
  <2>5. ASSUME NEW x \in Requests, hold'[<<x, 2>>].status # "none"
        PROVE  \/ hold'[<<x, 1>>].status = "settled"
               \/ hold'[<<x, 1>>].status = "releasing" /\ env'.db_errors > 0
    <3>1. hold[<<x, 2>>].status # "none"
      BY <1>b, <2>2, <2>3, <2>5
    <3>2. hold'[<<x, 1>>].status \in {hold[<<x, 1>>].status, "settled"}
      BY <1>b, <2>3
    <3>3. QED
      BY <1>c, <1>d, <3>1, <3>2
  <2>6. QED
    BY <1>a, <2>4, <2>5 DEF RetryInv, RetryDoesNotPayTwice
<1>7. CASE Drops
  <2>1. RetriesAgree'
    BY <1>7, <1>a, TailRetries DEF Drops
  <2>2. RetryDoesNotPayTwice'
    BY <1>7, <1>d DEF Drops, RetryDoesNotPayTwice
  <2>3. QED
    BY <1>a, <2>1, <2>2 DEF RetryInv
<1>8. CASE Crash
  <2>1. \A x \in Requests : req'[x].pc # "locked_answer"
    BY <1>8 DEF Crash, Finished, NoRequest
  <2>2. RetriesAgree'
    BY <1>8, <2>1 DEF Crash, RetriesAgree
  <2>3. RetryDoesNotPayTwice'
    BY <1>8, <1>c, <1>d DEF Crash, RetryDoesNotPayTwice
  <2>4. QED
    BY <1>a, <2>2, <2>3 DEF RetryInv
<1>9. CASE Still
  <2>1. RetriesAgree'
    BY <1>9, <1>a, <1>c DEF Still, RetriesAgree, FirstSettledWithin
  <2>2. RetryDoesNotPayTwice'
    BY <1>9, <1>c, <1>d DEF Still, RetryDoesNotPayTwice
  <2>3. QED
    BY <1>a, <2>1, <2>2 DEF RetryInv
<1>10. QED
  BY <1>1, <1>2, <1>3, <1>4, <1>5, <1>6, <1>7, <1>8, <1>9, <1>a, Moves

LEMMA RetryInit == Init => RetryInv
  BY CoreInit
     DEF Init, RetryInv, RetriesAgree, RetryDoesNotPayTwice, NoRequest, NoHold, Reservations

(* The channel, the requests and the locks always tell the same story.     *)
THEOREM ChannelAlwaysAgrees == Spec => []ChannelAgrees
<1>1. RetryInv => ChannelAgrees
  BY DEF RetryInv, CoreInv, ChannelAgrees
<1>2. QED
  BY <1>1, RetryInit, RetryStep, PTL DEF Spec

(* A second lock is granted only after the first estimate was given back,  *)
(* unless a database error swallowed the rollback.                         *)
THEOREM NoDoublePayment == Spec => []RetryDoesNotPayTwice
<1>1. RetryInv => RetryDoesNotPayTwice
  BY DEF RetryInv
<1>2. QED
  BY <1>1, RetryInit, RetryStep, PTL DEF Spec

-----------------------------------------------------------------------------
(* Billing implements the ledger.                                          *)

BalanceMap == [u \in Users |-> fiat[u].usd_balance]
StateMap == [k \in Reservations |->
               IF hold[k].status = "none" THEN "open"
               ELSE IF Outstanding(hold[k]) THEN "reserved" ELSE "charged"]

(* The credit the ledger sees taken is the total of the balance's columns. *)
LEMMA TakenIsTotal ==
  ASSUME LedgerInv, NEW u \in Users
  PROVE  Ledger!Taken(u) = TotalAmount(fiat[u])
<1>1. {k \in Reservations : OwnerOf(k) = u /\ StateMap[k] # "open"} = TakenOf(u)
  BY DEF StateMap, TakenOf
<1>2. Ledger!Taken(u) = SumOver(AmountOf, TakenOf(u))
  BY <1>1 DEF Ledger!Taken, Ledger!SumOver, Ledger!Units, Ledger!Cardinality,
             SumOver, Units, Cardinality, StateMap, AmountOf
<1>3. QED
  BY <1>2 DEF LedgerInv, LedgerSums, IsSum

LEMMA LedgerNext == LedgerInv /\ [Next]_vars => [Ledger!Next]_Ledger!vars
<1> SUFFICES ASSUME LedgerInv, [Next]_vars PROVE [Ledger!Next]_Ledger!vars
  OBVIOUS
<1>1. CoreInv /\ TypeOK /\ TypeOK'
  BY TypeStep DEF LedgerInv, CoreInv
<1>2. /\ \A k \in Reservations : hold[k] \in Hold /\ hold'[k] \in Hold
      /\ \A u \in Users : fiat[u] \in Row /\ fiat'[u] \in Row
  BY <1>1 DEF TypeOK
<1>3. AmountOf' \in [Reservations -> Nat] /\ BalanceMap' \in [Users -> Nat]
  BY <1>2 DEF AmountOf, BalanceMap, Hold, Row
<1>4. CASE Quiet
  <2>1. BalanceMap' = BalanceMap
    BY <1>4 DEF Quiet, BalanceMap
  <2>2. CASE UNCHANGED hold
    BY <2>1, <2>2 DEF BalanceMap, Ledger!vars
  <2>3. ASSUME NEW r \in Requests, req[r].pc \in PastLock,
               hold' = [hold EXCEPT ![<<r, req[r].attempt>>].status = "releasing"]
        PROVE  UNCHANGED Ledger!vars
    <3>1. PICK k \in Reservations : k = <<r, req[r].attempt>>
      BY <1>1 DEF TypeOK, Request, Reservations
    <3>2. hold[k].status = "held"
      <4>1. RequestAgrees(r)
        BY <1>1 DEF CoreInv
      <4>2. hold[<<r, req[r].attempt>>].status = "held"
        BY <2>3, <4>1 DEF RequestAgrees, PastLock
      <4>3. QED
        BY <3>1, <4>2
    <3>3. /\ hold'[k] = [hold[k] EXCEPT !.status = "releasing"]
          /\ \A j \in Reservations \ {k} : hold'[j] = hold[j]
      BY <1>1, <2>3, <3>1 DEF TypeOK
    <3>4. /\ hold'[k].status = "releasing"
          /\ hold'[k].input = hold[k].input /\ hold'[k].output = hold[k].output
      BY <1>2, <3>3 DEF Hold
    <3>5. StateMap' = StateMap
      BY <3>2, <3>3, <3>4 DEF StateMap, Outstanding
    <3>6. AmountOf' = AmountOf
      BY <3>3, <3>4 DEF AmountOf
    <3>7. QED
      BY <2>1, <3>5, <3>6 DEF Ledger!vars, BalanceMap, StateMap, AmountOf
  <2>4. QED
    BY <1>4, <2>2, <2>3 DEF Quiet
<1>5. CASE queue # <<>> /\ Granted(Head(queue))
  <2>1. PICK e \in Event : e = Head(queue)
    BY <1>1, <1>5, HeadAgrees
  <2>2. e.key \in Reservations /\ OwnerOf(e.key) \in Users /\ hold[e.key].status = "none"
    BY <1>1, <1>5, <2>1, HeadAgrees, HeadType DEF Granted
  <2>3. /\ CanLock(fiat[OwnerOf(e.key)], e)
        /\ hold'[e.key] = [status |-> "held", input |-> e.est_input, output |-> e.est_output]
        /\ \A j \in Reservations \ {e.key} : hold'[j] = hold[j]
        /\ fiat' = [fiat EXCEPT ![OwnerOf(e.key)] = LockRow(@, e)]
    BY <1>1, <1>5, <2>1, <2>2 DEF Granted, TypeOK
  <2>4. BalanceMap' = BalanceMap
    BY <1>1, <1>2, <2>2, <2>3 DEF BalanceMap, LockRow, Row, TypeOK
  <2>5. StateMap[e.key] = "open" /\ StateMap' = [StateMap EXCEPT ![e.key] = "reserved"]
    BY <2>2, <2>3 DEF StateMap, Outstanding
  <2>6. /\ AmountOf'[e.key] = e.est_input + e.est_output
        /\ \A j \in Reservations \ {e.key} : AmountOf'[j] = AmountOf[j]
    BY <2>2, <2>3 DEF AmountOf
  <2>7. Ledger!Taken(OwnerOf(e.key)) + AmountOf'[e.key] <= BalanceMap[OwnerOf(e.key)]
    <3>1. Ledger!Taken(OwnerOf(e.key)) = TotalAmount(fiat[OwnerOf(e.key)])
      BY <2>2, TakenIsTotal
    <3>2. BalanceMap[OwnerOf(e.key)] = fiat[OwnerOf(e.key)].usd_balance
      BY <2>2 DEF BalanceMap
    <3>3. QED
      BY <1>2, <2>2, <2>3, <2>6, <3>1, <3>2 DEF CanLock, TotalAmount, Row, Event
  <2>8. Ledger!Reserve(e.key)
    BY <1>3, <2>4, <2>5, <2>6, <2>7 DEF Ledger!Reserve, BalanceMap, StateMap, AmountOf
  <2>9. QED
    BY <2>2, <2>8 DEF Ledger!Next
<1>6. CASE queue # <<>> /\ Charged(Head(queue))
  <2>1. PICK e \in Event : e = Head(queue)
    BY <1>1, <1>6, HeadAgrees
  <2>2. e.key \in Reservations /\ OwnerOf(e.key) \in Users /\ hold[e.key].status = "releasing"
    BY <1>1, <1>6, <2>1, HeadAgrees, HeadType DEF Charged
  <2>3. /\ hold'[e.key] = [status |-> "settled", input |-> e.input, output |-> e.output]
        /\ \A j \in Reservations \ {e.key} : hold'[j] = hold[j]
        /\ fiat' = [fiat EXCEPT ![OwnerOf(e.key)] = SettleRow(@, e)]
    BY <1>1, <1>6, <2>1, <2>2 DEF Charged, update_real_amount_fiat_balance, TypeOK
  <2>4. BalanceMap' = BalanceMap
    BY <1>1, <1>2, <2>2, <2>3 DEF BalanceMap, SettleRow, Row, TypeOK
  <2>5. StateMap[e.key] = "reserved" /\ StateMap' = [StateMap EXCEPT ![e.key] = "charged"]
    BY <2>2, <2>3 DEF StateMap, Outstanding
  <2>6. \A j \in Reservations \ {e.key} : AmountOf'[j] = AmountOf[j]
    BY <2>3 DEF AmountOf
  <2>7. Ledger!Charge(e.key)
    BY <1>3, <2>4, <2>5, <2>6 DEF Ledger!Charge, BalanceMap, StateMap, AmountOf
  <2>8. QED
    BY <2>2, <2>7 DEF Ledger!Next
<1>7. CASE PaidIn
  <2>1. PICK u \in Users : fiat' = [fiat EXCEPT ![u].usd_balance = @ + 1]
    BY <1>7 DEF PaidIn
  <2>2. fiat'[u] = [fiat[u] EXCEPT !.usd_balance = @ + 1]
        /\ \A v \in Users \ {u} : fiat'[v] = fiat[v]
    BY <1>1, <2>1 DEF TypeOK
  <2>3. BalanceMap'[u] > BalanceMap[u] /\ \A v \in Users \ {u} : BalanceMap'[v] = BalanceMap[v]
    BY <1>2, <2>2 DEF BalanceMap, Row
  <2>4. StateMap' = StateMap /\ AmountOf' = AmountOf
    BY <1>7 DEF PaidIn, StateMap, AmountOf
  <2>5. Ledger!PayIn(u)
    BY <1>3, <2>3, <2>4 DEF Ledger!PayIn, BalanceMap, StateMap, AmountOf
  <2>6. QED
    BY <2>5 DEF Ledger!Next
<1>8. QED
  BY <1>1, <1>4, <1>5, <1>6, <1>7, Effects

(* Every behaviour of the proxy's fiat billing is, seen through the rows   *)
(* of fiat_balances and the locks, a behaviour of the abstract ledger.     *)
THEOREM BillingImplementsLedger == Spec => ImplementsLedger
<1>1. Init => Ledger!Init
  BY BalanceAssumption DEF Init, Ledger!Init, NewRow, NoHold
<1>2. QED
  BY <1>1, LedgerNext, LedgerCorrect, PTL DEF Spec, ImplementsLedger, Ledger!Spec
=============================================================================
