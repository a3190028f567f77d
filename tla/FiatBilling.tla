----------------------------- MODULE FiatBilling -----------------------------
(***************************************************************************)
(* The life of a request that is paid from a user's fiat balance: the      *)
(* authentication middleware locks an estimate, the handler (or the        *)
(* streamer it spawns) later settles it with the usage the node reports,   *)
(* and the state manager applies both as events of one FIFO channel.       *)
(*                                                                         *)
(* Every request runs in tasks of its own (tokio::spawn in the middleware  *)
(* and in the handlers), so requests interleave between any two awaits; a  *)
(* client that disconnects cancels none of them.  The database survives a  *)
(* crash of the process, the channel and the tasks do not.                 *)
(***************************************************************************)
EXTENDS Sums, Sequences

CONSTANTS
  Users,
  Requests,          \* one HTTP request each
  Owner,             \* the user that sends a request: [Requests -> Users]
  Tokens,            \* token counts estimated by the proxy or reported by a node
  Prices,            \* prices per ONE_MILLION compute units
  OneMillion,        \* ONE_MILLION, scaled down for model checking
  Balance,           \* usd_balance of each user at the start
  UnreadableBodies,  \* requests that the handler's Json extractor may turn down
  UndecodableHashes, \* requests whose node may send a response hash that is not base64
  StackHeader,       \* requests that arrive with an X-Stack-Small-Id header
  MaxTopUps,         \* bound on payments in
  MaxDbErrors,       \* bound on database errors
  MaxCrashes         \* bound on crashes of the process

ASSUME OwnerAssumption == Owner \in [Requests -> Users]
ASSUME TokensAssumption == Tokens \subseteq Nat /\ 0 \in Tokens
ASSUME PricesAssumption == Prices \subseteq Nat
ASSUME OneMillionAssumption == OneMillion \in Nat \ {0}
ASSUME BalanceAssumption == Balance \in [Users -> Nat]
ASSUME BoundsAssumption ==
  MaxTopUps \in Nat /\ MaxDbErrors \in Nat /\ MaxCrashes \in Nat

VARIABLES
  fiat,        \* table fiat_balances: one row per user
  usage,       \* tables usage_per_day and usage_per_model (one day, one model)
  queue,       \* the flume channel to the state manager
  req,         \* where each request is and the metadata it carries
  hold,        \* what the n-th lock of a request took: history of the ledger
  excess,      \* history: usage charged to a user above its estimates
  env          \* faults and payments so far

vars == <<fiat, usage, queue, req, hold, excess, env>>

(* A request locks once, and once more when the node answers LOCKED. *)
Reservations == Requests \X {1, 2}
OwnerOf(k) == Owner[k[1]]

Endpoints == {"chat", "completions", "embeddings", "images"}
PCs == {"idle", "locking", "locked", "forwarded", "streaming",
        "locked_answer", "too_early_answer", "done"}
HoldStatus == {"none", "held", "releasing", "settled"}
Outstanding(h) == h.status \in {"held", "releasing"}

NoRequest == [pc |-> "idle", attempt |-> 1, endpoint |-> "chat",
              est_input |-> 0, est_output |-> 0,
              price_input |-> 0, price_output |-> 0]
NoHold == [status |-> "none", input |-> 0, output |-> 0]
NewRow(b) == [usd_balance |-> b,
              unsettled_input |-> 0, unsettled_completions |-> 0,
              debited_input |-> 0, debited_completions |-> 0,
              num_requests |-> 0]
NoUsageRow == [input_amount |-> 0, input_tokens |-> 0,
               output_amount |-> 0, output_tokens |-> 0,
               model_input |-> 0, model_output |-> 0]

(* tokens * price / ONE_MILLION, in integers: what a lock takes and what a *)
(* settlement releases and charges.                                        *)
Amount(tokens, price) == (tokens * price) \div OneMillion

Init ==
  /\ fiat = [u \in Users |-> NewRow(Balance[u])]
  /\ usage = [u \in Users |-> NoUsageRow]
  /\ queue = <<>>
  /\ req = [r \in Requests |-> NoRequest]
  /\ hold = [k \in Reservations |-> NoHold]
  /\ excess = [u \in Users |-> 0]
  /\ env = [top_ups |-> 0, db_errors |-> 0, crashes |-> 0]

-----------------------------------------------------------------------------
(* The proxy's side of the channel.                                        *)

LockEvent(r, q) ==
  [type |-> "lock", key |-> <<r, q.attempt>>,
   est_input |-> Amount(q.est_input, q.price_input),
   est_output |-> Amount(q.est_output, q.price_output),
   input |-> 0, output |-> 0, input_tokens |-> 0, output_tokens |-> 0]

(* Mutant: what was used is released, and not what was estimated. *)
SettleEvent_ReleasesUsage(r, q, input_tokens, output_tokens) ==
  [type |-> "settle", key |-> <<r, q.attempt>>,
   est_input |-> Amount(input_tokens, q.price_input),
   est_output |-> Amount(output_tokens, q.price_output),
   input |-> Amount(input_tokens, q.price_input),
   output |-> Amount(output_tokens, q.price_output),
   input_tokens |-> input_tokens, output_tokens |-> output_tokens]

(* update_state_manager_fiat: the estimate is priced again, with the price *)
(* the request's metadata carried from the lock.                           *)
SettleEvent(r, q, input_tokens, output_tokens) ==
  [type |-> "settle", key |-> <<r, q.attempt>>,
   est_input |-> Amount(q.est_input, q.price_input),
   est_output |-> Amount(q.est_output, q.price_output),
   input |-> Amount(input_tokens, q.price_input),
   output |-> Amount(output_tokens, q.price_output),
   input_tokens |-> input_tokens, output_tokens |-> output_tokens]

update_state_manager_fiat(r, input_tokens, output_tokens) ==
  /\ queue' = Append(queue, SettleEvent(r, req[r], input_tokens, output_tokens))
  /\ hold' = [hold EXCEPT ![<<r, req[r].attempt>>].status = "releasing"]

(* What an endpoint estimates, as <<input, output>>: embeddings produce no *)
(* output tokens, images are counted as output only.                       *)
ChatEstimates == Tokens \X Tokens
CompletionsEstimates == Tokens \X Tokens
EmbeddingsEstimates == Tokens \X {0}
ImageEstimates == {0} \X Tokens

Estimates(endpoint) ==
  CASE endpoint = "embeddings"  -> EmbeddingsEstimates
    [] endpoint = "images"      -> ImageEstimates
    [] endpoint = "completions" -> CompletionsEstimates
    [] OTHER                    -> ChatEstimates

(* What a successful answer is billed as.  Chat uses the node's prompt and *)
(* completion tokens, completions bills all of them as output, embeddings  *)
(* and images are billed at their estimate.                                *)
ChatUsage == Tokens \X Tokens
CompletionsUsage == {0} \X Tokens
EmbeddingsUsage(q) == {<<q.est_input, 0>>}
ImageUsage(q) == {<<q.est_input, q.est_output>>}

Billed(q) ==
  CASE q.endpoint = "embeddings"  -> EmbeddingsUsage(q)
    [] q.endpoint = "images"      -> ImageUsage(q)
    [] q.endpoint = "completions" -> CompletionsUsage
    [] OTHER                      -> ChatUsage

Goto(r, pc) == req' = [req EXCEPT ![r].pc = pc]

(* The task of the request ends and its metadata is dropped. *)
Finished == [NoRequest EXCEPT !.pc = "done"]
Finish(r) == req' = [req EXCEPT ![r] = Finished]

(* authenticate_middleware up to the lock: the token is valid, the tokens  *)
(* are estimated, a node and the user's price are looked up, and the lock  *)
(* is requested from the state manager.                                    *)
SendLock(r, q) ==
  /\ req' = [req EXCEPT ![r] = q]
  /\ queue' = Append(queue, LockEvent(r, q))

authenticate_and_lock_compute_units(r) ==
  /\ req[r].pc = "idle"
  /\ \E endpoint \in Endpoints, p \in Prices \X Prices :
       \E est \in Estimates(endpoint) :
         SendLock(r, [pc |-> "locking", attempt |-> 1, endpoint |-> endpoint,
                      est_input |-> est[1], est_output |-> est[2],
                      price_input |-> p[1], price_output |-> p[2]])
  /\ UNCHANGED <<fiat, usage, hold, excess, env>>

(* The token is refused, the body is no request of this endpoint, the      *)
(* model has no tokenizer or no node serves it: nothing has been locked.   *)
RejectRequest(r) ==
  /\ req[r].pc = "idle"
  /\ Finish(r)
  /\ UNCHANGED <<fiat, usage, queue, hold, excess, env>>

(* Mutant: an error returns without the rollback. *)
create_fiat_request_NoRollback(r) ==
  /\ req[r].pc = "locked"
  /\ Goto(r, "forwarded") \/ Finish(r)
  /\ UNCHANGED <<fiat, usage, queue, hold, excess, env>>

(* create_fiat_request looks the node's address up and signs the body.  On *)
(* an error the middleware gives the whole estimate back.                  *)
create_fiat_request(r) ==
  /\ req[r].pc = "locked"
  /\ \/ /\ Goto(r, "forwarded")
        /\ UNCHANGED <<queue, hold>>
     \/ /\ Finish(r)
        /\ update_state_manager_fiat(r, 0, 0)
  /\ UNCHANGED <<fiat, usage, excess, env>>

(* The Json extractor of the handler refuses the body (no JSON content     *)
(* type, or more than the framework's default body limit, both of which    *)
(* the middleware accepts), so the handler never runs.                     *)
ExtractorRejects(r) ==
  /\ r \in UnreadableBodies
  /\ req[r].pc = "forwarded"
  /\ Finish(r)
  /\ UNCHANGED <<fiat, usage, queue, hold, excess, env>>

(* Mutant: a LOCKED answer is retried without giving the estimate back. *)
HandlerFails_RetryKeepsLock(r) ==
  /\ req[r].pc = "forwarded"
  /\ req[r].attempt = 1
  /\ Goto(r, "locked_answer")
  /\ UNCHANGED <<fiat, usage, queue, hold, excess, env>>

(* The node cannot be reached, answers with an error status, or sends a    *)
(* response that does not parse, or whose hash or signature is wrong: the  *)
(* handler returns an error and gives the estimate back.  handle_locked_stack_middleware looks at the answer, but only at  *)
(* the one to the first attempt.                                           *)
HandlerFails(r) ==
  /\ req[r].pc = "forwarded"
  /\ \/ Finish(r)
     \/ req[r].attempt = 1 /\ (Goto(r, "locked_answer") \/ Goto(r, "too_early_answer"))
  /\ update_state_manager_fiat(r, 0, 0)
  /\ UNCHANGED <<fiat, usage, excess, env>>

(* The hash of the response is no base64: verify_response_hash_and_signature *)
(* unwraps the decoding, the task of the handler panics, and what awaits it  *)
(* answers with an error.  The rollback was in that task.                    *)
HandlerPanics(r) ==
  /\ r \in UndecodableHashes
  /\ req[r].pc = "forwarded"
  /\ Finish(r)
  /\ UNCHANGED <<fiat, usage, queue, hold, excess, env>>

(* A complete answer: the handler settles with what the endpoint bills.    *)
HandlerSucceeds(r) ==
  /\ req[r].pc = "forwarded"
  /\ \E b \in Billed(req[r]) : update_state_manager_fiat(r, b[1], b[2])
  /\ Finish(r)
  /\ UNCHANGED <<fiat, usage, excess, env>>

(* A streamed answer: the handler returns and leaves the settlement to the *)
(* Streamer of the task it spawns.                                         *)
handle_streaming_response(r) ==
  /\ req[r].pc = "forwarded"
  /\ req[r].endpoint \in {"chat", "completions"}
  /\ Goto(r, "streaming")
  /\ UNCHANGED <<fiat, usage, queue, hold, excess, env>>

(* The last chunk carried the usage of the whole stream. *)
handle_final_chunk(r) ==
  /\ req[r].pc = "streaming"
  /\ \E b \in Tokens \X Tokens : update_state_manager_fiat(r, b[1], b[2])
  /\ Finish(r)
  /\ UNCHANGED <<fiat, usage, excess, env>>

(* The stream ended without it: the streamer is dropped and charges the    *)
(* estimated input and one token for every chunk it passed on.             *)
DropStreamer(r) ==
  /\ req[r].pc = "streaming"
  /\ \E generated \in Tokens : update_state_manager_fiat(r, req[r].est_input, generated)
  /\ Finish(r)
  /\ UNCHANGED <<fiat, usage, excess, env>>

(* The LOCKED branch of handle_locked_stack_middleware.  lock_stack needs  *)
(* the stack of the request from its header and fails without one; else    *)
(* the request authenticates, and locks, a second time.                    *)
HandleLocked(r) ==
  /\ req[r].pc = "locked_answer"
  /\ \/ /\ Finish(r)
        /\ UNCHANGED queue
     \/ /\ r \in StackHeader
        /\ \E p \in Prices \X Prices :
             SendLock(r, [req[r] EXCEPT !.pc = "locking", !.attempt = 2,
                                        !.price_input = p[1], !.price_output = p[2]])
  /\ UNCHANGED <<fiat, usage, hold, excess, env>>

(* The TOO_EARLY branch: from here on the request is paid with compute     *)
(* units of a stack and touches the fiat balance no more.                  *)
HandleTooEarly(r) ==
  /\ req[r].pc = "too_early_answer"
  /\ Finish(r)
  /\ UNCHANGED <<fiat, usage, queue, hold, excess, env>>

-----------------------------------------------------------------------------
(* The state manager: one consumer that handles one event at a time.       *)

TotalAmount(row) ==
  row.debited_completions + row.debited_input
    + row.unsettled_completions + row.unsettled_input

(* Mutants: the guard forgets the other requests' estimates, or this one's. *)
CanLock_IgnoresUnsettled(row, e) ==
  row.usd_balance >= row.debited_completions + row.debited_input
                       + e.est_input + e.est_output
CanLock_IgnoresRequest(row, e) == row.usd_balance >= TotalAmount(row)

(* The guarded UPDATE of lock_user_fiat_balance. *)
CanLock(row, e) == row.usd_balance >= TotalAmount(row) + e.est_input + e.est_output

LockRow(row, e) ==
  [row EXCEPT !.unsettled_input = @ + e.est_input,
              !.unsettled_completions = @ + e.est_output]

(* LockUserFiatBalance, with the answer through the oneshot channel: a     *)
(* request that gets no lock ends with FiatPaymentsOnly.                   *)
lock_user_fiat_balance ==
  /\ queue # <<>> /\ Head(queue).type = "lock"
  /\ LET e == Head(queue)
         r == e.key[1]
         u == Owner[r]
     IN  \/ /\ CanLock(fiat[u], e)
            /\ fiat' = [fiat EXCEPT ![u] = LockRow(@, e)]
            /\ hold' = [hold EXCEPT ![e.key] = [status |-> "held", input |-> e.est_input,
                                                output |-> e.est_output]]
            /\ Goto(r, "locked")
         \/ /\ ~CanLock(fiat[u], e)
            /\ Finish(r)
            /\ UNCHANGED <<fiat, hold>>
  /\ queue' = Tail(queue)
  /\ UNCHANGED <<usage, excess, env>>

(* Mutant: the debit is entered net of the estimate. *)
SettleRow_NetOfEstimate(row, e) ==
  [row EXCEPT !.unsettled_input = @ - e.est_input,
              !.debited_input = @ + e.input - e.est_input,
              !.unsettled_completions = @ - e.est_output,
              !.debited_completions = @ + e.output,
              !.num_requests = @ + (IF e.output > 0 THEN 1 ELSE 0)]

(* The UPDATE of update_real_amount_fiat_balance: unguarded. *)
SettleRow(row, e) ==
  [row EXCEPT !.unsettled_input = @ - e.est_input,
              !.debited_input = @ + e.input,
              !.unsettled_completions = @ - e.est_output,
              !.debited_completions = @ + e.output,
              !.num_requests = @ + (IF e.output > 0 THEN 1 ELSE 0)]

update_real_amount_fiat_balance(e) ==
  LET u == OwnerOf(e.key) IN
  /\ fiat' = [fiat EXCEPT ![u] = SettleRow(@, e)]
  /\ hold' = [hold EXCEPT ![e.key] = [status |-> "settled", input |-> e.input,
                                      output |-> e.output]]
  /\ excess' = [excess EXCEPT ![u] = @ + Excess(e.input + e.output,
                                                e.est_input + e.est_output)]

(* Mutant: the statistics count the estimate. *)
DayRow_Estimate(row, e) ==
  [row EXCEPT !.input_amount = @ + e.est_input, !.input_tokens = @ + e.input_tokens,
              !.output_amount = @ + e.est_output, !.output_tokens = @ + e.output_tokens]

(* The upsert of update_per_day_table. *)
DayRow(row, e) ==
  [row EXCEPT !.input_amount = @ + e.input, !.input_tokens = @ + e.input_tokens,
              !.output_amount = @ + e.output, !.output_tokens = @ + e.output_tokens]

(* The event handler passes the amounts, not the token counts. *)
ModelRow(row, e) ==
  [row EXCEPT !.model_input = @ + e.input, !.model_output = @ + e.output]

(* update_per_day_table and update_usage_per_model, after the balance. *)
UpdateUsage(e) ==
  usage' = IF e.output_tokens > 0
             THEN [usage EXCEPT ![OwnerOf(e.key)] = ModelRow(DayRow(@, e), e)]
             ELSE usage

UpdateStackNumTokensFiat ==
  /\ queue # <<>> /\ Head(queue).type = "settle"
  /\ update_real_amount_fiat_balance(Head(queue))
  /\ UpdateUsage(Head(queue))
  /\ queue' = Tail(queue)
  /\ UNCHANGED <<req, env>>

(* A statement fails.  The lock reports the error to the waiting request;  *)
(* a settlement logs it and goes on with the next event, with the          *)
(* statements before the failing one already committed.                    *)
DatabaseError ==
  /\ queue # <<>>
  /\ env.db_errors < MaxDbErrors
  /\ env' = [env EXCEPT !.db_errors = @ + 1]
  /\ queue' = Tail(queue)
  /\ LET e == Head(queue) IN
       \/ /\ e.type = "lock"
          /\ Finish(e.key[1])
          /\ UNCHANGED <<fiat, usage, hold, excess>>
       \/ /\ e.type = "settle"
          /\ UNCHANGED <<fiat, usage, hold, excess, req>>
       \/ /\ e.type = "settle" /\ e.output_tokens > 0
          /\ update_real_amount_fiat_balance(e)
          /\ \/ UNCHANGED usage
             \/ usage' = [usage EXCEPT ![OwnerOf(e.key)] = DayRow(@, e)]
          /\ UNCHANGED req

-----------------------------------------------------------------------------
(* The environment.                                                        *)

(* The process stops (a crash, ctrl-c, or a task that ended with an error  *)
(* and takes the others down) and starts again: the database keeps its     *)
(* rows, channel and tasks are gone, and nothing at start-up looks for     *)
(* estimates left behind.                                                  *)
Crash ==
  /\ env.crashes < MaxCrashes
  /\ env' = [env EXCEPT !.crashes = @ + 1]
  /\ queue' = <<>>
  /\ req' = [r \in Requests |->
               IF req[r].pc = "idle" THEN req[r] ELSE Finished]
  /\ UNCHANGED <<fiat, usage, hold, excess>>

(* The payment service adds to usd_balance; no code here does. *)
TopUp(u) ==
  /\ env.top_ups < MaxTopUps
  /\ env' = [env EXCEPT !.top_ups = @ + 1]
  /\ fiat' = [fiat EXCEPT ![u].usd_balance = @ + 1]
  /\ UNCHANGED <<usage, queue, req, hold, excess>>

-----------------------------------------------------------------------------
(* What the proxy does by itself, and what waits for a node. *)
ProxyStep(r) == create_fiat_request(r) \/ HandleLocked(r) \/ HandleTooEarly(r)
NodeStep(r) == HandlerFails(r) \/ HandlerSucceeds(r) \/ handle_streaming_response(r)
                 \/ handle_final_chunk(r) \/ DropStreamer(r)
StateManagerStep == lock_user_fiat_balance \/ UpdateStackNumTokensFiat

Next ==
  \/ \E r \in Requests : \/ authenticate_and_lock_compute_units(r) \/ RejectRequest(r)
                         \/ ExtractorRejects(r) \/ HandlerPanics(r)
                         \/ ProxyStep(r) \/ NodeStep(r)
  \/ StateManagerStep
  \/ DatabaseError
  \/ Crash
  \/ \E u \in Users : TopUp(u)

Spec == Init /\ [][Next]_vars

(* The runtime schedules every task and the state manager's loop; nothing  *)
(* makes a node answer, for the HTTP client has no timeout, nor an         *)
(* extractor refuse or a handler panic.                                    *)
Fairness ==
  /\ \A r \in Requests : WF_vars(ProxyStep(r))
  /\ WF_vars(StateManagerStep)

FairSpec == Spec /\ Fairness
-----------------------------------------------------------------------------
(* Types of the tables, the channel and the metadata.                      *)
Row == [usd_balance : Nat, unsettled_input : Int, unsettled_completions : Int,
        debited_input : Nat, debited_completions : Nat, num_requests : Nat]
UsageRow == [input_amount : Nat, input_tokens : Nat, output_amount : Nat,
             output_tokens : Nat, model_input : Nat, model_output : Nat]
Event == [type : {"lock", "settle"}, key : Reservations,
          est_input : Nat, est_output : Nat, input : Nat, output : Nat,
          input_tokens : Nat, output_tokens : Nat]
Request == [pc : PCs, attempt : {1, 2}, endpoint : Endpoints,
            est_input : Nat, est_output : Nat, price_input : Nat, price_output : Nat]
Hold == [status : HoldStatus, input : Nat, output : Nat]

(* Every variable keeps its type; in particular the debited columns never  *)
(* go below zero.                                                          *)
TypeOK ==
  /\ fiat \in [Users -> Row]
  /\ usage \in [Users -> UsageRow]
  /\ queue \in Seq(Event)
  /\ req \in [Requests -> Request]
  /\ hold \in [Reservations -> Hold]
  /\ excess \in [Users -> Nat]
  /\ env \in [top_ups : Nat, db_errors : Nat, crashes : Nat]

InputOf == [k \in Reservations |-> hold[k].input]
OutputOf == [k \in Reservations |-> hold[k].output]
OutstandingOf(u) == {k \in Reservations : OwnerOf(k) = u /\ Outstanding(hold[k])}
SettledOf(u) == {k \in Reservations : OwnerOf(k) = u /\ hold[k].status = "settled"}

(* The overcharged_unsettled columns of a user hold exactly the estimates  *)
(* that were locked and not yet settled, and the already_debited columns   *)
(* exactly what settlements charged: whatever mix of failures, retries,    *)
(* streams, crashes and database errors requests meet, no estimate is      *)
(* released twice, at another price, or against the other column.          *)
LedgerMatchesHolds ==
  \A u \in Users :
    /\ fiat[u].unsettled_input = SumOver(InputOf, OutstandingOf(u))
    /\ fiat[u].unsettled_completions = SumOver(OutputOf, OutstandingOf(u))
    /\ fiat[u].debited_input = SumOver(InputOf, SettledOf(u))
    /\ fiat[u].debited_completions = SumOver(OutputOf, SettledOf(u))

(* lock_user_fiat_balance admits requests so that charges and estimates    *)
(* together never exceed what the user paid in, but for the usage that     *)
(* nodes report above the estimates they were given.                       *)
NoOverdraft ==
  \A u \in Users : TotalAmount(fiat[u]) <= fiat[u].usd_balance + excess[u]

(* handle_locked_stack_middleware retries only after the first attempt's   *)
(* handler has sent its rollback, and the channel is FIFO: when the second *)
(* lock of a request is granted, its first estimate is no longer reserved  *)
(* (unless a database error swallowed the rollback).                       *)
RetryDoesNotPayTwice ==
  \A r \in Requests :
    hold[<<r, 2>>].status # "none" =>
      \/ hold[<<r, 1>>].status = "settled"
      \/ hold[<<r, 1>>].status = "releasing" /\ env.db_errors > 0

(* The statistics of update_per_day_table never show more than was charged *)
(* to the balance, although the statements commit one by one and any of    *)
(* them may fail.                                                          *)
UsageNeverExceedsDebits ==
  \A u \in Users :
    /\ usage[u].input_amount <= fiat[u].debited_input
    /\ usage[u].output_amount <= fiat[u].debited_completions

-----------------------------------------------------------------------------
(* The strengthening that makes these invariants inductive.                *)

(* What the metadata of a request says of its locks: a request past the    *)
(* lock holds exactly the estimate it would release, and the second lock   *)
(* is untouched until the first attempt has sent its rollback.             *)
RequestAgrees(r) ==
  LET q == req[r]
      h == hold[<<r, q.attempt>>]
  IN  /\ q.pc \in {"locked", "forwarded", "streaming"} =>
           h = [status |-> "held", input |-> Amount(q.est_input, q.price_input),
                output |-> Amount(q.est_output, q.price_output)]
      /\ q.pc \in {"idle", "locking"} => h.status = "none"
      /\ q.pc \in {"idle", "locked_answer", "too_early_answer"} => q.attempt = 1
      /\ q.pc # "done" /\ q.attempt = 1 => hold[<<r, 2>>].status = "none"

(* What an event in the channel says of the request and the lock it names. *)
EventAgrees(e) ==
  LET q == req[e.key[1]] IN
  \/ /\ e.type = "lock"
     /\ q.pc = "locking" /\ e.key[2] = q.attempt
     /\ e.est_input = Amount(q.est_input, q.price_input)
     /\ e.est_output = Amount(q.est_output, q.price_output)
  \/ /\ e.type = "settle"
     /\ hold[e.key] = [status |-> "releasing", input |-> e.est_input,
                       output |-> e.est_output]

QueueAgrees ==
  /\ \A i \in 1 .. Len(queue) : EventAgrees(queue[i])
  /\ \A i, j \in 1 .. Len(queue) : queue[i].key = queue[j].key => i = j

(* The first lock of r is settled, or an error swallowed the settlement, or *)
(* it is among the first n events of the channel.                           *)
FirstSettledWithin(r, n) ==
  \/ hold[<<r, 1>>].status = "settled"
  \/ hold[<<r, 1>>].status = "releasing"
     /\ (env.db_errors > 0 \/ \E j \in 1 .. n : queue[j].key = <<r, 1>>)

RetriesAgree ==
  /\ \A r \in Requests : req[r].pc = "locked_answer" => FirstSettledWithin(r, Len(queue))
  /\ \A r \in Requests, i \in 1 .. Len(queue) :
       queue[i].key = <<r, 2>> /\ queue[i].type = "lock" => FirstSettledWithin(r, i - 1)

(* The channel, the requests and the locks always tell the same story:     *)
(* every event in flight names a lock in the state it expects, for the     *)
(* amounts the lock really took, and no lock has two events in flight.     *)
ChannelAgrees ==
  (\A r \in Requests : RequestAgrees(r)) /\ QueueAgrees /\ RetriesAgree

AwaitingNode(r) == req[r].pc \in {"forwarded", "streaming"}

(* A lock that was granted is settled in the end, unless a statement fails *)
(* or the proxy crashes, or the node it was forwarded to stays silent for  *)
(* ever: the error paths of the middleware, the handlers and the streamer  *)
(* all settle.  Two ways out of a request are no error paths and settle    *)
(* nothing: a body that the extractor turns down, and an answer whose hash *)
(* does not decode, unless it is streamed, for the Streamer is dropped.    *)
HoldsAreReleased ==
  \A r \in Requests \ (UnreadableBodies \cup UndecodableHashes) : \A a \in {1, 2} :
    \/ <>[]AwaitingNode(r)
    \/ <>(env.db_errors > 0 \/ env.crashes > 0)
    \/ hold[<<r, a>>].status = "held" ~> hold[<<r, a>>].status = "settled"

(* The same for every request: what the rollback comments of the           *)
(* middleware ask for.                                                     *)
EveryHoldIsReleased ==
  \A r \in Requests : \A a \in {1, 2} :
    \/ <>[]AwaitingNode(r)
    \/ hold[<<r, a>>].status = "held" ~> hold[<<r, a>>].status = "settled"

(* The balance each user sees implements the abstract ledger. *)
Ledger == INSTANCE FiatLedger WITH
  balance <- [u \in Users |-> fiat[u].usd_balance],
  state <- [k \in Reservations |->
              IF hold[k].status = "none" THEN "open"
              ELSE IF Outstanding(hold[k]) THEN "reserved" ELSE "charged"],
  amount <- [k \in Reservations |-> hold[k].input + hold[k].output]

(* Billing implements the ledger: it reserves only credit that is there,   *)
(* once per attempt, and replaces each reservation by one charge.          *)
ImplementsLedger == Ledger!Spec
=============================================================================
