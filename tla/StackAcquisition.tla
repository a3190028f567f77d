-------------------------- MODULE StackAcquisition --------------------------
(***************************************************************************)
(* The TOO_EARLY branch of handle_locked_stack_middleware: a request whose *)
(* node was overbooked is run again on a stack.  It takes compute units of *)
(* a stack the user owns or, when none has room, buys a stack: the request *)
(* that gets the buy lock pays in USDC, buys on chain and stores the row;  *)
(* the others poll for that row.  The model is about one user and one      *)
(* task, the key of users_buy_stack_lock_map; keys do not interfere.       *)
(***************************************************************************)
EXTENDS Integers, Sequences, Sums

CONSTANTS
  Requests,      \* requests of the user that were answered TOO_EARLY
  UndecodableHashes,  \* those whose node may send a response hash that is not base64
  NoRequest,     \* nobody
  Tokens,        \* estimates: num_input_tokens + max_output_tokens
  Prices,        \* what a stack costs, by the node that is cheapest
  StackSize,     \* STACK_SIZE_TO_BUY
  InitialUsdc,   \* usdc_balance at first
  MaxStacks,     \* bound on the stacks bought
  MaxAttempts,   \* MAX_STACK_WAIT_ATTEMPTS
  MaxUse,        \* bound on the tokens a node reports
  MaxErrors,     \* bound on database errors
  MaxCrashes     \* bound on crashes of the proxy

ASSUME NoRequestAssumption == NoRequest \notin Requests
ASSUME TokensAssumption == Tokens \subseteq Nat
ASSUME PricesAssumption == Prices \subseteq Nat
ASSUME SizesAssumption ==
  /\ StackSize \in Nat /\ InitialUsdc \in Nat /\ MaxStacks \in Nat
  /\ MaxAttempts \in Nat /\ MaxUse \in Nat
  /\ MaxErrors \in Nat /\ MaxCrashes \in Nat

Stacks == 1 .. MaxStacks
NoStack == 0

VARIABLES
  pc,            \* where the tasks of a request are
  tokens,        \* its estimate
  price,         \* what the stack it buys costs
  stack,         \* the stack it was given
  tries,         \* how often it asked for the stack another request buys
  buyer,         \* users_buy_stack_lock_map: who holds the LockGuard
  sui,           \* who holds the write lock of the wallet
  usdc,          \* crypto_balances.usdc_balance
  bought,        \* how many stacks were bought on chain
  rows,          \* which of them have a row in the table stacks
  computed,      \* already_computed_units of a row
  locked,        \* locked_compute_units of a row
  closed,        \* is_locked, is_claimed or in_settle_period
  queue,         \* the channel to the state manager
  hold,          \* history: the stack that a request has units of
  reported,      \* history: the tokens that the node of a request reported
  spent,         \* history: what the rows cost
  lost,          \* history: what was paid and is neither a row nor refunded
  errors,        \* how many database errors there were
  crashes        \* how often the proxy stopped

request == <<pc, tokens, price, stack, tries>>
table == <<rows, computed, locked, closed>>
money == <<usdc, spent, lost>>
outside == <<reported, errors, crashes>>
vars == <<request, buyer, sui, money, bought, table, queue, hold, outside>>

Init ==
  /\ pc = [r \in Requests |-> "too_early"]
  /\ tokens \in [Requests -> Tokens]
  /\ price = [r \in Requests |-> 0]
  /\ stack = [r \in Requests |-> NoStack]
  /\ tries = [r \in Requests |-> 0]
  /\ buyer = NoRequest /\ sui = NoRequest
  /\ usdc = InitialUsdc
  /\ bought = 0
  /\ rows = {}
  /\ computed = [s \in Stacks |-> 0]
  /\ locked = [s \in Stacks |-> 0]
  /\ closed = {}
  /\ queue = <<>>
  /\ hold = [r \in Requests |-> NoStack]
  /\ reported = [r \in Requests |-> 0]
  /\ spent = 0 /\ lost = 0
  /\ errors = 0 /\ crashes = 0

(* What the buyer has paid and has neither a row nor a refund for. *)
Paying == {"buying", "on_chain", "storing", "not_acquired", "refunding"}
InFlight == IF buyer \in Requests /\ pc[buyer] \in Paying THEN price[buyer] ELSE 0

Goto(r, label) == pc' = [pc EXCEPT ![r] = label]

(* An event: which operation, for whom, and what a settlement charges. *)
Send(op, r, used) == queue' = Append(queue, [op |-> op, r |-> r, used |-> used])

-----------------------------------------------------------------------------
(* The request: a stack the user owns.                                     *)

(* get_node_metadata_from_state_manager. *)
HandleTooEarly(r) ==
  /\ pc[r] = "too_early"
  /\ Send("GetStacksForModel", r, 0)
  /\ Goto(r, "selecting")
  /\ UNCHANGED <<tokens, price, stack, tries, buyer, sui, money, bought, table, hold, outside>>

(* No stack has room: whose stack would be bought? *)
get_cheapest_node(r) ==
  /\ pc[r] = "no_stack"
  /\ \/ /\ \E p \in Prices : price' = [price EXCEPT ![r] = p]
        /\ Goto(r, "locking")
     \/ /\ Goto(r, "ended")
        /\ UNCHANGED price
  /\ UNCHANGED <<tokens, stack, tries, buyer, sui, money, bought, table, queue, hold, outside>>

(* Mutant: the entry is not looked at. *)
try_lock_Always(r) ==
  /\ pc[r] = "locking"
  /\ buyer' = r /\ Send("DeductFromUsdc", r, 0) /\ Goto(r, "deducting")
  /\ UNCHANGED <<tokens, price, stack, tries, sui, money, bought, table, hold, outside>>

(* LockGuard::try_lock.  The one that gets the lock spawns the task of     *)
(* acquire_new_stack, which begins with deduct_usdc.                       *)
try_lock(r) ==
  /\ pc[r] = "locking"
  /\ IF buyer = NoRequest
       THEN buyer' = r /\ Send("DeductFromUsdc", r, 0) /\ Goto(r, "deducting")
       ELSE Goto(r, "not_locked") /\ UNCHANGED <<buyer, queue>>
  /\ UNCHANGED <<tokens, price, stack, tries, sui, money, bought, table, hold, outside>>

-----------------------------------------------------------------------------
(* The request: a stack that another request is buying.                    *)

AskForStack(r) ==
  /\ tries' = [tries EXCEPT ![r] = @ + 1]
  /\ Send("GetStacksForTask", r, 0)
  /\ Goto(r, "polling")

GiveUp(r) == Goto(r, "refused") /\ UNCHANGED <<tries, queue>>

(* The map is read a second time: the lock may be free by now. *)
get_stack_if_locked(r) ==
  /\ pc[r] = "not_locked"
  /\ IF buyer # NoRequest THEN AskForStack(r) ELSE GiveUp(r)
  /\ UNCHANGED <<tokens, price, stack, buyer, sui, money, bought, table, hold, outside>>

(* Mutant: it asks for ever. *)
PollAgain_ForEver(r) ==
  /\ pc[r] = "sleeping"
  /\ Send("GetStacksForTask", r, 0)
  /\ Goto(r, "polling")
  /\ UNCHANGED <<tokens, price, stack, tries, buyer, sui, money, bought, table, hold, outside>>

(* After MAX_STACK_WAIT_TIME. *)
PollAgain(r) ==
  /\ pc[r] = "sleeping"
  /\ IF tries[r] < MaxAttempts THEN AskForStack(r) ELSE GiveUp(r)
  /\ UNCHANGED <<tokens, price, stack, buyer, sui, money, bought, table, hold, outside>>

-----------------------------------------------------------------------------
(* The task of the buyer.                                                  *)

(* The wallet is locked for the whole call. *)
acquire_new_stack_entry(r) ==
  /\ pc[r] = "buying" /\ sui = NoRequest
  /\ sui' = r
  /\ Goto(r, "on_chain")
  /\ UNCHANGED <<tokens, price, stack, tries, buyer, money, bought, table, queue, hold, outside>>

(* The transaction is executed and names the stack, which is sent to be    *)
(* stored, or it lacks the event with the name, which is an error.         *)
ChainBuys(r) ==
  /\ pc[r] = "on_chain" /\ bought < MaxStacks
  /\ bought' = bought + 1
  /\ sui' = NoRequest
  /\ \/ /\ stack' = [stack EXCEPT ![r] = bought + 1]
        /\ Send("NewStackAcquired", r, 0)
        /\ Goto(r, "storing")
     \/ /\ Goto(r, "not_acquired")
        /\ UNCHANGED <<stack, queue>>
  /\ UNCHANGED <<tokens, price, tries, buyer, money, table, hold, outside>>

(* An error before the transaction is submitted: no coins, no connection. *)
ChainRefuses(r) ==
  /\ pc[r] = "on_chain"
  /\ sui' = NoRequest
  /\ Goto(r, "not_acquired")
  /\ UNCHANGED <<tokens, price, stack, tries, buyer, money, bought, table, queue, hold, outside>>

(* The transaction fails: execute_transaction_must_succeed returns no      *)
(* error, it panics.  The task unwinds, which drops the guards.            *)
TransactionFails(r) ==
  /\ pc[r] = "on_chain"
  /\ sui' = NoRequest /\ buyer' = NoRequest
  /\ Goto(r, "ended")
  /\ lost' = lost + price[r]
  /\ UNCHANGED <<tokens, price, stack, tries, usdc, spent, bought, table, queue, hold, outside>>

(* acquire_new_stack_on_usdc_deduction_wrapper, after any error. *)
refund_usdc(r) ==
  /\ pc[r] = "not_acquired"
  /\ Send("RefundUsdc", r, 0)
  /\ Goto(r, "refunding")
  /\ UNCHANGED <<tokens, price, stack, tries, buyer, sui, money, bought, table, hold, outside>>

(* Mutant: an error keeps the lock. *)
DropLockGuard_OnSuccess(r) ==
  /\ pc[r] \in {"stored", "not_bought"}
  /\ buyer' = IF pc[r] = "stored" THEN NoRequest ELSE buyer
  /\ Goto(r, IF pc[r] = "stored" THEN "selected" ELSE "ended")
  /\ UNCHANGED <<tokens, price, stack, tries, sui, money, bought, table, queue, hold, outside>>

(* The task ends, with a stack or without, and drops the guard. *)
DropLockGuard(r) ==
  /\ pc[r] \in {"stored", "not_bought"}
  /\ buyer' = NoRequest
  /\ Goto(r, IF pc[r] = "stored" THEN "selected" ELSE "ended")
  /\ UNCHANGED <<tokens, price, stack, tries, sui, money, bought, table, queue, hold, outside>>

-----------------------------------------------------------------------------
(* The request: it has units of a stack.                                   *)

(* Mutant: a request that is not sent keeps its units. *)
try_validate_stack_for_request_NoRollback(r) ==
  /\ pc[r] = "selected"
  /\ \/ sui = NoRequest /\ Goto(r, "handling")
     \/ Goto(r, "ended")
  /\ UNCHANGED <<tokens, price, stack, tries, buyer, sui, money, bought, table, queue, hold,
                 outside>>

(* The node's address is looked up and the body signed with the wallet, or *)
(* the units are given back.                                               *)
try_validate_stack_for_request(r) ==
  /\ pc[r] = "selected"
  /\ \/ sui = NoRequest /\ Goto(r, "handling") /\ UNCHANGED queue
     \/ Send("UpdateStackNumTokens", r, 0) /\ Goto(r, "ended")
  /\ UNCHANGED <<tokens, price, stack, tries, buyer, sui, money, bought, table, hold, outside>>

(* The handler settles what the node reports, or nothing when it fails. *)
HandlerAnswers(r) ==
  /\ pc[r] = "handling"
  /\ \E used \in 0 .. MaxUse :
       /\ Send("UpdateStackNumTokens", r, used)
       /\ reported' = [reported EXCEPT ![r] = used]
  /\ Goto(r, "ended")
  /\ UNCHANGED <<tokens, price, stack, tries, buyer, sui, money, bought, table, hold, outside>>

(* The hash of an answer that is not streamed is no base64: the task of    *)
(* the handler panics, and what it would have given back stays locked.     *)
HandlerPanics(r) ==
  /\ r \in UndecodableHashes
  /\ pc[r] = "handling"
  /\ Goto(r, "ended")
  /\ UNCHANGED <<tokens, price, stack, tries, buyer, sui, money, bought, table, queue, hold,
                 outside>>

-----------------------------------------------------------------------------
(* The state manager: one event at a time, and its answer.                 *)

(* The CHECK of the table, of a row with these units. *)
CheckHolds(computed_units, locked_units) == computed_units + locked_units <= StackSize

Free(s) == StackSize - computed[s] - locked[s]
Fits(s, r) == s \in rows \ closed /\ Free(s) >= tokens[r]

Event(op) == queue # <<>> /\ Head(queue).op = op
Answer(label) == queue' = Tail(queue) /\ Goto(Head(queue).r, label)

(* get_stacks_for_model and get_stacks_for_task take units of any stack    *)
(* that has room, which the database picks, if the CHECK lets them.        *)
TakeUnits(none) ==
  LET r == Head(queue).r IN
  /\ IF \E s \in Stacks : Fits(s, r)
       THEN \E s \in Stacks :
              /\ Fits(s, r)
              /\ IF CheckHolds(computed[s], locked[s] + tokens[r])
                   THEN /\ locked' = [locked EXCEPT ![s] = @ + tokens[r]]
                        /\ stack' = [stack EXCEPT ![r] = s]
                        /\ hold' = [hold EXCEPT ![r] = s]
                        /\ Answer("selected")
                   ELSE Answer("ended") /\ UNCHANGED <<locked, stack, hold>>
       ELSE Answer(none) /\ UNCHANGED <<locked, stack, hold>>
  /\ UNCHANGED <<tokens, price, tries, buyer, sui, money, bought, rows, computed, closed, outside>>

get_stacks_for_model == Event("GetStacksForModel") /\ TakeUnits("no_stack")
get_stacks_for_task == Event("GetStacksForTask") /\ TakeUnits("sleeping")

CanPay(r) == usdc >= price[r]

deduct_from_usdc ==
  LET r == Head(queue).r IN
  /\ Event("DeductFromUsdc")
  /\ IF CanPay(r)
       THEN /\ usdc' = usdc - price[r]
            /\ Answer("buying")
       ELSE Answer("not_bought") /\ UNCHANGED usdc
  /\ UNCHANGED <<tokens, price, stack, tries, buyer, sui, spent, lost, bought, table, hold,
                 outside>>

(* Mutant: the units of the request are not locked in the row. *)
InitialLock_None(r) == 0

InitialLock(r) == tokens[r]

(* insert_new_stack: the row comes with the units of the request locked,   *)
(* and the CHECK of the table refuses more units than the stack has.       *)
NewStackAcquired ==
  LET r == Head(queue).r s == stack[r] IN
  /\ Event("NewStackAcquired")
  /\ IF CheckHolds(computed[s], tokens[r])
       THEN /\ rows' = rows \cup {s}
            /\ locked' = [locked EXCEPT ![s] = InitialLock(r)]
            /\ hold' = [hold EXCEPT ![r] = s]
            /\ spent' = spent + price[r]
            /\ Answer("stored")
       ELSE Answer("not_acquired") /\ UNCHANGED <<rows, locked, hold, spent>>
  /\ UNCHANGED <<tokens, price, stack, tries, buyer, sui, usdc, lost, bought, computed, closed,
                 outside>>

(* Mutant: the refund is for the units of the request. *)
Refund_Tokens(r) == tokens[r]

Refund(r) == price[r]

RefundUsdc ==
  LET r == Head(queue).r IN
  /\ Event("RefundUsdc")
  /\ usdc' = usdc + Refund(r)
  /\ Answer("not_bought")
  /\ UNCHANGED <<tokens, price, stack, tries, buyer, sui, spent, lost, bought, table, hold,
                 outside>>

(* Mutant: the estimate is charged. *)
update_stack_num_tokens_Estimate ==
  LET r == Head(queue).r s == stack[r] IN
  /\ Event("UpdateStackNumTokens")
  /\ IF s \in rows
       THEN /\ computed' = [computed EXCEPT ![s] = @ + tokens[r]]
            /\ locked' = [locked EXCEPT ![s] = @ - tokens[r]]
            /\ hold' = [hold EXCEPT ![r] = NoStack]
       ELSE UNCHANGED <<computed, locked, hold>>
  /\ queue' = Tail(queue)
  /\ UNCHANGED <<request, buyer, sui, money, bought, rows, closed, outside>>

(* The CHECK refuses a settlement that does not fit: the error is logged   *)
(* and the units stay locked.                                              *)
update_stack_num_tokens ==
  LET r == Head(queue).r s == stack[r] used == Head(queue).used IN
  /\ Event("UpdateStackNumTokens")
  /\ IF s \in rows /\ CheckHolds(computed[s] + used, locked[s] - tokens[r])
       THEN /\ computed' = [computed EXCEPT ![s] = @ + used]
            /\ locked' = [locked EXCEPT ![s] = @ - tokens[r]]
            /\ hold' = [hold EXCEPT ![r] = NoStack]
       ELSE UNCHANGED <<computed, locked, hold>>
  /\ queue' = Tail(queue)
  /\ UNCHANGED <<request, buyer, sui, money, bought, rows, closed, outside>>

(* Mutant: a stack that could not be stored is used. *)
AfterError_Ignored(op) ==
  CASE op = "NewStackAcquired" -> "stored"
    [] op \in {"DeductFromUsdc", "RefundUsdc"} -> "not_bought"
    [] OTHER -> "ended"

(* What a request does when the state manager answers with an error. *)
AfterError(op) ==
  CASE op = "NewStackAcquired" -> "not_acquired"
    [] op \in {"DeductFromUsdc", "RefundUsdc"} -> "not_bought"
    [] OTHER -> "ended"

(* Any statement may fail.  A refund that fails is only logged. *)
DatabaseError ==
  /\ queue # <<>> /\ errors < MaxErrors
  /\ errors' = errors + 1
  /\ LET e == Head(queue) IN
     /\ IF e.op = "UpdateStackNumTokens"
          THEN queue' = Tail(queue) /\ UNCHANGED pc
          ELSE Answer(AfterError(e.op))
     /\ lost' = IF e.op = "RefundUsdc" THEN lost + price[e.r] ELSE lost
  /\ UNCHANGED <<tokens, price, stack, tries, buyer, sui, usdc, spent, bought, table, hold,
                 reported, crashes>>

-----------------------------------------------------------------------------
(* The environment.                                                        *)

(* A LockStack event, or the chain's settlement of the stack. *)
CloseStack(s) ==
  /\ s \in rows \ closed
  /\ closed' = closed \cup {s}
  /\ UNCHANGED <<request, buyer, sui, money, bought, rows, computed, locked, queue, hold, outside>>

(* The proxy stops: tables and chain remain, and requests may still come. *)
Crash ==
  /\ crashes < MaxCrashes
  /\ crashes' = crashes + 1
  /\ pc' = [r \in Requests |-> IF pc[r] = "too_early" THEN pc[r] ELSE "ended"]
  /\ queue' = <<>> /\ buyer' = NoRequest /\ sui' = NoRequest
  /\ lost' = lost + InFlight
  /\ UNCHANGED <<tokens, price, stack, tries, usdc, spent, bought, table, hold, reported, errors>>

-----------------------------------------------------------------------------
RequestStep(r) ==
  \/ HandleTooEarly(r) \/ get_cheapest_node(r) \/ try_lock(r)
  \/ get_stack_if_locked(r) \/ PollAgain(r)
  \/ acquire_new_stack_entry(r) \/ refund_usdc(r) \/ DropLockGuard(r)
  \/ try_validate_stack_for_request(r)

(* Steps that wait for the chain or for a node. *)
ChainStep(r) == ChainBuys(r) \/ ChainRefuses(r) \/ TransactionFails(r)

HandlerStep(r) == HandlerAnswers(r) \/ HandlerPanics(r)

StateManagerStep ==
  \/ get_stacks_for_model \/ get_stacks_for_task \/ deduct_from_usdc
  \/ NewStackAcquired \/ RefundUsdc \/ update_stack_num_tokens

Next ==
  \/ \E r \in Requests : RequestStep(r) \/ ChainStep(r) \/ HandlerStep(r)
  \/ StateManagerStep
  \/ DatabaseError
  \/ \E s \in Stacks : CloseStack(s)
  \/ Crash

Spec == Init /\ [][Next]_vars

(* The runtime schedules the tasks and the state manager; nothing makes    *)
(* the chain or a node answer.                                             *)
FairSpec ==
  /\ Spec
  /\ \A r \in Requests : WF_vars(RequestStep(r))
  /\ WF_vars(StateManagerStep)

-----------------------------------------------------------------------------
Buying == Paying \cup {"deducting", "stored", "not_bought"}
Labels == Buying \cup {"too_early", "selecting", "no_stack", "locking", "not_locked",
                       "polling", "sleeping", "refused", "selected", "handling", "ended"}
Ops == {"GetStacksForModel", "GetStacksForTask", "DeductFromUsdc", "NewStackAcquired",
        "RefundUsdc", "UpdateStackNumTokens"}

(* Types of the requests, the locks, the tables and the channel; the USDC  *)
(* balance is never negative.                                              *)
TypeOK ==
  /\ pc \in [Requests -> Labels]
  /\ tokens \in [Requests -> Tokens]
  /\ price \in [Requests -> Nat]
  /\ stack \in [Requests -> Stacks \cup {NoStack}]
  /\ tries \in [Requests -> Nat]
  /\ buyer \in Requests \cup {NoRequest} /\ sui \in Requests \cup {NoRequest}
  /\ usdc \in Nat /\ spent \in Nat /\ lost \in Nat
  /\ bought \in 0 .. MaxStacks
  /\ rows \subseteq Stacks /\ closed \subseteq rows
  /\ computed \in [Stacks -> Nat]
  /\ locked \in [Stacks -> Int]
  /\ queue \in Seq([op : Ops, r : Requests, used : Nat])
  /\ hold \in [Requests -> Stacks \cup {NoStack}]
  /\ reported \in [Requests -> Nat]
  /\ errors \in 0 .. MaxErrors /\ crashes \in 0 .. MaxCrashes

(* Between try_lock and the drop of the guard, whatever fails or panics in *)
(* between, exactly one request pays, buys and stores; and the lock is not *)
(* held for a request that is done.                                        *)
OneBuyer ==
  /\ \A r \in Requests : pc[r] \in Buying => buyer = r
  /\ buyer # NoRequest => pc[buyer] \in Buying
  /\ sui # NoRequest => pc[sui] = "on_chain"

(* Every unit of USDC is still in the balance, in the hands of the one     *)
(* request that is buying, in a stored stack, or was lost to a fault: a    *)
(* refund gives back what the deduction took, once.                        *)
UsdcAccounted == usdc + InFlight + spent + lost = InitialUsdc

(* The units locked in a row are those of the requests that have taken     *)
(* units of it and have not been settled.                                  *)
UnitsMatch ==
  \A s \in rows : locked[s] = SumOver(tokens, {r \in Requests : hold[r] = s})

(* The requests that used units of a stack and hold none of it any more. *)
UsersOf(s) == {r \in Requests : stack[r] = s /\ hold[r] = NoStack /\ reported[r] > 0}

(* The computed units of a row are what the nodes reported for the         *)
(* requests whose units it got back: however the events of requests        *)
(* interleave, and whichever of them the CHECK, an error or a crash keeps  *)
(* from the row, usage is charged when the estimate is released, once and  *)
(* to the stack that gave the units, or not at all.                        *)
UsageMatches == \A s \in rows : computed[s] = SumOver(reported, UsersOf(s))

(* An event in the channel finds its request where it waits for it, a      *)
(* settlement finds the units it will release, and a request has one event *)
(* in the channel at most, across retries of the poll and failures.        *)
WaitsFor(op) ==
  CASE op = "GetStacksForModel" -> "selecting"
    [] op = "GetStacksForTask" -> "polling"
    [] op = "DeductFromUsdc" -> "deducting"
    [] op = "NewStackAcquired" -> "storing"
    [] op = "RefundUsdc" -> "refunding"
    [] op = "UpdateStackNumTokens" -> "ended"
QueueAgrees ==
  \A i \in 1 .. Len(queue) :
    /\ pc[queue[i].r] = WaitsFor(queue[i].op)
    /\ queue[i].op = "UpdateStackNumTokens" =>
         hold[queue[i].r] = stack[queue[i].r] /\ stack[queue[i].r] \in rows
OneEventEach ==
  \A i, j \in 1 .. Len(queue) : queue[i].r = queue[j].r => i = j
HoldsAgree ==
  \A r \in Requests :
    /\ hold[r] \in rows \cup {NoStack}
    /\ pc[r] \in {"stored", "selected", "handling"} =>
         stack[r] \in rows /\ hold[r] = stack[r]
    /\ pc[r] = "storing" => stack[r] \in (1 .. bought) \ rows
    /\ pc[r] \notin {"stored", "selected", "handling", "ended"} => hold[r] = NoStack
EventsAgree ==
  /\ QueueAgrees /\ OneEventEach /\ HoldsAgree
  /\ rows \subseteq 1 .. bought

(* The lock does not stay taken, unless the chain never answers.           *)
BuyLockIsReleased == []<>(buyer = NoRequest) \/ <>[](sui # NoRequest)

OverUse == \E i \in DOMAIN queue : queue[i].used > tokens[queue[i].r]

(* A request that took units, and whose node uses no more than the         *)
(* estimate, gives them back, unless a statement fails or the proxy        *)
(* crashes, or its node or the chain never answers: a purchase that hangs  *)
(* keeps every request from being signed.  A handler that panics over the  *)
(* hash of the answer gives nothing back.                                  *)
UnitsAreReleased ==
  \A r \in Requests \ UndecodableHashes :
    \/ []<>(hold[r] = NoStack)
    \/ <>(errors > 0 \/ crashes > 0 \/ OverUse)
    \/ <>[](pc[r] = "handling")
    \/ <>[](sui # NoRequest)

(* Every request comes to an end, with the same two exceptions.            *)
RequestsEnd ==
  \A r \in Requests :
    \/ <>(pc[r] \in {"ended", "refused"})
    \/ <>[](pc[r] = "handling")
    \/ <>[](sui # NoRequest)
=============================================================================
