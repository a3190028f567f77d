# A verification project for atoma-proxy

atoma-proxy stands between clients of an OpenAI-style API and the nodes of the
Atoma network.  It authenticates a request, estimates what it will cost, takes
that estimate out of the user's credit, forwards the request to a node, and
replaces the estimate by what the node reports.  This directory holds TLA+
modules that model that machinery, TLC configurations that check them on small
instances, and TLAPS proofs that hold for every value of the constants.

## Inventory

| Component | State it keeps | Operations | Hard because |
|---|---|---|---|
| Fiat billing (`middleware.rs`, `handlers/*.rs`, `state_manager.rs`) | rows of `fiat_balances`, `usage_per_day`, `usage_per_model`; events in the channel; metadata carried by each request | lock an estimate, roll it back, settle it | requests of a user interleave; the estimate is priced twice; a LOCKED answer locks again; statements commit one by one; a crash loses the channel and not the rows |
| Response streamer (`streamer.rs`) | chunk buffer, keep-alive position, usage seen so far, generated tokens | forward a chunk, handle the final chunk, settle on drop, kill signal | chunks are split anywhere; the client leaves at any time; exactly one settlement is due |
| Stack billing (`middleware.rs`, `state_manager.rs`) | rows of `stacks`: computed, locked and bought units | lock units, settle, mark a stack locked | the CHECK constraint of the table can refuse a settlement |
| Stack acquisition (`middleware.rs`) | the set of users that are buying, USDC balances, the stack bought on chain | deduct, buy, insert, refund; poll for someone else's purchase | purchase, row and refund are separate steps that fail separately |
| Confidential locks (`nodes.rs`, `middleware.rs`) | an in-memory heap of locked units with expiry, beside the units locked in the table | create a lock, consume it, prune expired ones | two records of one lock, one of which dies with the process |
| State manager loop (`state_manager.rs`, `handlers.rs`) | the consumer of chain, p2p and proxy events | one event at a time; shutdown | an error ends the loop for one source and is logged for the others |
| Chain events, settlement tickets (`atoma-state/src/handlers.rs`) | `tasks`, `node_subscriptions`, `stacks`, `stack_settlement_tickets`, attestation disputes, `stats_stacks` | register, subscribe, create, settle, attest, dispute, claim | an event is lost when a statement fails, and comes again after a restart |
| Node registration, key rotation | `nodes`, `node_public_keys`, `key_rotations` | register, rotate, attest, update a key; announce an address over p2p or HTTP | a key of an old rotation must not be used; announcements have no order |
| Authentication (`auth.rs`) | refresh tokens, API tokens, wallet addresses, zkLogin salts | register, log in, make and revoke tokens, set the address, get the salt | tokens are stored by events nobody awaits; the salt is read and written in two steps |
| USDC payments (`auth.rs`, `sui/mod.rs`) | `usdc_payment_digests`, `crypto_balances` | record the digest, verify the transfer, credit it | the digest is recorded before the transfer is verified |
| Process supervision (`main.rs`) | six tasks, the shutdown signal, what `main` returns | a task that fails, or ctrl-c, takes the others down | tasks stop in any order, with work in flight between them |
| Proxy service queries, metrics registries, configuration, OpenAPI | none of their own | queries, counters, static values | (not modelled) |

How they interact: every handler talks to the state manager through one
unbounded channel of events.  An event either carries a oneshot channel for its
answer (a lock) or carries none (a settlement).  The state manager handles one
event at a time; everything else, the handlers and the middleware, runs in
tokio tasks of its own and interleaves at every await.

## Modules

| Module | What it is |
|---|---|
| `Sums` | sums over a set of keys, without recursion |
| `FiatLedger` | the abstract specification: reservations of credit that become charges |
| `FiatBilling` | the detailed specification of fiat billing, its properties and their inductive strengthening |
| `SumTheorems` | how a sum changes when a key joins, leaves or changes; a bounded set of naturals has a largest member |
| `FiatBilling_proofs` | the theorems about `FiatBilling` |
| `Streamer` | one streamed answer: the streamer, its task, the client and the settlement |
| `StreamBilling` | `FiatBilling` with a `Streamer` in place of the streaming steps of a request |
| `Streamer_proofs` | the theorems about `Streamer` and `StreamBilling` |
| `StackAcquisition` | requests that take units of a stack, or buy one, with the rows of `stacks` and the USDC balance |
| `StackAcquisition_proofs` | the theorems about `StackAcquisition` |
| `ConfidentialLock` | locks of compute units for confidential requests, in the table and in memory |
| `ConfidentialLock_proofs` | the theorems about `ConfidentialLock` |
| `NodeKeys` | key rotations, the nodes' public keys and which of them are given out |
| `NodeKeys_proofs` | the theorems about `NodeKeys` |
| `ChainEvents` | the handlers of chain events and the tables they keep |
| `ChainEvents_proofs` | the theorems about `ChainEvents` |
| `Accounts` | logins, tokens, wallets, salts and deposits of USDC |
| `Accounts_proofs` | the theorems about `Accounts` |
| `Supervision` | the tasks of the process, the loop of the state manager, shutdown |
| `MC*` | the instances that TLC checks |

The modules meet at seams.  `FiatBilling` has a stream as
two steps of a request, its settlement by the final chunk or by the drop;
`Streamer` is what happens in between, and shows that exactly one of the two
happens.  `StreamBilling` puts the two together and shows that billing cannot tell
the difference.  `FiatBilling` ends a request that was answered TOO_EARLY once its
estimate is rolled back; `StackAcquisition` begins there.  `ConfidentialLock` uses
the same rows of `stacks` and takes a purchase as one step that succeeds or
fails, which is what `StackAcquisition` opens up; the key it gives out is chosen
as in `NodeKeys`.  `ChainEvents` keeps the flags that take a stack out of the
queries of both.  Every module has the state manager as the one consumer of a
FIFO channel whose errors are logged; `Supervision` is where that loop ends.

### FiatBilling

State and code:

| Variable | Code |
|---|---|
| `fiat` | the table `fiat_balances`, `unsettled_*` for `overcharged_unsettled_*_amount`, `debited_*` for `already_debited_*_amount` |
| `usage` | `usage_per_day` (for one day and model) and `usage_per_model` |
| `queue` | the channel `state_manager_sender` / `state_manager_receiver` |
| `req` | where the tasks of a request are, with the fields of `RequestMetadataExtension` that billing reads |
| `hold`, `excess` | history: what each lock took and what it was settled with; usage above the estimate |
| `env` | counters of payments, database errors and crashes, which bound them |

A request goes through `authenticate_and_lock_compute_units` (the event with
its oneshot channel), the state manager's `lock_user_fiat_balance`, then
`create_fiat_request` in the middleware, and reaches a handler.
`HandlerFails`, `HandlerSucceeds`, `handle_final_chunk` and `DropStreamer` send
the one settlement; `ExtractorRejects` is the refusal of a body before the handler
runs, which a request of `UnreadableBodies` may meet and which settles nothing.
`HandlerPanics` is the hash that is no base64 in an answer that is not streamed, for
a request of `UndecodableHashes`: `verify_response_hash_and_signature` unwraps the
decoding (`handlers/mod.rs:236`), the spawned task of the handler is gone before it
settles, and whoever awaits it answers with an error and rolls nothing back.
`HandleLocked` and `HandleTooEarly` are the two branches of
`handle_locked_stack_middleware`: the first locks a second time, the second
leaves the fiat balance for a stack.  `DatabaseError` fails any statement of
an event, with the statements before it committed; `Crash` drops channel and
tasks.  A client that disconnects is no action: the middleware and the handlers
run in spawned tasks that a disconnect does not cancel.

What is abstracted: tokens and prices are small numbers and ONE_MILLION is
scaled down with them, so that the rounding of the integer division still
happens; model names, bodies, signatures and node addresses are left out; one
day and one model stand for all.  The i64 width of the amounts is left out: an
overflow needs a product of tokens and price above 2^63.

### Streamer

One streamed answer: the task that `handle_streaming_response` spawns, with its
`select!` of the next chunk and the kill signal, the `Streamer` that it polls and
drops, and the `ClientStreamer` on the other side of the event channel.

| Variable | Code |
|---|---|
| `status`, `keep_alive_pos`, `buffered`, `usage`, `generated`, `final_handled` | the fields of `Streamer`: `status`, `keep_alive_pos`, whether `chunk_buffer` is empty, the last usage, `num_generated_tokens`, `is_final_chunk_handled` |
| `task` | the spawned loop: running, waiting for the node's answer to the stop, ended (the loop has left), dropped (`Drop for Streamer` has run) |
| `client`, `events`, `delivered`, `kill` | `ClientStreamer`, the event channel, the kill channel |
| `stop_sent` | the stop request to the node |
| `manager`, `settled` | whether the state manager still receives, and the settlements sent to it |
| `reported`, `done_sent`, `cut` | history of the byte stream: the last usage that parsed, whether DONE was in it, whether a chunk interrupted a keep-alive |

The network may cut the byte stream anywhere.  A chunk is either a run of the
keep-alive comment, given by the positions where it begins and ends, or data,
given by how it parses: alone, joined with what is buffered, whether its hash and
signature verify, and the usage it carries.  Each outcome of `handle_streaming_chunk`
is an action: `KeepAlive`, `KeepAliveInterrupted`, `ChunkRefused`, `ChunkPanics` (a hash
that is no base64: the unwinding task drops the `Streamer`, which settles),
`ChunkBuffered`, `ChunkPassedOn`, `ChunkDone`; `StreamEnds` is the end or the error of the
connection, and `PollCompleted` the poll of a stream whose final chunk failed.
`DropStreamer`, `HandleKill`, `StopAnswered` and `ClientLeaves` are the two `Drop`s and
the kill branch of the loop.

### StreamBilling

`FiatBilling` as it is, but for one request `R`: once its handler has returned, its
stream is a `Streamer`.  The variables are those of the two modules (`rows` is the
`usage` of `FiatBilling`) and `asked`, the part of the request's metadata that
`Streamer::new` is given and keeps: estimates, prices and attempt.

| Step | What happens |
|---|---|
| `StreamStep` | any step of the `Streamer`, its task, the client or the kill; one that settles sends the event of billing (`Send`), with the tokens that `Charged` derives from the usage last reported or from the events passed on |
| `ProcessStops` | the process ends: the state manager of the `Streamer` stops and billing crashes, in one step |
| `BillingStep` | anything else that billing does, of any request, except ending the stream of `R` or the process it runs in |

A usage report is an element of `Usages` in `Streamer`; here it has its two numbers,
`PromptTokens` and `CompletionTokens`.  The streams of other requests remain the two
steps of `FiatBilling`, and the theorem that those steps are all that billing sees
holds for whichever request is `R`.

### StackAcquisition

The TOO_EARLY branch of `handle_locked_stack_middleware`, for one user and one
task: the pair is the key of `users_buy_stack_lock_map`, and the table rows of
other keys are not touched.

| Variable | Code |
|---|---|
| `pc`, `tokens`, `price`, `stack`, `tries` | where the tasks of a request are, its estimate, the price of the cheapest node, the stack it was given, its polls |
| `buyer` | the entry of `users_buy_stack_lock_map`, held by a `LockGuard` |
| `sui` | the write lock of the wallet, held for a whole purchase |
| `usdc` | `crypto_balances.usdc_balance` |
| `bought`, `rows` | stacks on chain, and those of them with a row in `stacks` |
| `computed`, `locked`, `closed` | `already_computed_units`, `locked_compute_units`, and the flags that take a row out of every query |
| `queue` | the channel to the state manager |
| `hold`, `spent`, `lost`, `reported` | history: whose units are locked in which row; what the rows cost; what was paid for nothing; the tokens a node reported |

A request asks for a stack (`HandleTooEarly`, `get_stacks_for_model`); without one
it picks the cheapest node and races for the lock (`try_lock`).  The winner
deducts, buys and stores (`deduct_from_usdc`, `acquire_new_stack_entry`, `ChainBuys`,
`NewStackAcquired`) or refunds (`refund_usdc`); its guard is dropped when its task
ends, also by the panic of `execute_transaction_must_succeed`
(`TransactionFails`).  The losers poll (`get_stack_if_locked`, `PollAgain`).
`CheckHolds` is the CHECK constraint of the table, under which every write of units
happens: `update_stack_num_tokens` settles, or is refused.  `HandlerPanics` is that of
`FiatBilling`: the units it would have given back stay locked.  The purchase runs in a spawned task, so that a client that
disconnects does not interrupt it; `Crash` does.

### ConfidentialLock

`POST /v1/nodes/lock` and the confidential endpoints, for one user and one task.

| Variable | Code |
|---|---|
| `pc`, `stack`, `units`, `endpoint` | a call for a lock, then the lock itself (its `LockedDetails`), or a confidential request with its metadata |
| `expired` | the locks whose `expires_at` has passed |
| `buyer` | the entry of `users_buy_stack_lock_map` |
| `rows`, `computed`, `locked`, `closed`, `bought` | the table `stacks` and the stacks on chain |
| `queue` | the channel to the state manager |
| `stranded` | history: units locked in a row that nothing will give back |
| `unbacked` | history: units of locks in memory that no row ever had locked |

`nodes_create_lock` prunes every heap and asks for a stack;
`select_node_public_key_for_encryption` locks units of one or answers that there is
none, after which the call buys (`try_lock`, `acquire_new_stack`, `NewStackAcquired`).
A lock in memory is consumed by `confidential_compute_middleware`, in one step
because the entry of the map is locked meanwhile, or expires and is pruned.
The handlers settle (`HandlerAnswers`, `HandlerFails`, `HandlerLocked`) or do not: after a
generated image (`ImageGenerated`), when their extractor refuses the body although
the middleware has consumed the lock (`ExtractorRejects`), and when they panic
(`HandlerPanics`, as in `FiatBilling`).  `stranded` makes explicit what the code
never gives back: the difference between a lock and the request that consumes
it, between the default and the size of a lock whose stack was bought, all units
of confidential embeddings (their estimate is zero), of generated images, of
refused bodies and of panics, what a failed statement or a crash leaves.

Nothing bounds what a client asks for, and nothing bounds `Tokens`.  A lock whose
stack was bought is in memory with the units the client named and in the row with
the default; what exceeds the default is in `unbacked`.  `PromisesFit` is stated with
it: promises exceed a stack by that and no more.  The cast of a request's 64-bit
number to the signed column is left out, so the model is about numbers below
2^63.

### NodeKeys

`rotations`, `counter`, `key` and `valid` are the columns of `key_rotations` and
`node_public_keys`; `evidence` is history.  The contract and the event subscriber
are external: `chain` is the sequence of events, `next` the event the state
manager is about to handle, `cursor` where the subscriber begins again.
`handle_node_key_rotation_event` has its three ways out: evidence that cannot be
read, evidence that fails in ppcie mode (the row stays), and a row with the
verdict.  The evidence is reduced to the nonce it was made for and one thing that
may be wrong with it.  `Selectable` is what the two queries may give out.

### ChainEvents

One variable per column that matters, one action per handler of
`handle_atoma_event`, and one operator per statement (`insert_new_task`,
`settle_stack_settlement_ticket`, ...), with what `ON CONFLICT`, a primary key or a
transaction does when an event comes again.  Stacks of this proxy reach the table
through `NewStackAcquired` (`handle_stack_created_event`), which is not replayed.
Chain and subscriber are external as in `NodeKeys`.

### Accounts

| Variable | Code |
|---|---|
| `pc`, `op`, `user`, `arg`, `tok`, `answer` | the calls of the dashboard API and of `check_auth` |
| `queue` | the channel to the state manager |
| `users`, `refresh`, `api`, `address`, `salt` | the tables of accounts and tokens |
| `digests`, `balance` | `usdc_payment_digests`, `crypto_balances` |
| `held`, `seen`, `credit` | history: tokens handed out, what the user of an API token knew, who was credited for a transfer |
| `kind` | external: what Sui says a transaction is |

A call sends an event and waits (`IsRefreshTokenValid`, `ConfirmUser`,
`InsertNewUsdcPaymentDigest`, ...) or sends it and returns (`StoreRefreshToken`,
`StoreNewApiToken`, `RevokeApiToken`, `UpdateSuiAddress`, `TopUpBalance`).  A refresh token
is the pair of user and second that its signature covers, so that equal tokens
happen.

`get_sui_address_from_signature` says who may have a signature from which a wallet's
address is read.  `Owns` are the pairs of a user and a wallet the user can sign for.
For a wallet with a key the code verifies that key's signature.  The address of a
zkLogin wallet (`ZkWallets`) is computed from the inputs that come with the
signature, and only the ephemeral key's signature of the message is verified
(`auth.rs:799-872`); the model therefore takes it from any user, and `CreditedOnce`
claims who is credited for wallets with a key only.

`GoogleOAuth` is the build: without the feature, `usdc_payment` refuses a proof as
`ZkLoginNotEnabled` after the digest was recorded (`auth.rs:1012`), and such a deposit
cannot be submitted again.  `DepositIsNotLost` says of a call with a proof what holds
in the build of the Dockerfile, which has the feature.  The run is about that build;
the theorems are about both.

### Supervision

`tasks` has the six tasks that `main` joins, `signal` the watch channel, `exit` the
result and `channel` the events of the servers.  `ManagerEnds` is what ends the loop: the signal, the end of the chain
channel, or an error of a p2p event (`handle_p2p_event`), which is not caught as
the others are.  `ServerStops` waits for the calls of its server, as axum's
graceful shutdown does.  The calls and the one node exist to see who waits for
whom: a call has a body that the client must send (`BodyArrives`), asks the state
manager, goes to a node (`CallNode`, `NodeAnswers`) or to Grafana (`GrafanaAnswers`), and
has a reply that the client must take (`ClientTakes`).  A node's answer may end in a
settlement or, after a panic or a confidential image, in none.  `BeginPing` and
`Pinged` are the task that pings the nodes, whose requests have a timeout.
External: how
`spawn_with_shutdown` turns a failure into the signal, and that an event left in a
channel without a receiver may be dropped or not.

## Runs

The instances of `FiatBilling` have one user and two requests; users do not share rows, so a
second user adds states and no interference.  Two requests are enough for a
lock to race with another lock, a settlement, a rollback and a retry.  One of
them may be retried; the other's body may be refused, or the answer to it make
its handler panic.  There is one price (the
run of `StreamBilling` has two, and the safety properties are proved for any).
The balance of 3 units covers one typical estimate and not always two, so a lock
is refused in some interleavings and granted in others.  Deadlock is not
checked in any run: once every request or the stream has ended, nothing is left
to do.

`Streamer` has two usage reports, so that a later one can replace an earlier one,
and a keep-alive of length 3 in the safety run: a comment can be cut twice, and
a piece can fail to continue the one before it.  Four chunks are enough for a
split keep-alive, an event put together from two chunks, a usage and DONE.

`StreamBilling` has one request, whose first attempt may be answered LOCKED, so that
the stream may belong to the second lock at another price (1 or 2).  Two chunks,
one usage report and a keep-alive of length 2 are enough for a stream that ends
in each of its ways; the database error and the crash may fall between any of its
chunks and the settlement.

`StackAcquisition` has two requests and stacks of 3 units; estimates of 1, 3 and 4
share a stack, fill it, and exceed it.  A balance of 3 pays for one stack at
price 2 and for three at price 1, of which two may be bought.  A node may report
more than the estimate, so that the CHECK constraint refuses some settlements.
A settlement that is refused keeps its units locked, and `UnitsAreReleased` says
so (`OverUse`).

`ConfidentialLock` has two slots for locks and one for a request, and a stack of 3
units, which the default of 2 and a lock of 1 fill; clients ask for 1 or for 3,
less than the default and more.  With these a bought lock of 3 beside a second
lock promises more than the stack has, and `PromisesFit` without `unbacked` is
violated.  A slot is used again when its lock is gone, so that a second generation of locks
meets the releases of the first.  `NodeKeys` has a node with two devices and two
keys (symmetric), and chains of four events: two rotations and a commitment of
each device.  A stale nonce stands for GPU evidence that fails; switches and
encoding are the other flaws.  `ChainEvents` has every chain of at most four events
about a task, an offer and two stacks, one of them the proxy's own: subscribing,
changing the price and leaving is the longest story of an offer, creating,
settling and claiming the longest of a stack.  `Accounts` has three calls, enough
for a token to be made, revoked and used, and for two payments around a change of
address; two users, one with an account, who owns a wallet with a key and a
zkLogin wallet, each of which pays once.  `Supervision` has a call of either server,
a ping, two addresses and one p2p event in the channel.  All have one fault
of each kind, at any moment.

| Run | Shows |
|---|---|
| `billing` | with a retry, a payment, one database error and one crash anywhere: `TypeOK`, `LedgerMatchesHolds`, `NoOverdraft`, `RetryDoesNotPayTwice`, `UsageNeverExceedsDebits`, and the strengthening `ChannelAgrees`; `HoldsAreReleased`: every lock is settled unless the node stays silent for ever or its answer makes the handler panic, the extractor refuses the body, the database fails or the proxy stops; `ImplementsLedger`: billing implements `FiatLedger` |
| `billing_extractor` (violation) | a body refused by the handler's extractor leaves its lock behind |
| `stream` | `SettledOnce`, `ReportedUsageIsCharged`, `ClientGetsWhatIsCharged` for streams cut anywhere, with a broken connection, a client that leaves and a state manager that stops; `StreamIsSettled`: the task ends and is dropped, unless the node stalls or never answers the request to stop; `KillReachesNode`: a client that leaves makes the proxy tell the node, also when the node has stalled |
| `stream_billing` | `ImplementsBilling`: whatever a stream goes through, billing sees a step of its own, once; `StreamIsDebited`: the row is charged what the node reported last, at the prices of the lock, when the stream was whole, and not less than the estimated input and the events delivered when it was cut off |
| `stack` | `OneBuyer`, `UsdcAccounted`, `UnitsMatch`; `UsageMatches`: a row's used units are what nodes reported for the requests it settled, once each, whatever the CHECK refuses and errors and crashes lose; the strengthening `EventsAgree`; `BuyLockIsReleased`, `UnitsAreReleased`, `RequestsEnd`, unless the chain or a node never answers or, for the units, a handler panics |
| `confidential_lock` | `UnitsAccounted`: a lock is pruned or used, never both, and the row has exactly the units of the locks, the requests and the releases, beside the stranded ones; `PromisesFit`: what is promised exceeds the stack by no more than `unbacked`; `ExpiredIsReleased`, as long as somebody asks for locks; `LockCallsEnd` |
| `node_keys` | `KeysAreAttested`: what a client may encrypt with was attested for the latest rotation, on every device; `ReplayIsHarmless`: after any restarts the keys are those the chain defines |
| `chain_events` | `TablesFollowChain`, `SettledCountedOnce`, `NoComeback`: lost and repeated events hurt nothing but their own object, count once, and open no closed stack |
| `chain_settling` (violation) | a stack in its settle period is given out, for the flag is never set |
| `accounts` | `CreditedOnce` (at most once, and to the sender when that is a key), `DepositIsNotLost` for deposits; `LoginsAreValid`, `ApiTokensInOrder` for tokens whose storage nobody awaits |
| `accounts_salt` (violation) | two first calls get two salts, one of which is not the user's |
| `manager_loop` | `CallsEnd`: who waits for the state manager gets an answer or an error, unless the loop ends with the event in its channel; `ProcessEnds`: after a failure or ctrl-c the process ends, unless a server waits for ever for a client, a node, Grafana or a left event; `AddressConverges` |

Fairness: weak fairness of each request's own steps (tokio polls a task that is
ready) and of the state manager's loop (its `select!` is random, so a channel
that stays non-empty is received from).  No fairness for the refusal of a body or
for a panic, and none for nodes: the HTTP client
has no timeout, so a node may keep a request open for ever; none for faults.
`StreamBilling` states safety only.
In `Streamer` the task's own steps are weakly fair (the drop, the poll of a
completed stream, the receipt of a kill signal); the client and the node are
not, for a node may stall with the stream open and the client need not read.
`StreamIsSettled` is stated for a node that goes on (`NodeGoesOn`: it sends or
closes), `KillReachesNode` for any node.  In `StackAcquisition` each
request's own steps and the state manager's are weakly fair; the chain and the
nodes are not.  The same holds in `ConfidentialLock`; that a lock is released needs
somebody to call, which is a premise of `ExpiredIsReleased` and not an assumption.
In `Supervision` the tasks' stops, the calls' own steps and the branches of the
loop for requests and p2p events are weakly fair (`select!` picks among ready
branches at random); subscriber and p2p node are assumed to heed the signal.
Nothing that comes from outside is fair (`OutsideStep`): a client need not send its
body or take its reply, and neither the calls to nodes nor those to Grafana
(`Client::new()`, `grafana.rs:132`) have a timeout, so that a call may keep its server
from stopping for ever.  `ProcessEnds` names that exception.  The pings have a
timeout of five seconds, and are fair.

Disagreements between comments and code that were met while modelling, and that
are in the models as the code has them, without a run of their own:

- `handlers.rs:1481` passes priced amounts to `update_usage_per_model`, whose
  documentation (`state_manager.rs:4744`) speaks of tokens;
- `state_manager.rs:4664` counts a request when its *output* amount is positive,
  where the comment says the total amount: a request charged for its input only
  is not in `num_requests`;
- `streamer.rs:357` says that the keep-alive position is reset when a chunk does
  not continue the comment; it is not, and all later data is refused;
- `streamer.rs:560` says that a streamer dropped without a final chunk updates
  nothing; `Drop` settles the estimated input and the events passed on;
- `middleware.rs:842` buys a stack without the size check that
  `get_selected_node` makes (`middleware.rs:2047`): a request that needs more
  units than a stack has pays, buys on chain, and has its row refused by the
  CHECK constraint;
- `middleware.rs:2907` says that the buy lock keeps concurrent requests from
  buying redundantly; nothing looks for a stack again under the lock
  (`middleware.rs:2174`), so a request that looked too early buys a second one;
- `middleware.rs:2178` says that a request which lost the race asks the state
  manager; when the lock is free again by then, it fails without asking
  (`middleware.rs:1948`).  From `nodes_create_lock` it always fails, since
  `get_stack_if_locked` refuses that endpoint (`middleware.rs:1898`), whatever
  `nodes.rs:401` says;
- `middleware.rs:1631` promises a refund when no stack was acquired; a
  transaction that fails on chain panics the task first (`sui/mod.rs:261`);
- `nodes.rs:390` buys with the default number of tokens, while the lock in memory
  gets what the client asked for (`nodes.rs:449`), which nothing bounds
  (`nodes.rs:295`): what a lock has above the default is not backed by the row
  (`unbacked`);
- the documentation of `verify_response_hash_and_signature` (`handlers/mod.rs:219`)
  lists an invalid format of the payload among its errors; a hash that is no
  base64 is a panic (`handlers/mod.rs:236`);
- `nodes.rs:501` says that the heap is used from the main thread only; it is used
  from spawned tasks, where the lock of the map's entry keeps it consistent;
- `middleware.rs:2657` names an event `UpdateLockedComputeUnits`, which does not
  exist; the release is `UpdateStackNumTokens`;
- `state_manager.rs:4225` says that the time of a new stack is rounded down to
  the hour; it is not, and the CHECK of `stats_stacks` refuses the row unless the
  event comes on the hour;
- `state_manager.rs:2600` takes the attestation of node `index` from the place after
  it, and `state_manager.rs:2618` calls `json_insert`, which PostgreSQL does not
  have: the statement fails, and the model changes nothing;
- `state_manager.rs:3537` says that the owner of a node is checked by its Sui
  address; the query compares with `public_address`.

Behaviour worth knowing that contradicts no comment: a deposit whose verification
fails after its digest was recorded cannot be submitted again, which without
google-oauth is the case of every call with a proof; a confidential request whose
body the handler's extractor refuses leaves its units locked, as a fiat request
leaves its estimate; `usdc_payment` and
`update_sui_address` check the signature of an access token and not whether it was
revoked; nothing ever sends `RevokeRefreshToken`; settlements of calls that end after
the shutdown signal meet a closed channel; an event left in the channel of a
stopped loop can keep its caller, and the server that waits for it, from ending;
when a rotation event is lost to the database and a replay brings it back, a row
checked against the older nonce is given out until it is replayed as well.

## Proofs

`FiatBilling_proofs` proves, for any users, requests, token counts, prices,
balances and bounds (the assumptions are the ASSUMEs of `FiatBilling`):

- `TypeCorrect`, `NoOverdraftHolds`, `UsageWithinDebits`: inductive with the
  type invariant;
- `ChannelAlwaysAgrees`: the heart of the argument.  A settlement is safe only
  because the event in the channel names a lock that is outstanding, with the
  amounts the lock took, and because no second event names it.
  `ChannelAgrees` says this of events (`QueueAgrees`), of requests past the lock
  (`RequestAgrees`) and of retries (`RetriesAgree`), and is inductive with the type
  invariant;
- `LedgerMatches`: with it, each step changes one key of the sums by what it
  changes in the row.  The lemmas of `SumTheorems` (a key joins, leaves or changes
  its value) are stated with `IsSum`, which hides the cardinality behind a sum;
- `NoDoublePayment`: from `RetriesAgree`, since the rollback is ahead of the
  second lock in a FIFO channel;
- `BillingImplementsLedger`: the initial states and every step map to the
  ledger; a grant is a `Reserve` because the columns that the guard of the lock
  adds up are the sum the ledger takes (`TakenIsTotal`).

`Streamer_proofs` proves `StreamTypeCorrect`, `StreamSettledOnce`,
`StreamChargesReport` and `StreamClientCharged`, for any usages, keep-alive length and
number of chunks.  The invariant has four parts: `KillInv` (types, and at most
one kill signal, sent by a client that has left), `OnceInv` (nothing is settled
before the final chunk or the drop), `UsageInv` (as long as no keep-alive was
interrupted the streamer has the usage that was last reported, and DONE with a
complete usage has settled it) and `CountInv` (events are counted before they are
passed on, and none after a settlement).

The same module proves, for any number of users and requests, any prices, reports
and bounds (the ASSUMEs of `StreamBilling`):

- `StreamsImplementBilling` (`ImplementsBilling`): a stream that settles with a report
  is the step `handle_final_chunk` of `FiatBilling`, one that is dropped is its
  `DropStreamer`, the end of the process is its `Crash`, and everything else
  stutters.  For this a step must send the first settlement or none (`SendsOnce`),
  the counted events must be a number of tokens (`ChunkInv`: no more events than
  chunks), and the metadata kept by the streamer must be that of the request for
  as long as it streams (`AskedInv`);
- `StreamsAreDebited` (`StreamIsDebited`): from the settlement that the `Streamer` sends to
  the row it is charged to.  A whole stream settles with what it reported
  (`ReportInv`), and `SentInv` follows the settlement: no other event is about its lock,
  which is still to be released or was settled with exactly the amounts of the
  event.  That nothing else touches the lock of a request that has ended is
  `EndedStays` of `FiatBilling_proofs`;
- `StreamsKeepLedger`: the composition keeps `LedgerMatchesHolds` and `NoOverdraft`.  The
  theorems of `FiatBilling_proofs` are used through an instance of that module; its
  actions and those of the instance in `StreamBilling` are shown to be the same, one
  by one (`SameNext`).

TLC checked the invariants of the composition before they were proved; its instance
has 669 thousand states.

`StackAcquisition_proofs` proves `StackTypeCorrect`, `StackOneBuyer`,
`StackUsdcAccounted`, `StackUnitsMatch`, `StackUsageMatches` and `StackEventsAgree`, for any
requests, estimates, prices, sizes and bounds.  They are proved together: what is
paid can only be accounted for because one request at a time is buying, a
settlement releases units that its request still holds because the events in the
channel agree with where their requests are (`EventsAgree`), and a row is new when
it is stored because nobody holds units of a stack without a row (`FreshStacks`).
`UsageMatches` needs `UsageAgree`: what is in the channel for a request is what its
node reported (`SettlementsReport`), nothing was reported for a request that has not
been answered (`Reports`), and each row is the finite sum of those whose units came
back (`UsageSum`).

`ChainEvents_proofs` proves `ChainTypes`, `UnitsSettledOnce` and `StacksStayClosed`, for
any tasks, nodes, stacks, prices and claims and any number of events, errors and
restarts.  The types need to know what the chain can hold (`ChainOK`: an event
names an object of its kind), since a handler writes to whatever object its event
names.  `Counted` is `SettledCountedOnce` with a finite sum: a new ticket takes its
stack out of the sum, where it counted zero, and puts it back with its units.
`Unclaimed` (a stack without a ticket has no claimed ticket) is what `NoComeback`
needs: inserting a ticket resets `is_claimed`, and would give the stack out again
were it inserted over a claimed one.

It also proves `TablesAgree` (`FollowInv`) and from it `TablesAlwaysFollow`
(`TablesFollowChain`).  `TablesFollowChain` speaks of the position `next` and is not
inductive: after a restart `next` goes back to the stored cursor and the tables
are ahead of it.  `FollowInv` says that an object none of whose events was lost has
in the tables what the chain says of it at *some* position from `next` on.  An
event that comes again then either sets what the chain says at the next position
or leaves a newer row alone.  Which of the two depends on the order in which the
contract can emit events (`TaskLegal`, `OfferLegal`, `TicketLegal`: nothing is
deprecated before it is registered, a ticket comes before what is done to it),
and for stacks on the row itself (`RowOK`).  TLC checked `FollowInv` on 1.2 million
states, with lost events and two restarts, before it was proved.

`ConfidentialLock_proofs` proves `LocksInvariant` (`LocksInv`), `LocksTypes`,
`UnitsAreAccounted` and `PromisesAlwaysFit`, for any sets of locks, requests and
stacks and any sizes.  `LocksInv` has the types, `ChannelOK` (but for `LockStack`, a
lock or request has at most one event in the channel, and it fits what its owner
is doing), `SlotsOK` (the stack of an owner that holds units has a row, or is about
to get one from the only buyer), `FreshOK` (a stack without a row has no units), `Owing` (what a row has locked, less what was
stranded, is the sum of what its owners hold) and `Capacity` (a row never locks
more than it has).  `UnitsAccounted` is `Owing`.  `PromisesFit` follows from these and
`Backed`: what the owners of a row hold exceeds what it has locked by no more than
`unbacked`.  There is no hypothesis on what clients ask for.

`NodeKeys_proofs` proves `KeysInvariant` (`KeysInv`), `KeysTypes`,
`GivenKeysAreAttested` (`KeysAreAttested`) and `ReplaysAreHarmless`
(`ReplayIsHarmless`), for any nodes, keys and flaws and any number of events, errors
and restarts.  `KeysInv` has the types, `ChainOK` (the contract's counters and epochs
only grow, and a commitment names the rotation current when it was made),
`RotationsOK` (a stored rotation is one of the chain and, without database errors,
not older than any handled since the restart) and `RowsOK` (a row is a commitment
of the chain and, without errors, at least as recent as each one handled that
counts and that no rotation has made obsolete).  That last part is what a replay
needs: the row it finds is never older than the commitment that comes again.  TLC checked `KeysInv` on 1.5 million states with two restarts.

`Accounts_proofs` proves `AccountsInvariant` (`AccountsInv`), `AccountsTypes`,
`DepositsCreditedOnce` (`CreditedOnce`), `LoginTokensValid` (`LoginsAreValid`),
`ApiTokensTakeEffect` (`ApiTokensInOrder`) and `DepositsNotLost` (`DepositIsNotLost`),
for any users, wallets, digests and calls.  The conjuncts of the invariant are:

- `Base`: types; no event is in the channel twice, and each one is where its call
  says it is;
- `Money`: the digest of a call that may yet credit is recorded, not credited, and
  no other call's (`ClaimsOK`); who is credited has a signature that names the
  wallet (`Signers`), for a wallet with a key their own;
  balances are the sum of the credits.  `CreditedOnce` needs `ClaimsOK`, since the
  credit happens several steps after the INSERT that refuses a second use;
- `Sessions`: the refresh tokens that clients hold, or that were just found valid,
  are in the table, and a user is registered by one call;
- `ApiOK`: without faults, what a call returned as done is in the table, or ahead of
  the question of a later request in the FIFO channel;
- `DepositOK`: without faults, a recorded digest has a call that went on with it;
  such a call ends with the credit made or in the channel, and a call with a proof
  fails only for an unclear transaction, a foreign wallet, another call with the
  same digest or a build without google-oauth.

Only model-checked: the liveness properties, which are out of the prover's reach
(`HoldsAreReleased`, `StreamIsSettled`, `KillReachesNode`, `BuyLockIsReleased`,
`UnitsAreReleased`, `RequestsEnd`, `ExpiredIsReleased`, `LockCallsEnd`, `CallsEnd`, `ProcessEnds`,
`AddressConverges`), and the violations.  Every safety property that a run checks is
also proved.

## Not modelled

Not modelled, and why:

- the dashboard queries of the proxy service, single SELECTs without state;
  `set_custom_pricing` and `update_node_attestation`, single UPSERTs;
- a task of `main` that panics: `main` returns at once, without the order of
  stopping that `Supervision` is about;
- the metrics registries and the list of best nodes, which nothing in the
  program reads; the heartbeat service, which talks to nobody in it;
- text tokenization, HTTP framing, configuration, OpenAPI documents and the
  cryptography of signatures, hashes and evidence: data without control.

What could come next: several streams of one user at a time in `StreamBilling` (the
`Streamer` of a request touches no state of another, so that each is an instance of
its own), and a stack whose units are settled by a stream, for which
`StackAcquisition` would take the place of `FiatBilling`.
