---------------------------- MODULE StreamBilling ----------------------------
(***************************************************************************)
(* Streamer and FiatBilling together.  FiatBilling has the stream of a     *)
(* request as one step, the settlement by the final chunk or by the drop;  *)
(* here the stream of one of the requests is a Streamer, from the time its *)
(* handler has returned, while billing goes on with everything else.  What *)
(* the Streamer sends is sent to the channel of FiatBilling, and its state *)
(* manager stops when the process of FiatBilling does.                     *)
(***************************************************************************)
EXTENDS Streamer

CONSTANTS
  Users, Requests, Owner, Tokens, Prices, OneMillion, Balance, UnreadableBodies,
  UndecodableHashes, StackHeader, MaxTopUps, MaxDbErrors, MaxCrashes,    \* those of FiatBilling
  R,                 \* the request whose stream is a Streamer
  PromptTokens,      \* prompt_tokens of a usage report
  CompletionTokens   \* completion_tokens of a usage report

ASSUME RequestAssumption == R \in Requests
ASSUME OwnerAssumption == Owner \in [Requests -> Users]
ASSUME TokensAssumption == Tokens \subseteq Nat /\ 0 .. MaxChunks \subseteq Tokens
ASSUME ReportsAssumption ==
  PromptTokens \in [Usages -> Tokens] /\ CompletionTokens \in [Usages -> Tokens]
ASSUME PricesAssumption == Prices \subseteq Nat
ASSUME OneMillionAssumption == OneMillion \in Nat \ {0}
ASSUME BalanceAssumption == Balance \in [Users -> Nat]
ASSUME BoundsAssumption ==
  MaxTopUps \in Nat /\ MaxDbErrors \in Nat /\ MaxCrashes \in Nat

VARIABLES
  fiat, rows, queue, req, hold, excess, env,    \* those of FiatBilling; rows is its usage
  asked              \* the metadata of R that the Streamer was given

Billing == INSTANCE FiatBilling WITH usage <- rows

billing == <<fiat, rows, queue, req, hold, excess, env>>
all == <<vars, billing, asked>>

StreamInit == Init /\ Billing!Init /\ asked = Billing!NoRequest

(* The handler has returned and left the stream to the task it spawned. *)
Begun == req[R].pc = "streaming" \/ settled # <<>> \/ ~manager

(* The usage that the node reported. *)
ReportedTokens(u) == <<PromptTokens[u], CompletionTokens[u]>>

(* Mutant: the output is charged as estimated. *)
DroppedTokens_Estimated(n) == <<asked.est_input, asked.est_output>>

(* The estimated input, and one token for every event passed on. *)
DroppedTokens(n) == <<asked.est_input, n>>

(* The input and output tokens of a settlement. *)
Charged(s) ==
  IF s.charge = Estimate THEN DroppedTokens(s.events) ELSE ReportedTokens(s.charge)

(* A settlement of the Streamer is an event in the channel; the task has   *)
(* no further use for the metadata.                                        *)
Send(s) ==
  /\ Billing!update_state_manager_fiat(R, Charged(s)[1], Charged(s)[2])
  /\ Billing!Finish(R)
  /\ UNCHANGED <<fiat, rows, excess, env>>

(* A step of the stream. *)
StreamStep ==
  /\ Begun /\ Next /\ manager' = manager /\ asked' = asked
  /\ \/ settled' = settled /\ UNCHANGED billing
     \/ settled' # settled /\ Send(settled'[Len(settled')])

(* The process stops, and with it the state manager. *)
ProcessStops ==
  /\ Begun /\ ManagerStops /\ Billing!Crash
  /\ UNCHANGED asked

(* Billing does anything but end the stream of R or the process it is in.  *)
(* When a handler leaves R to a Streamer, that is given the estimates and  *)
(* prices of R.                                                            *)
BillingStep ==
  /\ Billing!Next
  /\ req[R].pc = "streaming" => req'[R] = req[R]
  /\ Begun /\ manager => env'.crashes = env.crashes
  /\ asked' = IF req'[R].pc = "streaming" THEN req'[R] ELSE asked
  /\ UNCHANGED vars

StreamNext == StreamStep \/ ProcessStops \/ BillingStep

StreamSpec == StreamInit /\ [][StreamNext]_all

-----------------------------------------------------------------------------
(* However a stream goes (split chunks, lost events, a DONE mark without   *)
(* usage, a client that leaves, a kill, a state manager that stops), what  *)
(* billing sees of it is a step of its own, once: the final chunk, the     *)
(* drop, or the end of the process.                                        *)
ImplementsBilling == Billing!Spec

(* The row of fiat_balances is charged for a stream what the node reported *)
(* last, at the prices of the lock, when the stream was whole; and not     *)
(* less than the estimated input and the events that the client got when   *)
(* it was cut off, whatever other requests, retries, errors and crashes    *)
(* came between the chunks and the settlement.                             *)
StreamIsDebited ==
  LET h == hold[<<R, asked.attempt>>]
      Costs(input, output) ==
        /\ h.input = Billing!Amount(input, asked.price_input)
        /\ h.output = Billing!Amount(output, asked.price_output)
  IN  settled # <<>> /\ h.status = "settled" =>
        /\ done_sent /\ ~cut /\ reported \in Usages =>
             Costs(PromptTokens[reported], CompletionTokens[reported])
        /\ settled[1].charge = Estimate =>
             \E n \in 0 .. MaxChunks : delivered + events <= n /\ Costs(asked.est_input, n)
=============================================================================
