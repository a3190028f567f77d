-------------------------- MODULE Accounts_proofs --------------------------
(***************************************************************************)
(* Theorems about Accounts, for any users, wallets, digests, amounts and   *)
(* any number of calls and faults: what is credited is credited once and   *)
(* to the owner, logins are valid, API tokens take effect in order, and    *)
(* no deposit is lost without a fault.                                     *)
(***************************************************************************)
EXTENDS Accounts, SumTheorems

-----------------------------------------------------------------------------
(* The invariant.                                                          *)

EventTypes == {"User", "IsRefreshTokenValid", "IsApiTokenValid", "InsertNewUsdcPaymentDigest",
               "ConfirmUser"} \cup Silent

Events == [type : EventTypes, call : Calls]

(* No event is in the channel twice. *)
QueueOK ==
  /\ queue \in Seq(Events)
  /\ \A i, j \in 1 .. Len(queue) : queue[i] = queue[j] => i = j

KindOK == kind \in [Digests -> Kinds \cup {"unknown"}]

(* An event in the channel is one that its call has sent: the call waits   *)
(* for the answer, or has gone on.                                         *)
EventsFit == \A c \in Calls :
  /\ Waiting("User", c) => pc[c] = "user"
  /\ Waiting("IsRefreshTokenValid", c) => pc[c] = "claims"
  /\ Waiting("StoreRefreshToken", c) =>
       pc[c] \notin {"idle", "user", "user_ok"} /\ tok[c] \in Tokens
  /\ Waiting("StoreNewApiToken", c) => Returned(c, "generate")
  /\ Waiting("RevokeApiToken", c) => Returned(c, "revoke")
  /\ Waiting("IsApiTokenValid", c) => pc[c] = "use"
  /\ Waiting("UpdateSuiAddress", c) => Returned(c, "address")
  /\ Waiting("InsertNewUsdcPaymentDigest", c) => pc[c] = "digest"
  /\ Waiting("ConfirmUser", c) => pc[c] = "confirm"
  /\ Waiting("TopUpBalance", c) => pc[c] = "done" /\ op[c] \in Payments

(* Who may have a signature that names a wallet. *)
Signers == Owns \cup (Users \X ZkWallets)

(* Where a call is agrees with what it does and what it is about. *)
CallsFit == \A c \in Calls :
  /\ pc[c] = "idle" => op[c] = "none"
  /\ pc[c] # "idle" => op[c] # "none" /\ user[c] \in Users
  /\ pc[c] \in {"user", "user_ok"} => op[c] \in Logins
  /\ pc[c] \in {"claims", "claims_ok"} => op[c] \in Logins \cup Managing /\ tok[c] \in Tokens
  /\ pc[c] = "salt" => op[c] = "salt"
  /\ pc[c] = "use" => op[c] = "use"
  /\ pc[c] \in {"digest", "digest_ok", "confirm", "confirmed"} => op[c] \in Payments
  /\ op[c] \in Payments => arg[c] \in Digests
  /\ op[c] = "address" => arg[c] \in Wallets /\ <<user[c], arg[c]>> \in Signers
  /\ op[c] \in {"use", "revoke"} => arg[c] \in Calls

Base == TypeOK /\ KindOK /\ QueueOK /\ EventsFit /\ CallsFit

(* A call that may yet credit its user. *)
Claims(c) == pc[c] \in {"digest_ok", "confirm", "confirmed"} \/ Waiting("TopUpBalance", c)
Approved(c) == pc[c] = "confirmed" \/ Waiting("TopUpBalance", c)

(* The digest of a call that may yet credit is recorded, is not credited   *)
(* and is no other call's.                                                 *)
ClaimsOK ==
  /\ \A c \in Calls : Claims(c) => arg[c] \in digests /\ credit[arg[c]] = NoUser
  /\ \A c, e \in Calls : Claims(c) /\ Claims(e) /\ arg[c] = arg[e] => c = e

SignedOK ==
  /\ \A u \in Users : address[u] # NoWallet => <<u, address[u]>> \in Signers
  /\ \A c \in Calls : pc[c] = "confirm" \/ Approved(c) => kind[arg[c]] = "deposit"
  /\ \A c \in Calls : Approved(c) => <<user[c], Sender[arg[c]]>> \in Signers

CreditOK == \A d \in Digests : credit[d] # NoUser =>
  d \in digests /\ kind[d] = "deposit" /\ <<credit[d], Sender[d]>> \in Signers

Credited(u) == {d \in Digests : credit[d] = u}
BalanceOK == \A u \in Users : IsSum(balance[u], Amount, Credited(u))

Money == ClaimsOK /\ SignedOK /\ CreditOK /\ BalanceOK

(* A registration that was let in. *)
Entered(c) == op[c] = "register" /\ pc[c] \in {"user_ok", "claims", "claims_ok", "done"}
Sessions ==
  /\ held \subseteq refresh
  /\ \A c \in Calls : pc[c] = "claims_ok" => tok[c] \in refresh
  /\ \A c \in Calls : Entered(c) => user[c] \in users
  /\ \A c, e \in Calls : Entered(c) /\ Entered(e) /\ user[c] = user[e] => c = e

NoFault == errors = 0 /\ crashes = 0

(* An event of a is ahead of the question of c whether its token is valid. *)
Ahead(type, a, c) ==
  \E i, j \in 1 .. Len(queue) :
    i < j /\ queue[i] = Event(type, a) /\ queue[j] = Event("IsApiTokenValid", c)

(* A token is stored once, before it can be revoked. *)
TokenOK == \A a \in Calls :
  /\ Waiting("StoreNewApiToken", a) => api[a] = "none"
  /\ RevokedBy(a) # {} => api[a] # "none"
  /\ api[a] = "deleted" => RevokedBy(a) # {}
  /\ api[a] # "none" => Returned(a, "generate")

(* Without faults, what has returned is in the table or in the channel,    *)
(* ahead of the requests that follow.                                      *)
Effective == NoFault => \A c \in Calls :
  /\ Returned(c, "generate") => api[c] # "none" \/ Waiting("StoreNewApiToken", c)
  /\ Returned(c, "revoke") => api[arg[c]] = "deleted" \/ Waiting("RevokeApiToken", c)
  /\ pc[c] = "use" => api[arg[c]] # "none" \/ Ahead("StoreNewApiToken", arg[c], c)
  /\ pc[c] = "use" /\ seen[c] = "revoked" =>
       api[arg[c]] = "deleted" \/ \E r \in RevokedBy(arg[c]) : Ahead("RevokeApiToken", r, c)

ApiOK == TokenOK /\ Effective /\ ApiTokensInOrder

(* Without faults, a digest is recorded for a call that went on, and a     *)
(* call that has ended knows what the transaction is.                      *)
DepositOK == NoFault =>
  /\ \A d \in digests : \E e \in PaymentsOf(d) : pc[e] \notin {"idle", "digest"}
  /\ \A c \in Calls : op[c] \in Payments =>
       /\ pc[c] = "confirm" => op[c] = "payment"
       /\ pc[c] = "done" => kind[arg[c]] # "unknown"
       /\ pc[c] = "done" /\ kind[arg[c]] = "deposit" =>
            credit[arg[c]] = user[c] \/ Waiting("TopUpBalance", c)
       /\ pc[c] = "failed" /\ op[c] = "payment_zk" =>
            \/ kind[arg[c]] = "unclear"
            \/ ~GoogleOAuth \/ <<user[c], Sender[arg[c]]>> \notin Signers
            \/ \E e \in PaymentsOf(arg[c]) : e # c

AccountsInv == Base /\ Money /\ Sessions /\ ApiOK /\ DepositOK

-----------------------------------------------------------------------------
(* The channel.                                                            *)

LEMMA EventIs ==
  ASSUME NEW t, NEW c, NEW u, NEW d
  PROVE  /\ Event(t, c) = Event(u, d) <=> t = u /\ c = d
         /\ Event(t, c).type = t /\ Event(t, c).call = c
  BY DEF Event

LEMMA EventTyped ==
  ASSUME NEW t \in EventTypes, NEW c \in Calls
  PROVE  Event(t, c) \in Events
  BY DEF Event, Events

(* What a step does to the channel. *)
Keeps == QueueOK' /\ \A u \in EventTypes, d \in Calls : Waiting(u, d)' <=> Waiting(u, d)
Adds(t, c) ==
  QueueOK' /\ \A u \in EventTypes, d \in Calls :
    Waiting(u, d)' <=> Waiting(u, d) \/ (u = t /\ d = c)
Drops(t, c) ==
  /\ QueueOK' /\ Waiting(t, c)
  /\ \A u \in EventTypes, d \in Calls :
       Waiting(u, d)' <=> Waiting(u, d) /\ ~(u = t /\ d = c)

LEMMA Kept == ASSUME QueueOK, UNCHANGED queue PROVE Keeps
  BY DEF QueueOK, Keeps, Waiting

(* An event is sent. *)
LEMMA Sent ==
  ASSUME QueueOK, NEW t \in EventTypes, NEW c \in Calls, ~Waiting(t, c), Send(t, c)
  PROVE  Adds(t, c)
<1> DEFINE e == Event(t, c)
<1>1. e \in Events
  BY EventTyped
<1>2. queue \in Seq(Events) /\ queue' = Append(queue, e)
  BY DEF QueueOK, Send
<1>3. \A i \in 1 .. Len(queue) : queue[i] # e
  BY <1>2 DEF Waiting
<1> HIDE DEF e
<1>4. /\ queue' \in Seq(Events)
      /\ Len(queue') = Len(queue) + 1 /\ queue'[Len(queue) + 1] = e
      /\ \A i \in 1 .. Len(queue) : queue'[i] = queue[i]
  BY <1>1, <1>2
<1>5. \A i, j \in 1 .. Len(queue') : queue'[i] = queue'[j] => i = j
  BY <1>2, <1>3, <1>4 DEF QueueOK
<1>6. ASSUME NEW u \in EventTypes, NEW d \in Calls
      PROVE  Waiting(u, d)' <=> Waiting(u, d) \/ (u = t /\ d = c)
  <2>1. Waiting(u, d)' <=> \E i \in 1 .. Len(queue) + 1 : queue'[i] = Event(u, d)
    BY <1>4 DEF Waiting
  <2>2. Waiting(u, d) <=> \E i \in 1 .. Len(queue) : queue[i] = Event(u, d)
    BY <1>2 DEF Waiting
  <2>3. e = Event(u, d) <=> u = t /\ d = c
    BY EventIs DEF e
  <2>4. QED
    BY <1>2, <1>4, <2>1, <2>2, <2>3
<1>7. QED
  BY <1>4, <1>5, <1>6 DEF QueueOK, Adds

(* The state manager takes the first event. *)
LEMMA TakeShifts ==
  ASSUME QueueOK, queue # <<>>, Take
  PROVE  /\ Len(queue) \in Nat \ {0} /\ Len(queue') = Len(queue) - 1
         /\ queue' \in Seq(Events)
         /\ \A i \in 1 .. Len(queue) - 1 : queue'[i] = queue[i + 1]
<1> DEFINE n == Len(queue) - 1
<1>1. queue \in Seq(Events) /\ Len(queue) \in Nat \ {0}
  BY DEF QueueOK
<1>2. queue' = [i \in 1 .. n |-> queue[i + 1]]
  BY <1>1 DEF Take, Position
<1>3. n \in Nat /\ \A i \in 1 .. n : queue[i + 1] \in Events
  <2>1. n \in Nat /\ \A i \in 1 .. n : i + 1 \in 1 .. Len(queue)
    BY <1>1
  <2>2. QED
    BY <1>1, <2>1
<1>4. queue' \in Seq(Events) /\ Len(queue') = n
  BY <1>2, <1>3
<1>5. QED
  BY <1>1, <1>2, <1>4

LEMMA Took ==
  ASSUME QueueOK, NEW t \in EventTypes, NEW c \in Calls, Taken(t, c), Take
  PROVE  Drops(t, c)
<1>1. queue # <<>> /\ queue[1] = Event(t, c)
  BY DEF Taken, Position
<1>2. /\ Len(queue) \in Nat \ {0} /\ Len(queue') = Len(queue) - 1
      /\ queue' \in Seq(Events)
      /\ \A i \in 1 .. Len(queue) - 1 : queue'[i] = queue[i + 1]
  BY <1>1, TakeShifts
<1>3. \A i, j \in 1 .. Len(queue) : queue[i] = queue[j] => i = j
  BY DEF QueueOK
<1>4. \A i, j \in 1 .. Len(queue') : queue'[i] = queue'[j] => i = j
  BY <1>2, <1>3
<1>5. DOMAIN queue = 1 .. Len(queue) /\ DOMAIN queue' = 1 .. Len(queue')
  BY <1>2 DEF QueueOK
<1>6. ASSUME NEW u \in EventTypes, NEW d \in Calls
      PROVE  Waiting(u, d)' <=> Waiting(u, d) /\ ~(u = t /\ d = c)
  <2>1. Waiting(u, d)' <=> \E i \in 1 .. Len(queue) - 1 : queue'[i] = Event(u, d)
    BY <1>2, <1>5 DEF Waiting
  <2>2. Waiting(u, d) <=> \E i \in 1 .. Len(queue) : queue[i] = Event(u, d)
    BY <1>5 DEF Waiting
  <2>3. Event(t, c) = Event(u, d) <=> u = t /\ d = c
    BY EventIs
  <2>4. ASSUME Waiting(u, d)' PROVE Waiting(u, d) /\ ~(u = t /\ d = c)
    <3>1. PICK i \in 1 .. Len(queue) - 1 : queue'[i] = Event(u, d)
      BY <2>1, <2>4
    <3>2. queue[i + 1] = Event(u, d) /\ i + 1 \in 1 .. Len(queue) /\ i + 1 # 1 /\ 1 \in 1 .. Len(queue)
      BY <1>2, <3>1
    <3>3. QED
      BY <1>1, <1>3, <2>2, <2>3, <3>2
  <2>5. ASSUME Waiting(u, d), ~(u = t /\ d = c) PROVE Waiting(u, d)'
    <3>1. PICK i \in 1 .. Len(queue) : queue[i] = Event(u, d)
      BY <2>2, <2>5
    <3>2. i # 1
      BY <1>1, <2>3, <2>5, <3>1
    <3>3. i - 1 \in 1 .. Len(queue) - 1 /\ (i - 1) + 1 = i
      BY <1>2, <3>1, <3>2
    <3>4. queue'[i - 1] = queue[i]
      BY <1>2, <3>3
    <3>5. QED
      BY <2>1, <3>1, <3>3, <3>4
  <2>6. QED
    BY <2>4, <2>5
<1>7. Waiting(t, c)
  BY <1>1, <1>2, <1>5 DEF Waiting
<1>8. QED
  BY <1>2, <1>4, <1>6, <1>7 DEF QueueOK, Drops

-----------------------------------------------------------------------------
(* Types, events and calls.                                                *)

Labels == {"idle", "user", "user_ok", "claims", "claims_ok", "use", "salt", "digest",
           "digest_ok", "confirm", "confirmed", "done", "failed"}
Ops == {"none", "use", "address"} \cup Logins \cup Managing \cup Payments

(* TypeOK in two parts. *)
CallTypes ==
  /\ pc \in [Calls -> Labels] /\ op \in [Calls -> Ops]
  /\ user \in [Calls -> Users \cup {NoUser}]
  /\ arg \in [Calls -> Calls \cup {NoCall} \cup Wallets \cup Digests]
  /\ tok \in [Calls -> Tokens \cup {<<>>}]
  /\ seen \in [Calls -> {"none", "fresh", "unsure", "revoked"}]
  /\ answer \in [Calls -> Calls \cup {NoCall}]

TableTypes ==
  /\ held \subseteq Tokens /\ users \subseteq Users /\ refresh \subseteq Tokens
  /\ api \in [Calls -> {"none", "stored", "deleted"}]
  /\ address \in [Users -> Wallets \cup {NoWallet}]
  /\ salt \in [Users -> Calls \cup {NoCall}]
  /\ digests \subseteq Digests
  /\ balance \in [Users -> Nat] /\ credit \in [Digests -> Users \cup {NoUser}]
  /\ errors \in Nat /\ crashes \in Nat /\ errors + crashes <= MaxFaults
  /\ KindOK

LEMMA EventCalls == ASSUME NEW q \in Seq(Events) PROVE \A i \in DOMAIN q : q[i].call \in Calls
<1>1. \A i \in DOMAIN q : q[i] \in Events
  OBVIOUS
<1>2. QED
  BY <1>1 DEF Events

LEMMA BaseParts == Base <=> CallTypes /\ TableTypes /\ QueueOK /\ EventsFit /\ CallsFit
<1>1. ASSUME QueueOK PROVE \A i \in DOMAIN queue : queue[i].call \in Calls
  BY <1>1, EventCalls DEF QueueOK
<1>2. QED
  BY <1>1 DEF Base, TypeOK, CallTypes, TableTypes, Labels, Ops

LEMMA BasePartsNext ==
  ASSUME CallTypes', TableTypes', QueueOK', EventsFit', CallsFit'
  PROVE  Base'
<1>1. (\A i \in DOMAIN queue : queue[i].call \in Calls)'
  BY EventCalls DEF QueueOK
<1>2. QED
  BY <1>1 DEF Base, TypeOK, CallTypes, TableTypes, Labels, Ops

LEMMA TablesKept ==
  ASSUME Base, UNCHANGED <<held, accounts, money, kind, faults>>
  PROVE  TableTypes'
  BY DEF Base, TypeOK, TableTypes, KindOK, accounts, money, faults

(* A call that begins has sent nothing yet. *)
LEMMA IdleIsSilent ==
  ASSUME Base, NEW c \in Calls, pc[c] = "idle", NEW t \in EventTypes
  PROVE  ~Waiting(t, c)
  BY DEF Base, EventsFit, EventTypes, Silent, Returned

(* The events that the steps of a call send. *)
LEMMA LoginSends ==
  ASSUME Base, NEW c \in Calls, NEW o, BeginLogin(c, o) PROVE Adds("User", c)
<1>1. pc[c] = "idle" /\ "User" \in EventTypes
  BY DEF BeginLogin, Begin, EventTypes
<1>2. QED
  BY <1>1, IdleIsSilent, Sent DEF BeginLogin, Base

LEMMA ClaimsSends ==
  ASSUME Base, NEW c \in Calls, NEW t, pc[c] = "idle", get_claims_from_token(c, t)
  PROVE  Adds("IsRefreshTokenValid", c)
<1>1. "IsRefreshTokenValid" \in EventTypes
  BY DEF EventTypes
<1>2. QED
  BY <1>1, IdleIsSilent, Sent DEF get_claims_from_token, Base

LEMMA UseSends == ASSUME Base, NEW c \in Calls, BeginUse(c) PROVE Adds("IsApiTokenValid", c)
<1>1. pc[c] = "idle" /\ "IsApiTokenValid" \in EventTypes
  BY DEF BeginUse, Begin, EventTypes
<1>2. QED
  BY <1>1, IdleIsSilent, Sent DEF BeginUse, Base

LEMMA AddressSends ==
  ASSUME Base, NEW c \in Calls, update_sui_address(c) PROVE Adds("UpdateSuiAddress", c)
<1>1. pc[c] = "idle" /\ "UpdateSuiAddress" \in EventTypes
  BY DEF update_sui_address, Begin, EventTypes, Silent
<1>2. QED
  BY <1>1, IdleIsSilent, Sent DEF update_sui_address, Base

LEMMA PaymentSends ==
  ASSUME Base, NEW c \in Calls, BeginPayment(c) PROVE Adds("InsertNewUsdcPaymentDigest", c)
<1>1. pc[c] = "idle" /\ "InsertNewUsdcPaymentDigest" \in EventTypes
  BY DEF BeginPayment, Begin, EventTypes
<1>2. QED
  BY <1>1, IdleIsSilent, Sent DEF BeginPayment, Base

LEMMA GenerateSends ==
  ASSUME Base, NEW c \in Calls, generate_api_token(c) PROVE Adds("StoreNewApiToken", c)
<1>1. ~Waiting("StoreNewApiToken", c) /\ "StoreNewApiToken" \in EventTypes
  BY DEF generate_api_token, Base, EventsFit, Returned, EventTypes, Silent
<1>2. QED
  BY <1>1, Sent DEF generate_api_token, Base

LEMMA RevokeSends ==
  ASSUME Base, NEW c \in Calls, revoke_api_token(c) PROVE Adds("RevokeApiToken", c)
<1>1. ~Waiting("RevokeApiToken", c) /\ "RevokeApiToken" \in EventTypes
  BY DEF revoke_api_token, Base, EventsFit, Returned, EventTypes, Silent
<1>2. QED
  BY <1>1, Sent DEF revoke_api_token, Base

LEMMA TopUpSends ==
  ASSUME Base, NEW c \in Calls, TopUpBalance(c) PROVE Adds("TopUpBalance", c)
<1>1. ~Waiting("TopUpBalance", c) /\ "TopUpBalance" \in EventTypes
  BY DEF TopUpBalance, Base, EventsFit, EventTypes, Silent
<1>2. QED
  BY <1>1, Sent DEF TopUpBalance, Base

LEMMA ChangesSend ==
  ASSUME Base, NEW c \in Calls, NEW k, BalanceChanges(c, k)
  PROVE  IF k = "deposit" /\ op[c] = "payment" THEN Adds("ConfirmUser", c) ELSE Keeps
<1>1. ~Waiting("ConfirmUser", c) /\ "ConfirmUser" \in EventTypes
  BY DEF BalanceChanges, Base, EventsFit, EventTypes
<1>2. CASE k = "deposit" /\ op[c] = "payment"
  BY <1>1, <1>2, Sent DEF BalanceChanges, Base
<1>3. CASE ~(k = "deposit" /\ op[c] = "payment")
  BY <1>3, Kept DEF BalanceChanges, Base
<1>4. QED
  BY <1>2, <1>3

(* A login sends two events at once. *)
AddsTwo(t, v, c) ==
  QueueOK' /\ \A u \in EventTypes, d \in Calls :
    Waiting(u, d)' <=> Waiting(u, d) \/ (u \in {t, v} /\ d = c)

LEMMA SentTwo ==
  ASSUME QueueOK, NEW t \in EventTypes, NEW v \in EventTypes, t # v, NEW c \in Calls,
         ~Waiting(t, c), ~Waiting(v, c), queue' = queue \o <<Event(t, c), Event(v, c)>>
  PROVE  AddsTwo(t, v, c)
<1>0. PICK n \in Nat : n = Len(queue)
  BY DEF QueueOK
<1>1. /\ queue \in Seq(Events) /\ n = Len(queue) /\ DOMAIN queue = 1 .. n
      /\ \A i, j \in 1 .. n : queue[i] = queue[j] => i = j
  BY <1>0 DEF QueueOK
<1>2. PICK e \in Events, f \in Events : e = Event(t, c) /\ f = Event(v, c)
  BY EventTyped
<1>3. e # f /\ \A i \in 1 .. n : queue[i] # e /\ queue[i] # f
  <2>1. e # f
    BY <1>2, EventIs
  <2>2. \A i \in DOMAIN queue : queue[i] # Event(t, c) /\ queue[i] # Event(v, c)
    BY DEF Waiting
  <2>3. QED
    BY <1>1, <1>2, <2>1, <2>2
<1>4. queue' = queue \o <<e, f>>
  BY <1>2
<1>5. queue' \in Seq(Events) /\ Len(queue') = n + 2 /\ DOMAIN queue' = 1 .. n + 2
  BY <1>1, <1>4
<1>6. \A i \in 1 .. n : queue'[i] = queue[i]
  BY <1>1, <1>4
<1>7. queue'[n + 1] = e /\ queue'[n + 2] = f
  BY <1>1, <1>4
<1>8. \A i \in 1 .. n + 2 : i \in 1 .. n \/ i = n + 1 \/ i = n + 2
  BY <1>1
<1>9. ASSUME NEW i \in 1 .. n + 2, NEW j \in 1 .. n + 2, queue'[i] = queue'[j] PROVE i = j
  <2>1. CASE i \in 1 .. n /\ j \in 1 .. n
    BY <1>1, <1>6, <1>9, <2>1
  <2>2. CASE ~(i \in 1 .. n /\ j \in 1 .. n)
    BY <1>3, <1>6, <1>7, <1>8, <1>9, <2>2
  <2>3. QED
    BY <2>1, <2>2
<1>10. ASSUME NEW u \in EventTypes, NEW d \in Calls
       PROVE  Waiting(u, d)' <=> Waiting(u, d) \/ (u \in {t, v} /\ d = c)
  <2>1. Waiting(u, d)' <=> \E i \in 1 .. n + 2 : queue'[i] = Event(u, d)
    BY <1>5 DEF Waiting
  <2>2. Waiting(u, d) <=> \E i \in 1 .. n : queue[i] = Event(u, d)
    BY <1>1 DEF Waiting
  <2>3. (e = Event(u, d) <=> u = t /\ d = c) /\ (f = Event(u, d) <=> u = v /\ d = c)
    BY <1>2, EventIs
  <2>4. n + 1 \in 1 .. n + 2 /\ n + 2 \in 1 .. n + 2 /\ \A i \in 1 .. n : i \in 1 .. n + 2
    BY <1>1
  <2>5. QED
    BY <1>6, <1>7, <1>8, <2>1, <2>2, <2>3, <2>4
<1>11. QED
  BY <1>5, <1>9, <1>10 DEF QueueOK, AddsTwo

LEMMA RefreshSends ==
  ASSUME Base, NEW c \in Calls, generate_refresh_token(c)
  PROVE  AddsTwo("StoreRefreshToken", "IsRefreshTokenValid", c)
<1>1. /\ ~Waiting("StoreRefreshToken", c) /\ ~Waiting("IsRefreshTokenValid", c)
      /\ "StoreRefreshToken" \in EventTypes /\ "IsRefreshTokenValid" \in EventTypes
  BY DEF generate_refresh_token, Base, EventsFit, EventTypes, Silent
<1>2. QED
  BY <1>1, SentTwo DEF generate_refresh_token, Base

LEMMA LoginBegins ==
  ASSUME Base, NEW c \in Calls, NEW o \in Logins, BeginLogin(c, o)
  PROVE  Base'
<1>1. PICK u \in Users : Begin(c, o, u, NoCall)
  BY DEF BeginLogin
<1>2. pc[c] = "idle"
  BY <1>1 DEF Begin
<1>3. Adds("User", c)
  BY LoginSends
<1>4. CallTypes /\ EventsFit /\ CallsFit
  BY BaseParts
<1>5. /\ pc' = [pc EXCEPT ![c] = "user"] /\ op' = [op EXCEPT ![c] = o]
      /\ user' = [user EXCEPT ![c] = u] /\ arg' = [arg EXCEPT ![c] = NoCall]
      /\ UNCHANGED <<tok, seen, answer>>
  BY <1>1 DEF BeginLogin, Begin, Goto
<1>6. CallTypes'
  BY <1>4, <1>5 DEF CallTypes, Labels, Ops
<1>7. CallsFit'
  BY <1>4, <1>5 DEF CallTypes, CallsFit, Logins, Payments
<1>8. EventsFit'
  BY <1>2, <1>3, <1>4, <1>5, IdleIsSilent DEF CallTypes, EventsFit, EventTypes, Silent, Returned, Adds
<1>9. TableTypes'
  BY TablesKept DEF BeginLogin
<1>10. QED
  BY <1>3, <1>6, <1>7, <1>8, <1>9, BasePartsNext DEF Adds

LEMMA ClaimsBegin ==
  ASSUME Base, NEW c \in Calls, NEW o \in Managing, NEW t \in held, NEW a \in Calls \cup {NoCall},
         o = "revoke" => a \in Calls, Begin(c, o, t[1], a), get_claims_from_token(c, t)
  PROVE  Base'
<1>1. pc[c] = "idle"
  BY DEF Begin
<1>2. Adds("IsRefreshTokenValid", c)
  BY <1>1, ClaimsSends
<1>3. CallTypes /\ EventsFit /\ CallsFit
  BY BaseParts
<1>4. t \in Tokens /\ t[1] \in Users
  BY BaseParts DEF TableTypes, Tokens
<1>5. /\ pc' = [pc EXCEPT ![c] = "claims"] /\ op' = [op EXCEPT ![c] = o]
      /\ user' = [user EXCEPT ![c] = t[1]] /\ arg' = [arg EXCEPT ![c] = a]
      /\ tok' = [tok EXCEPT ![c] = t] /\ UNCHANGED <<seen, answer>>
  BY DEF get_claims_from_token, Begin, Goto
<1>6. CallTypes'
  BY <1>3, <1>4, <1>5 DEF CallTypes, Labels, Ops
<1>7. CallsFit'
  BY <1>3, <1>4, <1>5 DEF CallTypes, CallsFit, Managing, Payments
<1>8. EventsFit'
  BY <1>1, <1>2, <1>3, <1>5, IdleIsSilent DEF CallTypes, EventsFit, EventTypes, Silent, Returned, Adds
<1>9. TableTypes'
  BY TablesKept DEF get_claims_from_token
<1>10. QED
  BY <1>2, <1>6, <1>7, <1>8, <1>9, BasePartsNext DEF Adds

LEMMA UseBegins == ASSUME Base, NEW c \in Calls, BeginUse(c) PROVE Base'
<1>1. PICK a \in Calls, s \in {"none", "fresh", "unsure", "revoked"} :
        Returned(a, "generate") /\ Begin(c, "use", user[a], a) /\ seen' = [seen EXCEPT ![c] = s]
  BY DEF BeginUse
<1>2. pc[c] = "idle" /\ user[a] \in Users
  BY <1>1, BaseParts DEF Begin, CallsFit, Returned
<1>3. Adds("IsApiTokenValid", c)
  BY UseSends
<1>4. CallTypes /\ EventsFit /\ CallsFit
  BY BaseParts
<1>5. /\ pc' = [pc EXCEPT ![c] = "use"] /\ op' = [op EXCEPT ![c] = "use"]
      /\ user' = [user EXCEPT ![c] = user[a]] /\ arg' = [arg EXCEPT ![c] = a]
      /\ UNCHANGED <<tok, answer>>
  BY <1>1 DEF BeginUse, Begin, Goto
<1>6. CallTypes'
  BY <1>1, <1>4, <1>2, <1>5 DEF CallTypes, Labels, Ops
<1>7. CallsFit'
  BY <1>2, <1>4, <1>5 DEF CallTypes, CallsFit, Payments
<1>8. EventsFit'
  BY <1>2, <1>3, <1>4, <1>5, IdleIsSilent DEF CallTypes, EventsFit, EventTypes, Silent, Returned, Adds
<1>9. TableTypes'
  BY TablesKept DEF BeginUse
<1>10. QED
  BY <1>3, <1>6, <1>7, <1>8, <1>9, BasePartsNext DEF Adds

(* A zkLogin signature of anybody names a zkLogin wallet. *)
LEMMA Signs ==
  ASSUME NEW u \in Users, NEW w \in Wallets
  PROVE  get_sui_address_from_signature(u, w) <=> <<u, w>> \in Signers
BY DEF get_sui_address_from_signature, Signers

LEMMA AddressBegins == ASSUME Base, NEW c \in Calls, update_sui_address(c) PROVE Base'
<1>1. PICK t \in held, w \in Wallets : <<t[1], w>> \in Signers /\ Begin(c, "address", t[1], w)
  <2>1. PICK t \in held, w \in Wallets :
          get_sui_address_from_signature(t[1], w) /\ Begin(c, "address", t[1], w)
    BY DEF update_sui_address
  <2>2. t[1] \in Users
    BY BaseParts DEF TableTypes, Tokens
  <2>3. QED
    BY <2>1, <2>2, Signs
<1>2. pc[c] = "idle" /\ t[1] \in Users
  BY <1>1, BaseParts DEF Begin, TableTypes, Tokens
<1>3. Adds("UpdateSuiAddress", c)
  BY AddressSends
<1>4. CallTypes /\ EventsFit /\ CallsFit
  BY BaseParts
<1>5. /\ pc' = [pc EXCEPT ![c] = "done"] /\ op' = [op EXCEPT ![c] = "address"]
      /\ user' = [user EXCEPT ![c] = t[1]] /\ arg' = [arg EXCEPT ![c] = w]
      /\ UNCHANGED <<tok, seen, answer>>
  BY <1>1 DEF update_sui_address, Begin, Goto
<1>6. CallTypes'
  BY <1>2, <1>4, <1>5 DEF CallTypes, Labels, Ops
<1>7. CallsFit'
  BY <1>1, <1>2, <1>4, <1>5 DEF CallTypes, CallsFit, Payments
<1>8. EventsFit'
  BY <1>2, <1>3, <1>4, <1>5, IdleIsSilent DEF CallTypes, EventsFit, EventTypes, Silent, Returned, Adds
<1>9. TableTypes'
  BY TablesKept DEF update_sui_address
<1>10. QED
  BY <1>3, <1>6, <1>7, <1>8, <1>9, BasePartsNext DEF Adds

LEMMA PaymentBegins == ASSUME Base, NEW c \in Calls, BeginPayment(c) PROVE Base'
<1>1. PICK t \in held, o \in Payments, d \in Digests : Begin(c, o, t[1], d)
  BY DEF BeginPayment
<1>2. pc[c] = "idle" /\ t[1] \in Users
  BY <1>1, BaseParts DEF Begin, TableTypes, Tokens
<1>3. Adds("InsertNewUsdcPaymentDigest", c)
  BY PaymentSends
<1>4. CallTypes /\ EventsFit /\ CallsFit
  BY BaseParts
<1>5. /\ pc' = [pc EXCEPT ![c] = "digest"] /\ op' = [op EXCEPT ![c] = o]
      /\ user' = [user EXCEPT ![c] = t[1]] /\ arg' = [arg EXCEPT ![c] = d]
      /\ UNCHANGED <<tok, seen, answer>>
  BY <1>1 DEF BeginPayment, Begin, Goto
<1>6. CallTypes'
  BY <1>2, <1>4, <1>5 DEF CallTypes, Labels, Ops
<1>7. CallsFit'
  BY <1>1, <1>2, <1>4, <1>5 DEF CallTypes, CallsFit, Payments
<1>8. EventsFit'
  BY <1>2, <1>3, <1>4, <1>5, IdleIsSilent DEF CallTypes, EventsFit, EventTypes, Silent, Returned, Adds
<1>9. TableTypes'
  BY TablesKept DEF BeginPayment
<1>10. QED
  BY <1>3, <1>6, <1>7, <1>8, <1>9, BasePartsNext DEF Adds

(* The steps of a call that has begun. *)
LEMMA RefreshBase == ASSUME Base, NEW c \in Calls, generate_refresh_token(c) PROVE Base'
<1>1. AddsTwo("StoreRefreshToken", "IsRefreshTokenValid", c)
  BY RefreshSends
<1>2. CallTypes /\ EventsFit /\ CallsFit
  BY BaseParts
<1>3. user[c] \in Users /\ op[c] \in Logins /\ pc[c] = "user_ok"
  BY <1>2 DEF CallsFit, generate_refresh_token
<1>4. PICK t \in Tokens : tok' = [tok EXCEPT ![c] = t]
  BY <1>3 DEF generate_refresh_token, Tokens
<1>5. pc' = [pc EXCEPT ![c] = "claims"] /\ UNCHANGED <<op, user, arg, seen, answer>>
  BY DEF generate_refresh_token, Goto
<1>6. CallTypes'
  BY <1>2, <1>4, <1>5 DEF CallTypes, Labels
<1>7. CallsFit'
  BY <1>2, <1>3, <1>4, <1>5 DEF CallTypes, CallsFit, Payments, Logins
<1>8. EventsFit'
  BY <1>1, <1>2, <1>3, <1>4, <1>5 DEF CallTypes, EventsFit, EventTypes, Silent, Returned, AddsTwo
<1>9. TableTypes'
  BY TablesKept DEF generate_refresh_token
<1>10. QED
  BY <1>1, <1>6, <1>7, <1>8, <1>9, BasePartsNext DEF AddsTwo

(* A step that moves one call on, and nothing but pc of the calls. *)
Moves(c, from, label) ==
  pc[c] = from /\ pc' = [pc EXCEPT ![c] = label] /\ UNCHANGED <<op, user, arg, tok, seen>>

LEMMA LoginDoneBase == ASSUME Base, NEW c \in Calls, LoginDone(c) PROVE Base'
<1>1. Keeps
  BY Kept DEF LoginDone, Base
<1>2. CallTypes /\ EventsFit /\ CallsFit /\ TableTypes
  BY BaseParts
<1>3. Moves(c, "claims_ok", "done") /\ UNCHANGED answer /\ op[c] \in Logins
  BY DEF LoginDone, Goto, Moves
<1>4. CallTypes'
  BY <1>2, <1>3 DEF CallTypes, Labels, Moves
<1>5. CallsFit'
  BY <1>2, <1>3 DEF CallTypes, CallsFit, Logins, Moves
<1>6. EventsFit'
  BY <1>1, <1>2, <1>3 DEF CallTypes, EventsFit, EventTypes, Silent, Returned, Keeps, Moves
<1>7. held' \subseteq Tokens
  BY <1>2 DEF LoginDone, CallsFit, TableTypes
<1>8. TableTypes'
  BY <1>2, <1>7 DEF LoginDone, TableTypes, KindOK, accounts, money, faults
<1>9. QED
  BY <1>1, <1>4, <1>5, <1>6, <1>8, BasePartsNext DEF Keeps

LEMMA GenerateBase == ASSUME Base, NEW c \in Calls, generate_api_token(c) PROVE Base'
<1>1. Adds("StoreNewApiToken", c)
  BY GenerateSends
<1>2. CallTypes /\ EventsFit /\ CallsFit
  BY BaseParts
<1>3. Moves(c, "claims_ok", "done") /\ UNCHANGED answer /\ op[c] = "generate"
  BY <1>2 DEF generate_api_token, Goto, Moves, CallsFit
<1>4. CallTypes'
  BY <1>2, <1>3 DEF CallTypes, Labels, Moves
<1>5. CallsFit'
  BY <1>2, <1>3 DEF CallTypes, CallsFit, Logins, Moves
<1>6. EventsFit'
  BY <1>1, <1>2, <1>3 DEF CallTypes, EventsFit, EventTypes, Silent, Returned, Adds, Moves
<1>7. TableTypes'
  BY TablesKept DEF generate_api_token
<1>8. QED
  BY <1>1, <1>4, <1>5, <1>6, <1>7, BasePartsNext DEF Adds

LEMMA RevokeBase == ASSUME Base, NEW c \in Calls, revoke_api_token(c) PROVE Base'
<1>1. Adds("RevokeApiToken", c)
  BY RevokeSends
<1>2. CallTypes /\ EventsFit /\ CallsFit
  BY BaseParts
<1>3. Moves(c, "claims_ok", "done") /\ UNCHANGED answer /\ op[c] = "revoke"
  BY <1>2 DEF revoke_api_token, Goto, Moves, CallsFit
<1>4. CallTypes'
  BY <1>2, <1>3 DEF CallTypes, Labels, Moves
<1>5. CallsFit'
  BY <1>2, <1>3 DEF CallTypes, CallsFit, Logins, Moves
<1>6. EventsFit'
  BY <1>1, <1>2, <1>3 DEF CallTypes, EventsFit, EventTypes, Silent, Returned, Adds, Moves
<1>7. TableTypes'
  BY TablesKept DEF revoke_api_token
<1>8. QED
  BY <1>1, <1>4, <1>5, <1>6, <1>7, BasePartsNext DEF Adds

LEMMA TopUpBase == ASSUME Base, NEW c \in Calls, TopUpBalance(c) PROVE Base'
<1>1. Adds("TopUpBalance", c)
  BY TopUpSends
<1>2. CallTypes /\ EventsFit /\ CallsFit
  BY BaseParts
<1>3. Moves(c, "confirmed", "done") /\ UNCHANGED answer /\ op[c] \in Payments
  BY <1>2 DEF TopUpBalance, Goto, Moves, CallsFit
<1>4. CallTypes'
  BY <1>2, <1>3 DEF CallTypes, Labels, Moves
<1>5. CallsFit'
  BY <1>2, <1>3 DEF CallTypes, CallsFit, Logins, Moves
<1>6. EventsFit'
  BY <1>1, <1>2, <1>3 DEF CallTypes, EventsFit, EventTypes, Silent, Returned, Adds, Moves
<1>7. TableTypes'
  BY TablesKept DEF TopUpBalance
<1>8. QED
  BY <1>1, <1>4, <1>5, <1>6, <1>7, BasePartsNext DEF Adds

LEMMA SaltBase == ASSUME Base, NEW c \in Calls, get_zk_salt(c) \/ set_zk_salt(c) PROVE Base'
<1>1. Keeps
  BY Kept DEF get_zk_salt, set_zk_salt, Base
<1>2. CallTypes /\ EventsFit /\ CallsFit /\ TableTypes
  BY BaseParts
<1>3. op[c] = "salt" /\ user[c] \in Users
  BY <1>2 DEF get_zk_salt, set_zk_salt, CallsFit
<1>4. \E from \in {"claims_ok", "salt"}, to \in {"salt", "done"} : Moves(c, from, to)
  BY DEF get_zk_salt, set_zk_salt, Goto, Moves
<1>5. PICK s \in Calls \cup {NoCall} : answer' = [answer EXCEPT ![c] = s] \/ UNCHANGED answer
  BY <1>2, <1>3 DEF get_zk_salt, set_zk_salt, TableTypes
<1>6. CallTypes'
  BY <1>2, <1>4, <1>5 DEF CallTypes, Labels, Moves
<1>7. CallsFit'
  BY <1>2, <1>3, <1>4 DEF CallTypes, CallsFit, Moves
<1>8. EventsFit'
  BY <1>1, <1>2, <1>3, <1>4 DEF CallTypes, EventsFit, EventTypes, Silent, Returned, Keeps, Moves
<1>9. salt' \in [Users -> Calls \cup {NoCall}]
  BY <1>2, <1>3 DEF get_zk_salt, set_zk_salt, TableTypes, accounts
<1>10. UNCHANGED <<held, users, refresh, api, address, money, kind, faults>>
  BY DEF get_zk_salt, set_zk_salt, accounts
<1>11. TableTypes'
  BY <1>2, <1>9, <1>10 DEF TableTypes, KindOK, money, faults
<1>12. QED
  BY <1>1, <1>6, <1>7, <1>8, <1>11, BasePartsNext DEF Keeps

LEMMA ChangesBase ==
  ASSUME Base, NEW c \in Calls, NEW k \in Kinds, BalanceChanges(c, k)
  PROVE  Base'
<1>1. ASSUME k = "deposit", op[c] = "payment"
      PROVE CallTypes' /\ CallsFit' /\ EventsFit' /\ QueueOK'
  <2>1. Adds("ConfirmUser", c)
    BY <1>1, ChangesSend
  <2>2. Moves(c, "digest_ok", "confirm") /\ UNCHANGED answer
    BY <1>1 DEF BalanceChanges, Goto, Moves
  <2>3. CallTypes /\ EventsFit /\ CallsFit
    BY BaseParts
  <2>4. CallTypes' /\ CallsFit'
    BY <2>2, <2>3 DEF CallTypes, Labels, CallsFit, Moves
  <2>5. EventsFit'
    BY <2>1, <2>2, <2>3 DEF CallTypes, EventsFit, EventTypes, Silent, Returned, Adds, Moves
  <2>6. QED
    BY <2>1, <2>4, <2>5 DEF Adds
<1>2. ASSUME ~(k = "deposit" /\ op[c] = "payment")
      PROVE CallTypes' /\ CallsFit' /\ EventsFit' /\ QueueOK'
  <2>1. Keeps
    BY <1>2, ChangesSend
  <2>2. UNCHANGED answer /\ \E to \in {"failed", "done", "confirmed"} : Moves(c, "digest_ok", to)
    BY <1>2 DEF BalanceChanges, Goto, Moves
  <2>3. CallTypes /\ EventsFit /\ CallsFit
    BY BaseParts
  <2>4. CallTypes' /\ CallsFit'
    BY <2>2, <2>3 DEF CallTypes, Labels, CallsFit, Moves
  <2>5. EventsFit'
    BY <2>1, <2>2, <2>3 DEF CallTypes, EventsFit, EventTypes, Silent, Returned, Keeps, Moves
  <2>6. QED
    BY <2>1, <2>4, <2>5 DEF Keeps
<1>3. CallTypes' /\ CallsFit' /\ EventsFit' /\ QueueOK'
  BY <1>1, <1>2
<1>4. TableTypes'
  BY BaseParts DEF BalanceChanges, TableTypes, KindOK, accounts, money, faults
<1>5. QED
  BY <1>3, <1>4, BasePartsNext

LEMMA SuiFailsBase == ASSUME Base, NEW c \in Calls, SuiFails(c) PROVE Base'
<1>1. Keeps
  BY Kept DEF SuiFails, Base
<1>2. CallTypes /\ EventsFit /\ CallsFit /\ TableTypes
  BY BaseParts
<1>3. Moves(c, "digest_ok", "failed") /\ UNCHANGED answer
  BY DEF SuiFails, Goto, Moves
<1>4. CallTypes' /\ CallsFit'
  BY <1>2, <1>3 DEF CallTypes, Labels, CallsFit, Moves
<1>5. EventsFit'
  BY <1>1, <1>2, <1>3 DEF CallTypes, EventsFit, EventTypes, Silent, Returned, Keeps, Moves
<1>6. errors' \in Nat /\ crashes' \in Nat /\ errors' + crashes' <= MaxFaults
  BY <1>2, BoundsAssumption DEF SuiFails, TableTypes
<1>7. TableTypes'
  BY <1>2, <1>6 DEF SuiFails, TableTypes, KindOK, accounts, money
<1>8. QED
  BY <1>1, <1>4, <1>5, <1>7, BasePartsNext DEF Keeps

-----------------------------------------------------------------------------
(* The state manager.                                                      *)

(* The events that handlers take. *)
LEMMA Handles ==
  ASSUME Base, NEW c \in Calls, NEW t \in EventTypes, Taken(t, c), Take
  PROVE  Drops(t, c)
  BY Took DEF Base

LEMMA UserBase == ASSUME Base, NEW c \in Calls, HandleUser(c) PROVE Base'
<1>1. Drops("User", c)
  BY Handles DEF HandleUser, EventTypes
<1>2. CallTypes /\ EventsFit /\ CallsFit /\ TableTypes
  BY BaseParts
<1>3. UNCHANGED answer /\ \E to \in {"user_ok", "failed"} : Moves(c, "user", to)
  BY <1>1, <1>2 DEF HandleUser, Answer, Goto, Moves, EventsFit, Drops
<1>4. CallTypes' /\ CallsFit'
  BY <1>2, <1>3 DEF CallTypes, Labels, CallsFit, Moves
<1>5. EventsFit'
  BY <1>1, <1>2, <1>3 DEF CallTypes, EventsFit, EventTypes, Silent, Returned, Drops, Moves
<1>6. users' \subseteq Users
  BY <1>2, <1>3 DEF HandleUser, TableTypes, CallsFit, Moves
<1>7. TableTypes'
  BY <1>2, <1>6 DEF HandleUser, TableTypes, KindOK, money, faults
<1>8. QED
  BY <1>1, <1>4, <1>5, <1>7, BasePartsNext DEF Drops

LEMMA StoreRefreshBase == ASSUME Base, NEW c \in Calls, store_refresh_token(c) PROVE Base'
<1>1. Drops("StoreRefreshToken", c)
  BY Handles DEF store_refresh_token, EventTypes, Silent
<1>2. CallTypes /\ EventsFit /\ CallsFit /\ TableTypes
  BY BaseParts
<1>3. UNCHANGED calls
  BY DEF store_refresh_token
<1>4. CallTypes' /\ CallsFit'
  BY <1>2, <1>3 DEF CallTypes, Labels, CallsFit, calls
<1>5. EventsFit'
  BY <1>1, <1>2, <1>3 DEF CallTypes, EventsFit, EventTypes, Silent, Returned, Drops, calls
<1>6. refresh' \subseteq Tokens
  BY <1>1, <1>2 DEF store_refresh_token, EventsFit, Drops, TableTypes
<1>7. TableTypes'
  BY <1>2, <1>6 DEF store_refresh_token, TableTypes, KindOK, money, faults
<1>8. QED
  BY <1>1, <1>4, <1>5, <1>7, BasePartsNext DEF Drops

LEMMA StoreApiBase == ASSUME Base, NEW c \in Calls, store_api_token(c) PROVE Base'
<1>1. Drops("StoreNewApiToken", c)
  BY Handles DEF store_api_token, EventTypes, Silent
<1>2. CallTypes /\ EventsFit /\ CallsFit /\ TableTypes
  BY BaseParts
<1>3. UNCHANGED calls
  BY DEF store_api_token
<1>4. CallTypes' /\ CallsFit'
  BY <1>2, <1>3 DEF CallTypes, Labels, CallsFit, calls
<1>5. EventsFit'
  BY <1>1, <1>2, <1>3 DEF CallTypes, EventsFit, EventTypes, Silent, Returned, Drops, calls
<1>6. api' \in [Calls -> {"none", "stored", "deleted"}]
  BY <1>1, <1>2 DEF store_api_token, TableTypes
<1>7. TableTypes'
  BY <1>2, <1>6 DEF store_api_token, TableTypes, KindOK, money, faults
<1>8. QED
  BY <1>1, <1>4, <1>5, <1>7, BasePartsNext DEF Drops

LEMMA DeleteApiBase == ASSUME Base, NEW c \in Calls, delete_api_token(c) PROVE Base'
<1>1. Drops("RevokeApiToken", c)
  BY Handles DEF delete_api_token, EventTypes, Silent
<1>2. CallTypes /\ EventsFit /\ CallsFit /\ TableTypes
  BY BaseParts
<1>3. UNCHANGED calls
  BY DEF delete_api_token
<1>4. CallTypes' /\ CallsFit'
  BY <1>2, <1>3 DEF CallTypes, Labels, CallsFit, calls
<1>5. EventsFit'
  BY <1>1, <1>2, <1>3 DEF CallTypes, EventsFit, EventTypes, Silent, Returned, Drops, calls
<1>6. api' \in [Calls -> {"none", "stored", "deleted"}]
  BY <1>1, <1>2 DEF delete_api_token, TableTypes
<1>7. TableTypes'
  BY <1>2, <1>6 DEF delete_api_token, TableTypes, KindOK, money, faults
<1>8. QED
  BY <1>1, <1>4, <1>5, <1>7, BasePartsNext DEF Drops

LEMMA SuiAddressBase == ASSUME Base, NEW c \in Calls, HandleSuiAddress(c) PROVE Base'
<1>1. Drops("UpdateSuiAddress", c)
  BY Handles DEF HandleSuiAddress, EventTypes, Silent
<1>2. CallTypes /\ EventsFit /\ CallsFit /\ TableTypes
  BY BaseParts
<1>3. UNCHANGED calls
  BY DEF HandleSuiAddress
<1>4. CallTypes' /\ CallsFit'
  BY <1>2, <1>3 DEF CallTypes, Labels, CallsFit, calls
<1>5. EventsFit'
  BY <1>1, <1>2, <1>3 DEF CallTypes, EventsFit, EventTypes, Silent, Returned, Drops, calls
<1>6. address' \in [Users -> Wallets \cup {NoWallet}]
  BY <1>1, <1>2 DEF HandleSuiAddress, TableTypes, CallsFit, EventsFit, Drops, Returned
<1>7. TableTypes'
  BY <1>2, <1>6 DEF HandleSuiAddress, TableTypes, KindOK, money, faults
<1>8. QED
  BY <1>1, <1>4, <1>5, <1>7, BasePartsNext DEF Drops

LEMMA ValidBase == ASSUME Base, NEW c \in Calls, is_refresh_token_valid(c) PROVE Base'
<1>1. Drops("IsRefreshTokenValid", c)
  BY Handles DEF is_refresh_token_valid, EventTypes
<1>2. CallTypes /\ EventsFit /\ CallsFit
  BY BaseParts
<1>3. UNCHANGED answer /\ \E to \in {"claims_ok", "failed"} : Moves(c, "claims", to)
  BY <1>1, <1>2 DEF is_refresh_token_valid, Answer, Goto, Moves, EventsFit, Drops
<1>4. CallTypes' /\ CallsFit'
  BY <1>2, <1>3 DEF CallTypes, Labels, CallsFit, Moves
<1>5. EventsFit'
  BY <1>1, <1>2, <1>3 DEF CallTypes, CallsFit, EventsFit, EventTypes, Silent, Returned, Drops, Moves
<1>6. TableTypes'
  BY TablesKept DEF is_refresh_token_valid
<1>7. QED
  BY <1>1, <1>4, <1>5, <1>6, BasePartsNext DEF Drops

LEMMA ApiValidBase == ASSUME Base, NEW c \in Calls, is_api_token_valid(c) PROVE Base'
<1>1. Drops("IsApiTokenValid", c)
  BY Handles DEF is_api_token_valid, EventTypes
<1>2. CallTypes /\ EventsFit /\ CallsFit
  BY BaseParts
<1>3. UNCHANGED answer /\ \E to \in {"done", "failed"} : Moves(c, "use", to)
  BY <1>1, <1>2 DEF is_api_token_valid, Answer, Goto, Moves, EventsFit, Drops
<1>4. CallTypes' /\ CallsFit'
  BY <1>2, <1>3 DEF CallTypes, Labels, CallsFit, Moves
<1>5. EventsFit'
  BY <1>1, <1>2, <1>3 DEF CallTypes, CallsFit, EventsFit, EventTypes, Silent, Returned, Drops, Moves
<1>6. TableTypes'
  BY TablesKept DEF is_api_token_valid
<1>7. QED
  BY <1>1, <1>4, <1>5, <1>6, BasePartsNext DEF Drops

LEMMA ConfirmBase == ASSUME Base, NEW c \in Calls, HandleConfirmUser(c) PROVE Base'
<1>1. Drops("ConfirmUser", c)
  BY Handles DEF HandleConfirmUser, EventTypes
<1>2. CallTypes /\ EventsFit /\ CallsFit
  BY BaseParts
<1>3. UNCHANGED answer /\ \E to \in {"confirmed", "failed"} : Moves(c, "confirm", to)
  BY <1>1, <1>2 DEF HandleConfirmUser, Answer, Goto, Moves, EventsFit, Drops
<1>4. CallTypes' /\ CallsFit'
  BY <1>2, <1>3 DEF CallTypes, Labels, CallsFit, Moves
<1>5. EventsFit'
  BY <1>1, <1>2, <1>3 DEF CallTypes, CallsFit, EventsFit, EventTypes, Silent, Returned, Drops, Moves
<1>6. TableTypes'
  BY TablesKept DEF HandleConfirmUser
<1>7. QED
  BY <1>1, <1>4, <1>5, <1>6, BasePartsNext DEF Drops

LEMMA DigestBase == ASSUME Base, NEW c \in Calls, insert_new_usdc_payment_digest(c) PROVE Base'
<1>1. Drops("InsertNewUsdcPaymentDigest", c)
  BY Handles DEF insert_new_usdc_payment_digest, EventTypes
<1>2. CallTypes /\ EventsFit /\ CallsFit /\ TableTypes
  BY BaseParts
<1>3. UNCHANGED answer /\ \E to \in {"digest_ok", "failed"} : Moves(c, "digest", to)
  BY <1>1, <1>2 DEF insert_new_usdc_payment_digest, Answer, Goto, Moves, EventsFit, Drops
<1>4. CallTypes' /\ CallsFit'
  BY <1>2, <1>3 DEF CallTypes, Labels, CallsFit, Moves
<1>5. EventsFit'
  BY <1>1, <1>2, <1>3 DEF CallTypes, EventsFit, EventTypes, Silent, Returned, Drops, Moves
<1>6. digests' \subseteq Digests
  BY <1>2, <1>3 DEF insert_new_usdc_payment_digest, TableTypes, CallsFit, Moves
<1>7. TableTypes'
  BY <1>2, <1>6 DEF insert_new_usdc_payment_digest, TableTypes, KindOK, accounts, faults
<1>8. QED
  BY <1>1, <1>4, <1>5, <1>7, BasePartsNext DEF Drops

LEMMA CreditBase == ASSUME Base, NEW c \in Calls, top_up_crypto_balance(c) PROVE Base'
<1>1. Drops("TopUpBalance", c)
  BY Handles DEF top_up_crypto_balance, EventTypes, Silent
<1>2. CallTypes /\ EventsFit /\ CallsFit /\ TableTypes
  BY BaseParts
<1>3. UNCHANGED calls
  BY DEF top_up_crypto_balance
<1>4. CallTypes' /\ CallsFit'
  BY <1>2, <1>3 DEF CallTypes, Labels, CallsFit, calls
<1>5. EventsFit'
  BY <1>1, <1>2, <1>3 DEF CallTypes, EventsFit, EventTypes, Silent, Returned, Drops, calls
<1>6. arg[c] \in Digests /\ user[c] \in Users /\ Amount[arg[c]] \in Nat
  BY <1>1, <1>2, DigestsAssumption DEF EventsFit, CallsFit, Drops
<1>7. balance' \in [Users -> Nat] /\ credit' \in [Digests -> Users \cup {NoUser}]
  BY <1>2, <1>6 DEF top_up_crypto_balance, TableTypes
<1>8. TableTypes'
  BY <1>2, <1>7 DEF top_up_crypto_balance, TableTypes, KindOK, accounts, faults
<1>9. QED
  BY <1>1, <1>4, <1>5, <1>8, BasePartsNext DEF Drops

(* The event of a database error. *)
LEMMA ErrorDrops ==
  ASSUME Base, DatabaseError
  PROVE  \E t \in EventTypes, c \in Calls :
           /\ Drops(t, c) /\ queue[1] = Event(t, c)
           /\ IF t \in Silent THEN UNCHANGED pc ELSE Goto(c, "failed")
<1>1. queue # <<>> /\ queue \in Seq(Events)
  BY DEF DatabaseError, Base, QueueOK
<1>2. PICK e \in Events : e = queue[1]
  BY <1>1
<1>3. e.type \in EventTypes /\ e.call \in Calls /\ e = Event(e.type, e.call)
  BY <1>2 DEF Events, Event
<1>4. Taken(e.type, e.call)
  BY <1>1, <1>2, <1>3 DEF Taken, Position
<1>5. Drops(e.type, e.call)
  BY <1>3, <1>4, Handles DEF DatabaseError
<1>6. IF e.type \in Silent THEN UNCHANGED pc ELSE Goto(e.call, "failed")
  BY <1>2 DEF DatabaseError, Position
<1>7. QED
  BY <1>2, <1>3, <1>5, <1>6

LEMMA ErrorBase == ASSUME Base, DatabaseError PROVE Base'
<1>1. PICK t \in EventTypes, c \in Calls :
        Drops(t, c) /\ IF t \in Silent THEN UNCHANGED pc ELSE Goto(c, "failed")
  BY ErrorDrops
<1>2. CallTypes /\ EventsFit /\ CallsFit /\ TableTypes
  BY BaseParts
<1>3. UNCHANGED <<op, user, arg, tok, seen, answer>>
  BY DEF DatabaseError
<1>4. ASSUME t \in Silent PROVE CallTypes' /\ CallsFit' /\ EventsFit'
  <2>1. CallTypes' /\ CallsFit'
    BY <1>1, <1>2, <1>3, <1>4 DEF CallTypes, Labels, CallsFit
  <2>2. EventsFit'
    BY <1>1, <1>2, <1>3, <1>4 DEF CallTypes, EventsFit, EventTypes, Silent, Returned, Drops
  <2>3. QED
    BY <2>1, <2>2
<1>5. ASSUME t \notin Silent PROVE CallTypes' /\ CallsFit' /\ EventsFit'
  <2>1. CallTypes' /\ CallsFit'
    BY <1>1, <1>2, <1>3, <1>5 DEF CallTypes, Labels, CallsFit, Goto, EventsFit, Drops, EventTypes
  <2>2. EventsFit'
    BY <1>1, <1>2, <1>3, <1>5 DEF CallTypes, EventsFit, EventTypes, Silent, Returned, Drops, Goto
  <2>3. QED
    BY <2>1, <2>2
<1>6. errors' \in Nat /\ crashes' \in Nat /\ errors' + crashes' <= MaxFaults
  BY <1>2, BoundsAssumption DEF DatabaseError, TableTypes
<1>7. TableTypes'
  BY <1>2, <1>6 DEF DatabaseError, TableTypes, KindOK, accounts, money
<1>8. QED
  BY <1>1, <1>4, <1>5, <1>7, BasePartsNext DEF Drops

LEMMA CrashDrops ==
  ASSUME Crash PROVE QueueOK' /\ \A t \in EventTypes, c \in Calls : ~Waiting(t, c)'
<1>1. queue' = <<>>
  BY DEF Crash
<1>2. QED
  BY <1>1 DEF QueueOK, Waiting

LEMMA CrashBase == ASSUME Base, Crash PROVE Base'
<1>1. QueueOK' /\ \A t \in EventTypes, c \in Calls : ~Waiting(t, c)'
  BY CrashDrops
<1>2. CallTypes /\ EventsFit /\ CallsFit /\ TableTypes
  BY BaseParts
<1>3. pc' = [c \in Calls |-> IF pc[c] \in {"idle", "done"} THEN pc[c] ELSE "failed"]
      /\ UNCHANGED <<op, user, arg, tok, seen, answer>>
  BY DEF Crash
<1>4. CallTypes'
  BY <1>2, <1>3 DEF CallTypes, Labels
<1>5. CallsFit'
  BY <1>2, <1>3 DEF CallTypes, CallsFit
<1>6. EventsFit'
  BY <1>1 DEF EventsFit, EventTypes, Silent
<1>7. errors' \in Nat /\ crashes' \in Nat /\ errors' + crashes' <= MaxFaults
  BY <1>2, BoundsAssumption DEF Crash, TableTypes
<1>8. TableTypes'
  BY <1>2, <1>7 DEF Crash, TableTypes, KindOK, accounts, money
<1>9. QED
  BY <1>1, <1>4, <1>5, <1>6, <1>8, BasePartsNext

LEMMA StutterBase == ASSUME Base, UNCHANGED vars PROVE Base'
<1>1. Keeps
  BY Kept DEF Base, vars
<1>2. CallTypes /\ EventsFit /\ CallsFit
  BY BaseParts
<1>3. UNCHANGED calls
  BY DEF vars
<1>4. CallTypes' /\ CallsFit'
  BY <1>2, <1>3 DEF CallTypes, CallsFit, calls
<1>5. EventsFit'
  BY <1>1, <1>2, <1>3 DEF EventsFit, EventTypes, Silent, Returned, Keeps, calls
<1>6. TableTypes'
  BY TablesKept DEF vars
<1>7. QED
  BY <1>1, <1>4, <1>5, <1>6, BasePartsNext DEF Keeps

(* A call that begins with get_claims_from_token. *)
LEMMA Managers ==
  ASSUME Base, NEW c \in Calls, GenerateApiToken(c) \/ RevokeApiToken(c) \/ GetZkSalt(c)
  PROVE  \E t \in held, o \in Managing, a \in Calls \cup {NoCall} :
           /\ Begin(c, o, t[1], a) /\ get_claims_from_token(c, t)
           /\ o = "revoke" => a \in Calls /\ api[a] = "stored" /\ user[a] = t[1]
  BY DEF GenerateApiToken, RevokeApiToken, GetZkSalt, Managing, get_all_api_tokens

LEMMA BaseNext == ASSUME Base, [Next]_vars PROVE Base'
<1>1. ASSUME NEW c \in Calls, StartCall(c) PROVE Base'
  <2>1. CASE Register(c) \/ Login(c) \/ GoogleOauth(c)
    BY <2>1, LoginBegins DEF Register, Login, GoogleOauth, Logins
  <2>2. CASE GenerateApiToken(c) \/ RevokeApiToken(c) \/ GetZkSalt(c)
    BY <2>2, Managers, ClaimsBegin
  <2>3. CASE BeginUse(c) \/ update_sui_address(c) \/ BeginPayment(c)
    BY <2>3, UseBegins, AddressBegins, PaymentBegins
  <2>4. QED
    BY <1>1, <2>1, <2>2, <2>3 DEF StartCall
<1>2. ASSUME NEW c \in Calls, ContinueCall(c) PROVE Base'
  BY <1>2, RefreshBase, LoginDoneBase, GenerateBase, RevokeBase, SaltBase, ChangesBase, TopUpBase
     DEF ContinueCall
<1>3. ASSUME NEW c \in Calls, HandleEvent(c) PROVE Base'
  BY <1>3, UserBase, StoreRefreshBase, ValidBase, StoreApiBase, DeleteApiBase, ApiValidBase,
     SuiAddressBase, DigestBase, ConfirmBase, CreditBase DEF HandleEvent
<1>4. QED
  BY <1>1, <1>2, <1>3, SuiFailsBase, ErrorBase, CrashBase, StutterBase DEF Next, StateManager

-----------------------------------------------------------------------------
(* Money.                                                                  *)

(* A step that has nothing to do with payments. *)
Paying == {"digest_ok", "confirm", "confirmed"}
MoneyKept ==
  /\ UNCHANGED <<digests, balance, credit, kind, address>>
  /\ \A c \in Calls :
       /\ Waiting("TopUpBalance", c)' => Waiting("TopUpBalance", c)
       /\ pc'[c] \in Paying => pc'[c] = pc[c]
       /\ pc[c] # "idle" => user'[c] = user[c] /\ arg'[c] = arg[c]

LEMMA BalanceKept == ASSUME BalanceOK, UNCHANGED <<balance, credit>> PROVE BalanceOK'
  BY DEF BalanceOK, Credited, IsSum, SumOver, Units

LEMMA MoneyFrame == ASSUME Base, Money, MoneyKept PROVE Money'
<1>1. \A c \in Calls : Waiting("TopUpBalance", c) => pc[c] = "done"
  BY DEF Base, EventsFit
<1>2. \A c \in Calls : Claims(c)' => Claims(c) /\ user'[c] = user[c] /\ arg'[c] = arg[c]
  BY <1>1 DEF Claims, MoneyKept, Paying
<1>3. \A c \in Calls : /\ Approved(c)' => Approved(c) /\ Claims(c)'
                       /\ pc'[c] = "confirm" => pc[c] = "confirm" /\ Claims(c)'
  BY DEF Approved, Claims, MoneyKept, Paying
<1>4. UNCHANGED <<digests, balance, credit, kind, address>>
  BY DEF MoneyKept
<1>5. ClaimsOK'
  BY <1>2, <1>4 DEF Money, ClaimsOK
<1>6. SignedOK'
  BY <1>2, <1>3, <1>4 DEF Money, SignedOK
<1>7. CreditOK'
  BY <1>4 DEF Money, CreditOK
<1>8. BalanceOK'
  BY <1>4, BalanceKept DEF Money
<1>9. QED
  BY <1>5, <1>6, <1>7, <1>8 DEF Money

(* Calls that begin, logins and API tokens. *)
LEMMA StartKeepsMoney == ASSUME Base, NEW c \in Calls, StartCall(c) PROVE MoneyKept
<1>1. pc \in [Calls -> Labels] /\ user \in [Calls -> Users \cup {NoUser}]
      /\ arg \in [Calls -> Calls \cup {NoCall} \cup Wallets \cup Digests]
  BY BaseParts DEF CallTypes
<1>2. PICK o, u, a : Begin(c, o, u, a)
  BY Managers DEF StartCall, Register, Login, GoogleOauth, BeginLogin, BeginUse,
     update_sui_address, BeginPayment
<1>3. /\ pc[c] = "idle" /\ user' = [user EXCEPT ![c] = u] /\ arg' = [arg EXCEPT ![c] = a]
  BY <1>2 DEF Begin
<1>4. \E l \in {"user", "claims", "use", "done", "digest"} : pc' = [pc EXCEPT ![c] = l]
  BY Managers DEF StartCall, Register, Login, GoogleOauth, BeginLogin, BeginUse,
     update_sui_address, BeginPayment, get_claims_from_token, Goto
<1>5. \E t \in EventTypes \ {"TopUpBalance"} : Adds(t, c)
  BY <1>3, Managers, LoginSends, ClaimsSends, UseSends, AddressSends, PaymentSends
     DEF StartCall, Register, Login, GoogleOauth, EventTypes, Silent
<1>6. UNCHANGED <<digests, balance, credit, kind, address>>
  BY Managers DEF StartCall, Register, Login, GoogleOauth, BeginLogin, BeginUse,
     update_sui_address, BeginPayment, get_claims_from_token, accounts, money
<1>7. "TopUpBalance" \in EventTypes
  BY DEF EventTypes, Silent
<1>8. QED
  BY <1>1, <1>3, <1>4, <1>5, <1>6, <1>7 DEF MoneyKept, Paying, Adds

LEMMA LoginKeepsMoney ==
  ASSUME Base, NEW c \in Calls,
         \/ generate_refresh_token(c) \/ LoginDone(c) \/ generate_api_token(c)
         \/ revoke_api_token(c) \/ get_zk_salt(c) \/ set_zk_salt(c) \/ SuiFails(c)
  PROVE  MoneyKept
<1>1. pc \in [Calls -> Labels]
  BY BaseParts DEF CallTypes
<1>2. /\ \E l \in {"claims", "done", "salt", "failed"} : pc' = [pc EXCEPT ![c] = l]
      /\ UNCHANGED <<user, arg, digests, balance, credit, kind, address>>
  BY DEF generate_refresh_token, LoginDone, generate_api_token, revoke_api_token, get_zk_salt,
     set_zk_salt, SuiFails, Goto, accounts, money
<1>3. "TopUpBalance" \in EventTypes
  BY DEF EventTypes, Silent
<1>4. \A d \in Calls : Waiting("TopUpBalance", d)' => Waiting("TopUpBalance", d)
  <2>1. CASE generate_refresh_token(c)
    BY <1>3, <2>1, RefreshSends DEF AddsTwo
  <2>2. CASE generate_api_token(c) \/ revoke_api_token(c)
    BY <1>3, <2>2, GenerateSends, RevokeSends DEF Adds
  <2>3. CASE LoginDone(c) \/ get_zk_salt(c) \/ set_zk_salt(c) \/ SuiFails(c)
    <3>1. UNCHANGED queue
      BY <2>3 DEF LoginDone, get_zk_salt, set_zk_salt, SuiFails
    <3>2. QED
      BY <1>3, <3>1, Kept DEF Keeps, Base
  <2>4. QED
    BY <2>1, <2>2, <2>3
<1>5. QED
  BY <1>1, <1>2, <1>4 DEF MoneyKept, Paying

LEMMA ManagerKeepsMoney ==
  ASSUME Base, NEW c \in Calls,
         \/ HandleUser(c) \/ store_refresh_token(c) \/ is_refresh_token_valid(c)
         \/ store_api_token(c) \/ delete_api_token(c) \/ is_api_token_valid(c)
  PROVE  MoneyKept
<1>1. pc \in [Calls -> Labels]
  BY BaseParts DEF CallTypes
<1>2. /\ UNCHANGED pc \/ \E l \in {"user_ok", "claims_ok", "done", "failed"} : pc' = [pc EXCEPT ![c] = l]
      /\ UNCHANGED <<user, arg, digests, balance, credit, kind, address>>
  BY DEF HandleUser, store_refresh_token, is_refresh_token_valid, store_api_token,
     delete_api_token, is_api_token_valid, Answer, Goto, accounts, money, calls
<1>3. \E t \in EventTypes : Drops(t, c)
  BY Handles DEF HandleUser, store_refresh_token, is_refresh_token_valid, store_api_token,
     delete_api_token, is_api_token_valid, EventTypes, Silent
<1>4. "TopUpBalance" \in EventTypes
  BY DEF EventTypes, Silent
<1>5. QED
  BY <1>1, <1>2, <1>3, <1>4 DEF MoneyKept, Paying, Drops

LEMMA FaultKeepsMoney == ASSUME Base, DatabaseError \/ Crash \/ UNCHANGED vars PROVE MoneyKept
<1>1. pc \in [Calls -> Labels] /\ "TopUpBalance" \in EventTypes
  BY BaseParts DEF CallTypes, EventTypes, Silent
<1>2. UNCHANGED <<user, arg, digests, balance, credit, kind, address>>
  BY DEF DatabaseError, Crash, vars, calls, accounts, money
<1>3. CASE DatabaseError
  BY <1>1, <1>2, <1>3, ErrorDrops DEF MoneyKept, Paying, Drops, Goto
<1>4. CASE Crash
  BY <1>1, <1>2, <1>4, CrashDrops DEF MoneyKept, Paying, Crash
<1>5. CASE UNCHANGED vars
  BY <1>1, <1>2, <1>5, Kept DEF MoneyKept, Keeps, vars, calls, Base
<1>6. QED
  BY <1>3, <1>4, <1>5

(* A wallet is stored for a user who signed with it. *)
LEMMA AddressKeepsMoney == ASSUME Base, Money, NEW c \in Calls, HandleSuiAddress(c) PROVE Money'
<1>1. Drops("UpdateSuiAddress", c) /\ "TopUpBalance" \in EventTypes
  BY Handles DEF HandleSuiAddress, EventTypes, Silent
<1>2. user[c] \in Users /\ arg[c] \in Wallets /\ <<user[c], arg[c]>> \in Signers
  BY <1>1, BaseParts DEF EventsFit, CallsFit, Returned, Drops
<1>3. UNCHANGED <<pc, user, arg, digests, balance, credit, kind>>
  BY DEF HandleSuiAddress, calls, money
<1>4. \A e \in Calls : (Claims(e)' <=> Claims(e)) /\ (Approved(e)' <=> Approved(e))
  BY <1>1, <1>3 DEF Claims, Approved, Drops
<1>5. ClaimsOK'
  BY <1>3, <1>4 DEF Money, ClaimsOK
<1>6. address \in [Users -> Wallets \cup {NoWallet}] /\ address' = [address EXCEPT ![user[c]] = arg[c]]
  BY BaseParts DEF TableTypes, HandleSuiAddress
<1>7. SignedOK'
  BY <1>2, <1>3, <1>4, <1>6 DEF Money, SignedOK
<1>8. CreditOK' /\ BalanceOK'
  BY <1>3, BalanceKept DEF Money, CreditOK
<1>9. QED
  BY <1>5, <1>7, <1>8 DEF Money

(* Sui says what a transaction is, and says it again. *)
LEMMA ChangesMoney ==
  ASSUME Base, Money, NEW c \in Calls, NEW k \in Kinds, BalanceChanges(c, k)
  PROVE  Money'
<1>1. pc \in [Calls -> Labels] /\ kind \in [Digests -> Kinds \cup {"unknown"}]
  BY BaseParts DEF CallTypes, TableTypes, KindOK
<1>2. pc[c] = "digest_ok" /\ op[c] \in Payments /\ arg[c] \in Digests
  BY BaseParts DEF BalanceChanges, CallsFit
<1>3. kind[arg[c]] \in {"unknown", k} /\ kind' = [kind EXCEPT ![arg[c]] = k]
  BY DEF BalanceChanges
<1>4. \A d \in Digests : kind[d] = "deposit" => kind'[d] = "deposit"
  BY <1>1, <1>3, <1>2
<1>5. UNCHANGED <<user, arg, digests, balance, credit, address>>
  BY DEF BalanceChanges, accounts, money
<1>6. \A e \in Calls : Waiting("TopUpBalance", e)' <=> Waiting("TopUpBalance", e)
  BY ChangesSend DEF Adds, Keeps, EventTypes, Silent
<1>7. PICK l \in {"failed", "done", "confirm", "confirmed"} :
        /\ pc' = [pc EXCEPT ![c] = l]
        /\ l \in {"confirm", "confirmed"} => k = "deposit"
        /\ l = "confirmed" => <<user[c], Sender[arg[c]]>> \in Signers
  <2>1. user[c] \in Users /\ Sender[arg[c]] \in Wallets
    BY <1>2, BaseParts, DigestsAssumption DEF CallsFit, CallTypes
  <2>2. get_sui_address_from_signature(user[c], Sender[arg[c]])
          <=> <<user[c], Sender[arg[c]]>> \in Signers
    BY <2>1, Signs
  <2>3. QED
    BY <2>2 DEF BalanceChanges, Goto
<1>8. \A e \in Calls : Claims(e)' => Claims(e)
  BY <1>1, <1>2, <1>6, <1>7 DEF Claims
<1>9. ClaimsOK'
  BY <1>5, <1>8 DEF Money, ClaimsOK
<1>10. \A e \in Calls : Claims(e) => arg[e] \in Digests
  BY BaseParts DEF Claims, CallsFit, EventsFit
<1>11. ASSUME NEW e \in Calls, pc'[e] = "confirm" \/ Approved(e)'
       PROVE  kind'[arg[e]] = "deposit" /\ (Approved(e)' => <<user[e], Sender[arg[e]]>> \in Signers)
  <2>1. CASE e = c
    <3>1. ~Waiting("TopUpBalance", c)
      BY <1>2, BaseParts DEF EventsFit
    <3>2. QED
      BY <1>1, <1>2, <1>3, <1>6, <1>7, <1>11, <2>1, <3>1 DEF Approved
  <2>2. CASE e # c
    <3>1. pc[e] = "confirm" \/ Approved(e)
      BY <1>1, <1>6, <1>7, <1>11, <2>2 DEF Approved
    <3>2. arg[e] \in Digests
      BY <1>10, <3>1 DEF Approved, Claims
    <3>3. Approved(e)' => Approved(e)
      BY <1>1, <1>6, <1>7, <2>2 DEF Approved
    <3>4. QED
      BY <1>4, <3>1, <3>2, <3>3 DEF Money, SignedOK
  <2>3. QED
    BY <2>1, <2>2
<1>12. SignedOK'
  BY <1>5, <1>11 DEF Money, SignedOK
<1>13. CreditOK'
  BY <1>4, <1>5 DEF Money, CreditOK
<1>14. QED
  BY <1>5, <1>9, <1>12, <1>13, BalanceKept DEF Money

(* Only one of several calls with a digest goes on. *)
LEMMA DigestMoney ==
  ASSUME Base, Money, NEW c \in Calls, insert_new_usdc_payment_digest(c)
  PROVE  Money'
<1>1. Drops("InsertNewUsdcPaymentDigest", c) /\ "TopUpBalance" \in EventTypes
  BY Handles DEF insert_new_usdc_payment_digest, EventTypes, Silent
<1>2. pc \in [Calls -> Labels] /\ pc[c] = "digest" /\ arg[c] \in Digests
  BY <1>1, BaseParts DEF CallTypes, EventsFit, CallsFit, Drops
<1>3. UNCHANGED <<user, arg, balance, credit, kind, address>>
  BY DEF insert_new_usdc_payment_digest, accounts
<1>4. PICK l \in {"digest_ok", "failed"} :
        pc' = [pc EXCEPT ![c] = l] /\ (l = "digest_ok" => arg[c] \notin digests)
  BY DEF insert_new_usdc_payment_digest, Answer, Goto, NewDigest
<1>5. digests' = digests \cup {arg[c]}
  BY DEF insert_new_usdc_payment_digest
<1>6. \A e \in Calls : Waiting("TopUpBalance", e)' <=> Waiting("TopUpBalance", e)
  BY <1>1 DEF Drops
<1>7. ~Waiting("TopUpBalance", c)
  BY <1>2, BaseParts DEF EventsFit
<1>8. /\ Claims(c)' => arg[c] \notin digests
      /\ \A e \in Calls \ {c} : Claims(e)' => Claims(e)
  BY <1>2, <1>4, <1>6, <1>7 DEF Claims
<1>9. \A d \in Digests : d \notin digests => credit[d] = NoUser
  BY DEF Money, CreditOK
<1>10. ClaimsOK'
  BY <1>2, <1>3, <1>5, <1>8, <1>9 DEF Money, ClaimsOK
<1>11. \A e \in Calls : /\ Approved(e)' => Approved(e)
                        /\ pc'[e] = "confirm" => pc[e] = "confirm"
  BY <1>2, <1>4, <1>6, <1>7 DEF Approved
<1>12. SignedOK'
  BY <1>3, <1>11 DEF Money, SignedOK
<1>13. CreditOK'
  BY <1>3, <1>5 DEF Money, CreditOK
<1>14. QED
  BY <1>3, <1>10, <1>12, <1>13, BalanceKept DEF Money

(* The wallet that paid is the user's. *)
LEMMA ConfirmMoney == ASSUME Base, Money, NEW c \in Calls, HandleConfirmUser(c) PROVE Money'
<1>1. Drops("ConfirmUser", c) /\ "TopUpBalance" \in EventTypes
  BY Handles DEF HandleConfirmUser, EventTypes, Silent
<1>2. pc \in [Calls -> Labels] /\ pc[c] = "confirm" /\ user[c] \in Users /\ arg[c] \in Digests
  BY <1>1, BaseParts DEF CallTypes, EventsFit, CallsFit, Drops
<1>3. UNCHANGED <<user, arg, digests, balance, credit, kind, address>>
  BY DEF HandleConfirmUser, accounts, money
<1>4. PICK l \in {"confirmed", "failed"} :
        pc' = [pc EXCEPT ![c] = l] /\ (l = "confirmed" => address[user[c]] = Sender[arg[c]])
  BY DEF HandleConfirmUser, Answer, Goto, confirm_user
<1>5. \A e \in Calls : Waiting("TopUpBalance", e)' <=> Waiting("TopUpBalance", e)
  BY <1>1 DEF Drops
<1>6. \A e \in Calls : Claims(e)' => Claims(e)
  BY <1>2, <1>4, <1>5 DEF Claims
<1>7. ClaimsOK'
  BY <1>3, <1>6 DEF Money, ClaimsOK
<1>8. Sender[arg[c]] # NoWallet
  BY <1>2, DigestsAssumption, NothingAssumption
<1>9. kind[arg[c]] = "deposit" /\ (l = "confirmed" => <<user[c], Sender[arg[c]]>> \in Signers)
  BY <1>2, <1>4, <1>8 DEF Money, SignedOK
<1>10. \A e \in Calls \ {c} : /\ Approved(e)' => Approved(e)
                              /\ pc'[e] = "confirm" => pc[e] = "confirm"
  BY <1>2, <1>4, <1>5 DEF Approved
<1>11. Approved(c)' => Approved(c) \/ l = "confirmed"
  BY <1>2, <1>4, <1>5 DEF Approved
<1>12. SignedOK'
  BY <1>2, <1>3, <1>4, <1>9, <1>10, <1>11 DEF Money, SignedOK
<1>13. CreditOK'
  BY <1>3 DEF Money, CreditOK
<1>14. QED
  BY <1>3, <1>7, <1>12, <1>13, BalanceKept DEF Money

LEMMA TopUpMoney == ASSUME Base, Money, NEW c \in Calls, TopUpBalance(c) PROVE Money'
<1>1. Adds("TopUpBalance", c) /\ "TopUpBalance" \in EventTypes
  BY TopUpSends DEF EventTypes, Silent
<1>2. pc \in [Calls -> Labels] /\ pc[c] = "confirmed" /\ pc' = [pc EXCEPT ![c] = "done"]
  BY BaseParts DEF CallTypes, TopUpBalance, Goto
<1>3. UNCHANGED <<user, arg, digests, balance, credit, kind, address>>
  BY DEF TopUpBalance, accounts, money
<1>4. \A e \in Calls : /\ Claims(e)' => Claims(e) /\ (Approved(e)' => Approved(e))
                       /\ pc'[e] = "confirm" => pc[e] = "confirm"
  BY <1>1, <1>2 DEF Claims, Approved, Adds
<1>5. ClaimsOK'
  BY <1>3, <1>4 DEF Money, ClaimsOK
<1>6. SignedOK'
  <2>1. \A e \in Calls : Approved(e)' => Claims(e)'
    BY DEF Approved, Claims
  <2>2. QED
    BY <1>3, <1>4, <2>1 DEF Money, SignedOK
<1>7. CreditOK'
  BY <1>3 DEF Money, CreditOK
<1>8. QED
  BY <1>3, <1>5, <1>6, <1>7, BalanceKept DEF Money

(* The credit: the digest joins those of the user. *)
LEMMA CreditMoney == ASSUME Base, Money, NEW c \in Calls, top_up_crypto_balance(c) PROVE Money'
<1>1. Drops("TopUpBalance", c) /\ "TopUpBalance" \in EventTypes
  BY Handles DEF top_up_crypto_balance, EventTypes, Silent
<1>2. pc[c] = "done" /\ user[c] \in Users /\ arg[c] \in Digests
  BY <1>1, BaseParts DEF EventsFit, CallsFit, Drops
<1>3. Claims(c) /\ Approved(c)
  BY <1>1 DEF Claims, Approved, Drops
<1>4. arg[c] \in digests /\ credit[arg[c]] = NoUser
      /\ kind[arg[c]] = "deposit" /\ <<user[c], Sender[arg[c]]>> \in Signers
  BY <1>3 DEF Money, ClaimsOK, SignedOK
<1>5. UNCHANGED <<pc, user, arg, digests, kind, address>>
  BY DEF top_up_crypto_balance, calls, accounts
<1>6. /\ credit \in [Digests -> Users \cup {NoUser}] /\ balance \in [Users -> Nat]
      /\ credit' = [credit EXCEPT ![arg[c]] = user[c]]
      /\ balance' = [balance EXCEPT ![user[c]] = @ + Amount[arg[c]]]
  BY BaseParts DEF top_up_crypto_balance, TableTypes
<1>7. \A e \in Calls : /\ Claims(e)' => Claims(e) /\ e # c
                       /\ Approved(e)' => Approved(e)
  BY <1>1, <1>2, <1>5 DEF Claims, Approved, Drops
<1>8. ClaimsOK'
  <2>1. \A e \in Calls : Claims(e)' => arg[e] # arg[c]
    BY <1>3, <1>7 DEF Money, ClaimsOK
  <2>2. \A e \in Calls : Claims(e) => arg[e] \in Digests
    BY BaseParts DEF Claims, CallsFit, EventsFit
  <2>3. QED
    BY <1>5, <1>6, <1>7, <2>1, <2>2 DEF Money, ClaimsOK
<1>9. SignedOK'
  BY <1>5, <1>7 DEF Money, SignedOK
<1>10. CreditOK'
  BY <1>2, <1>4, <1>5, <1>6 DEF Money, CreditOK
<1>11. ASSUME NEW u \in Users PROVE IsSum(balance[u], Amount, Credited(u))'
  <2>1. PICK d \in Digests : d = arg[c]
    BY <1>2
  <2>2. PICK S, T : S = {x \in Digests : credit[x] = u} /\ T = {x \in Digests : credit'[x] = u}
    OBVIOUS
  <2>3. IsSum(balance[u], Amount, S) /\ credit[d] # u /\ d \notin S
    BY <1>4, <2>1, <2>2, NothingAssumption DEF Money, BalanceOK, Credited
  <2>4. IsSum(balance'[u], Amount, T)
    <3>1. CASE u = user[c]
      <4>1. T = S \cup {d}
        BY <1>6, <2>1, <2>2, <3>1
      <4>2. Amount[d] \in Nat /\ balance'[u] = balance[u] + Amount[d]
        BY <1>6, <2>1, <3>1, DigestsAssumption
      <4>3. IsSum(balance[u] + Amount[d], Amount, S \cup {d})
        BY <2>3, <4>2, SumAdd
      <4>4. QED
        BY <4>1, <4>2, <4>3
    <3>2. CASE u # user[c]
      <4>1. T = S /\ balance'[u] = balance[u]
        BY <1>2, <1>4, <1>6, <2>2, <2>3, <2>1, <3>2
      <4>2. QED
        BY <2>3, <4>1
    <3>3. QED
      BY <3>1, <3>2
  <2>5. QED
    BY <2>2, <2>4 DEF Credited, IsSum, SumOver, Units
<1>12. BalanceOK'
  BY <1>11 DEF BalanceOK
<1>13. QED
  BY <1>8, <1>9, <1>10, <1>12 DEF Money

LEMMA MoneyNext == ASSUME Base, Money, [Next]_vars PROVE Money'
<1>1. ASSUME NEW c \in Calls, StartCall(c) PROVE Money'
  BY <1>1, StartKeepsMoney, MoneyFrame
<1>2. ASSUME NEW c \in Calls, ContinueCall(c) \/ SuiFails(c) PROVE Money'
  BY <1>2, LoginKeepsMoney, MoneyFrame, ChangesMoney, TopUpMoney DEF ContinueCall
<1>3. ASSUME NEW c \in Calls, HandleEvent(c) PROVE Money'
  BY <1>3, ManagerKeepsMoney, MoneyFrame, AddressKeepsMoney, DigestMoney, ConfirmMoney,
     CreditMoney DEF HandleEvent
<1>4. ASSUME DatabaseError \/ Crash \/ UNCHANGED vars PROVE Money'
  BY <1>4, FaultKeepsMoney, MoneyFrame
<1>5. QED
  BY <1>1, <1>2, <1>3, <1>4 DEF Next, StateManager

-----------------------------------------------------------------------------
(* Sessions.                                                               *)

(* A step that gives out no token, checks none and lets nobody in. *)
SessionsKept ==
  /\ held' = held /\ refresh \subseteq refresh' /\ users \subseteq users'
  /\ \A c \in Calls :
       /\ pc'[c] = "claims_ok" => pc[c] = "claims_ok" /\ tok'[c] = tok[c]
       /\ Entered(c)' => Entered(c) /\ user'[c] = user[c]

LEMMA SessionsFrame == ASSUME Sessions, SessionsKept PROVE Sessions'
  BY DEF Sessions, SessionsKept

(* How a call begins: what it does, for whom and where it waits. *)
Starts(c, o, l) ==
  /\ pc[c] = "idle" /\ pc' = [pc EXCEPT ![c] = l] /\ op' = [op EXCEPT ![c] = o]
  /\ (\E u : user' = [user EXCEPT ![c] = u]) /\ (\E a : arg' = [arg EXCEPT ![c] = a])
  /\ tok' = tok \/ \E t : tok' = [tok EXCEPT ![c] = t]
  /\ UNCHANGED <<held, accounts, money, kind, faults>>

LEMMA CallStarts ==
  ASSUME Base, NEW c \in Calls, StartCall(c)
  PROVE  \/ \E o \in Logins : Starts(c, o, "user")
         \/ \E o \in Managing : Starts(c, o, "claims")
         \/ Starts(c, "use", "use") \/ Starts(c, "address", "done")
         \/ \E o \in Payments : Starts(c, o, "digest")
<1>1. CASE Register(c) \/ Login(c) \/ GoogleOauth(c)
  BY <1>1 DEF Register, Login, GoogleOauth, BeginLogin, Begin, Goto, Starts, Logins
<1>2. CASE GenerateApiToken(c) \/ RevokeApiToken(c) \/ GetZkSalt(c)
  BY <1>2, Managers DEF Begin, get_claims_from_token, Goto, Starts
<1>3. CASE BeginUse(c)
  BY <1>3 DEF BeginUse, Begin, Goto, Starts
<1>4. CASE update_sui_address(c)
  BY <1>4 DEF update_sui_address, Begin, Goto, Starts
<1>5. CASE BeginPayment(c)
  BY <1>5 DEF BeginPayment, Begin, Goto, Starts
<1>6. QED
  BY <1>1, <1>2, <1>3, <1>4, <1>5 DEF StartCall

LEMMA StartKeepsSessions == ASSUME Base, NEW c \in Calls, StartCall(c) PROVE SessionsKept
<1>1. CallTypes
  BY BaseParts
<1>2. PICK o, l : Starts(c, o, l) /\ l # "claims_ok" /\ (o = "register" => l = "user")
  BY CallStarts DEF Logins, Managing, Payments
<1>3. UNCHANGED <<held, users, refresh>>
  BY <1>2 DEF Starts, accounts
<1>4. QED
  BY <1>1, <1>2, <1>3 DEF SessionsKept, Entered, Starts, CallTypes

LEMMA ContinueKeepsSessions ==
  ASSUME Base, NEW c \in Calls,
         \/ generate_refresh_token(c) \/ generate_api_token(c) \/ revoke_api_token(c)
         \/ get_zk_salt(c) \/ set_zk_salt(c) \/ SuiFails(c)
         \/ (\E k \in Kinds : BalanceChanges(c, k)) \/ TopUpBalance(c)
  PROVE  SessionsKept
<1>1. CallTypes /\ CallsFit
  BY BaseParts
<1>2. UNCHANGED <<held, users, refresh, op, user>>
  BY DEF generate_refresh_token, generate_api_token, revoke_api_token, get_zk_salt,
     set_zk_salt, SuiFails, BalanceChanges, TopUpBalance, accounts
<1>3. CASE generate_refresh_token(c)
  BY <1>1, <1>2, <1>3 DEF generate_refresh_token, Goto, SessionsKept, Entered, CallTypes
<1>4. CASE ~generate_refresh_token(c)
  <2>1. op[c] # "register" /\ UNCHANGED tok
    BY <1>1, <1>4 DEF generate_api_token, revoke_api_token, get_zk_salt, set_zk_salt, SuiFails,
       BalanceChanges, TopUpBalance, CallsFit, Payments
  <2>2. \E l \in {"done", "salt", "failed", "confirm", "confirmed"} : pc' = [pc EXCEPT ![c] = l]
    BY <1>4 DEF generate_api_token, revoke_api_token, get_zk_salt, set_zk_salt, SuiFails,
       BalanceChanges, TopUpBalance, Goto
  <2>3. QED
    BY <1>1, <1>2, <2>1, <2>2 DEF SessionsKept, Entered, CallTypes
<1>5. QED
  BY <1>3, <1>4

(* A login that returns has a valid token. *)
LEMMA LoginDoneSessions == ASSUME Base, Sessions, NEW c \in Calls, LoginDone(c) PROVE Sessions'
<1>1. CallTypes
  BY BaseParts
<1>2. /\ pc[c] = "claims_ok" /\ pc' = [pc EXCEPT ![c] = "done"] /\ held' = held \cup {tok[c]}
      /\ UNCHANGED <<op, user, tok, users, refresh>>
  BY DEF LoginDone, Goto, accounts
<1>3. tok[c] \in refresh
  BY <1>2 DEF Sessions
<1>4. \A e \in Calls : Entered(e)' => Entered(e)
  BY <1>1, <1>2 DEF Entered, CallTypes
<1>5. QED
  BY <1>1, <1>2, <1>3, <1>4 DEF Sessions, CallTypes

LEMMA ValidSessions == ASSUME Base, Sessions, NEW c \in Calls, is_refresh_token_valid(c) PROVE Sessions'
<1>1. Drops("IsRefreshTokenValid", c)
  BY Handles DEF is_refresh_token_valid, EventTypes
<1>2. CallTypes /\ pc[c] = "claims"
  BY <1>1, BaseParts DEF EventsFit, Drops
<1>3. PICK l \in {"claims_ok", "failed"} :
        pc' = [pc EXCEPT ![c] = l] /\ (l = "claims_ok" => tok[c] \in refresh)
  BY DEF is_refresh_token_valid, Answer, Goto
<1>4. UNCHANGED <<op, user, tok, held, users, refresh>>
  BY DEF is_refresh_token_valid, accounts
<1>5. \A e \in Calls : Entered(e)' => Entered(e)
  BY <1>2, <1>3, <1>4 DEF Entered, CallTypes
<1>6. QED
  BY <1>2, <1>3, <1>4, <1>5 DEF Sessions, CallTypes

(* A registration is let in when its user is new. *)
LEMMA UserSessions == ASSUME Base, Sessions, NEW c \in Calls, HandleUser(c) PROVE Sessions'
<1>1. Drops("User", c)
  BY Handles DEF HandleUser, EventTypes
<1>2. CallTypes /\ pc[c] = "user"
  BY <1>1, BaseParts DEF EventsFit, Drops
<1>3. UNCHANGED <<op, user, tok, held, refresh>>
  BY DEF HandleUser
<1>4. \/ MayEnter(c) /\ pc' = [pc EXCEPT ![c] = "user_ok"] /\ users' = users \cup {user[c]}
      \/ pc' = [pc EXCEPT ![c] = "failed"] /\ users' = users
  BY DEF HandleUser, Answer, Goto
<1>5. \A e \in Calls \ {c} : Entered(e)' <=> Entered(e)
  BY <1>2, <1>3, <1>4 DEF Entered, CallTypes
<1>6. Entered(c)' => user[c] \notin users /\ user[c] \in users'
  BY <1>2, <1>3, <1>4 DEF Entered, CallTypes, MayEnter, register
<1>7. \A e \in Calls : pc'[e] = "claims_ok" => pc[e] = "claims_ok"
  BY <1>2, <1>4 DEF CallTypes
<1>8. users \subseteq users'
  BY <1>4
<1>9. QED
  BY <1>3, <1>5, <1>6, <1>7, <1>8 DEF Sessions

LEMMA ManagerKeepsSessions ==
  ASSUME Base, NEW c \in Calls,
         \/ store_refresh_token(c) \/ store_api_token(c) \/ delete_api_token(c)
         \/ is_api_token_valid(c) \/ HandleSuiAddress(c) \/ insert_new_usdc_payment_digest(c)
         \/ HandleConfirmUser(c) \/ top_up_crypto_balance(c)
  PROVE  SessionsKept
<1>1. CallTypes /\ CallsFit /\ EventsFit
  BY BaseParts
<1>2. UNCHANGED <<held, users, op, user, tok>> /\ refresh \subseteq refresh'
  BY DEF store_refresh_token, store_api_token, delete_api_token, is_api_token_valid,
     HandleSuiAddress, insert_new_usdc_payment_digest, HandleConfirmUser, top_up_crypto_balance,
     calls, accounts
<1>3. CASE is_api_token_valid(c)
  <2>1. Drops("IsApiTokenValid", c)
    BY <1>3, Handles DEF is_api_token_valid, EventTypes
  <2>2. op[c] # "register"
    BY <1>1, <2>1 DEF Drops, EventsFit, CallsFit
  <2>3. \E l \in {"done", "failed"} : pc' = [pc EXCEPT ![c] = l]
    BY <1>3 DEF is_api_token_valid, Answer, Goto
  <2>4. QED
    BY <1>1, <1>2, <2>2, <2>3 DEF SessionsKept, Entered, CallTypes
<1>4. CASE insert_new_usdc_payment_digest(c) \/ HandleConfirmUser(c)
  <2>1. \E l \in {"digest_ok", "confirmed", "failed"} : pc' = [pc EXCEPT ![c] = l]
    BY <1>4 DEF insert_new_usdc_payment_digest, HandleConfirmUser, Answer, Goto
  <2>2. QED
    BY <1>1, <1>2, <2>1 DEF SessionsKept, Entered, CallTypes
<1>5. CASE UNCHANGED pc
  BY <1>2, <1>5 DEF SessionsKept, Entered
<1>6. QED
  BY <1>3, <1>4, <1>5 DEF store_refresh_token, store_api_token, delete_api_token,
     HandleSuiAddress, top_up_crypto_balance, calls

LEMMA FaultKeepsSessions == ASSUME Base, DatabaseError \/ Crash \/ UNCHANGED vars PROVE SessionsKept
<1>1. CallTypes
  BY BaseParts
<1>2. UNCHANGED <<held, users, refresh, op, user, tok>>
  BY DEF DatabaseError, Crash, vars, calls, accounts
<1>3. \A c \in Calls : pc'[c] = pc[c] \/ pc'[c] = "failed"
  BY <1>1, ErrorDrops DEF CallTypes, Goto, Crash, vars, calls
<1>4. QED
  BY <1>2, <1>3 DEF SessionsKept, Entered

LEMMA SessionsNext == ASSUME Base, Sessions, [Next]_vars PROVE Sessions'
<1>1. ASSUME NEW c \in Calls, StartCall(c) PROVE Sessions'
  BY <1>1, StartKeepsSessions, SessionsFrame
<1>2. ASSUME NEW c \in Calls, ContinueCall(c) \/ SuiFails(c) PROVE Sessions'
  <2>1. CASE LoginDone(c)
    BY <2>1, LoginDoneSessions
  <2>2. CASE ~LoginDone(c)
    <3>1. SessionsKept
      BY <1>2, <2>2, ContinueKeepsSessions DEF ContinueCall
    <3>2. QED
      BY <3>1, SessionsFrame
  <2>3. QED
    BY <2>1, <2>2
<1>3. ASSUME NEW c \in Calls, HandleEvent(c) PROVE Sessions'
  BY <1>3, UserSessions, ValidSessions, ManagerKeepsSessions, SessionsFrame DEF HandleEvent
<1>4. ASSUME DatabaseError \/ Crash \/ UNCHANGED vars PROVE Sessions'
  BY <1>4, FaultKeepsSessions, SessionsFrame
<1>5. QED
  BY <1>1, <1>2, <1>3, <1>4 DEF Next, StateManager

-----------------------------------------------------------------------------
(* API tokens.                                                             *)

(* What is sent later stays behind. *)
LEMMA StaysAhead ==
  ASSUME QueueOK, QueueOK', Len(queue) <= Len(queue'),
         \A i \in 1 .. Len(queue) : queue'[i] = queue[i],
         NEW t, NEW a, NEW d, Ahead(t, a, d)
  PROVE  Ahead(t, a, d)'
<1>1. Len(queue) \in Nat /\ Len(queue') \in Nat
  BY DEF QueueOK
<1>2. PICK i, j \in 1 .. Len(queue) :
        i < j /\ queue[i] = Event(t, a) /\ queue[j] = Event("IsApiTokenValid", d)
  BY DEF Ahead
<1>3. i \in 1 .. Len(queue') /\ j \in 1 .. Len(queue')
  BY <1>1, <1>2
<1>4. queue'[i] = Event(t, a) /\ queue'[j] = Event("IsApiTokenValid", d)
  BY <1>2
<1>5. QED
  BY <1>2, <1>3, <1>4 DEF Ahead

LEMMA SendExtends ==
  ASSUME QueueOK, NEW t \in EventTypes, NEW c \in Calls, Send(t, c)
  PROVE  /\ Len(queue') = Len(queue) + 1 /\ Len(queue) \in Nat /\ queue'[Len(queue) + 1] = Event(t, c)
         /\ \A i \in 1 .. Len(queue) : queue'[i] = queue[i]
<1>1. PICK e \in Events : e = Event(t, c)
  BY EventTyped
<1>2. queue \in Seq(Events) /\ queue' = Append(queue, e)
  BY <1>1 DEF QueueOK, Send
<1>3. QED
  BY <1>1, <1>2

LEMMA SendsBehind ==
  ASSUME QueueOK, QueueOK', NEW t \in EventTypes, NEW c \in Calls, Send(t, c),
         NEW u, NEW a, NEW d, Ahead(u, a, d)
  PROVE  Ahead(u, a, d)'
<1>1. Len(queue') = Len(queue) + 1 /\ Len(queue) \in Nat /\ \A i \in 1 .. Len(queue) : queue'[i] = queue[i]
  BY SendExtends
<1>2. Len(queue) <= Len(queue')
  BY <1>1
<1>3. QED
  BY <1>1, <1>2, StaysAhead

(* All that is in the channel is ahead of a request that begins. *)
LEMMA AheadOfUse ==
  ASSUME QueueOK, QueueOK', NEW c \in Calls, Send("IsApiTokenValid", c),
         NEW t, NEW a, Waiting(t, a)
  PROVE  Ahead(t, a, c)'
<1>1. /\ Len(queue') = Len(queue) + 1 /\ Len(queue) \in Nat
      /\ queue'[Len(queue) + 1] = Event("IsApiTokenValid", c)
      /\ \A i \in 1 .. Len(queue) : queue'[i] = queue[i]
  BY SendExtends DEF EventTypes
<1>2. DOMAIN queue = 1 .. Len(queue)
  BY DEF QueueOK
<1>3. PICK i \in 1 .. Len(queue) : queue[i] = Event(t, a)
  BY <1>2 DEF Waiting
<1>4. i \in 1 .. Len(queue') /\ Len(queue) + 1 \in 1 .. Len(queue') /\ i < Len(queue) + 1
  BY <1>1, <1>3
<1>5. queue'[i] = Event(t, a)
  BY <1>1, <1>3
<1>6. QED
  BY <1>1, <1>4, <1>5 DEF Ahead

(* Only the event that is taken is not ahead any more. *)
LEMMA TakesAhead ==
  ASSUME QueueOK, NEW t \in EventTypes, NEW c \in Calls, Taken(t, c), Take,
         NEW u, NEW a, NEW d, Ahead(u, a, d), ~(u = t /\ a = c)
  PROVE  Ahead(u, a, d)'
<1>1. queue # <<>> /\ queue[1] = Event(t, c)
  BY DEF Taken, Position
<1>2. /\ Len(queue) \in Nat \ {0} /\ Len(queue') = Len(queue) - 1
      /\ \A i \in 1 .. Len(queue) - 1 : queue'[i] = queue[i + 1]
  BY <1>1, TakeShifts
<1>3. PICK i, j \in 1 .. Len(queue) :
        i < j /\ queue[i] = Event(u, a) /\ queue[j] = Event("IsApiTokenValid", d)
  BY DEF Ahead
<1>4. i # 1
  BY <1>1, <1>3, EventIs
<1>5. /\ i - 1 \in 1 .. Len(queue) - 1 /\ j - 1 \in 1 .. Len(queue) - 1 /\ i - 1 < j - 1
      /\ (i - 1) + 1 = i /\ (j - 1) + 1 = j
  BY <1>2, <1>3, <1>4
<1>6. queue'[i - 1] = queue[i] /\ queue'[j - 1] = queue[j]
  BY <1>2, <1>5
<1>7. QED
  BY <1>2, <1>3, <1>5, <1>6 DEF Ahead

(* Nothing is ahead of the event that is taken. *)
LEMMA NothingAhead ==
  ASSUME QueueOK, NEW c \in Calls, Taken("IsApiTokenValid", c), NEW u, NEW a
  PROVE  ~Ahead(u, a, c)
<1>1. queue # <<>> /\ queue[1] = Event("IsApiTokenValid", c)
  BY DEF Taken, Position
<1>2. Len(queue) \in Nat \ {0} /\ \A i, j \in 1 .. Len(queue) : queue[i] = queue[j] => i = j
  BY <1>1 DEF QueueOK
<1>3. 1 \in 1 .. Len(queue) /\ \A i \in 1 .. Len(queue) : ~(i < 1)
  BY <1>2
<1>4. QED
  BY <1>1, <1>2, <1>3 DEF Ahead

(* A step that has nothing to do with API tokens, but for a call to revoke *)
(* one that begins.                                                        *)
Api == {"StoreNewApiToken", "RevokeApiToken"}
SameCall(d) == op'[d] = op[d] /\ pc'[d] = pc[d] /\ arg'[d] = arg[d] /\ seen'[d] = seen[d]
OtherCall(d) ==
  /\ op[d] # "use" /\ op'[d] # "use" /\ pc[d] # "done" /\ pc'[d] # "use"
  /\ op'[d] = "revoke" =>
       \/ op[d] = "revoke" /\ arg'[d] = arg[d]
       \/ arg'[d] \in Calls /\ api[arg'[d]] # "none"
  /\ op[d] = "revoke" => op'[d] = "revoke" /\ arg'[d] = arg[d]
  /\ pc'[d] = "done" => op'[d] \notin {"generate", "revoke"}

TokensKept ==
  /\ api' = api
  /\ \A d \in Calls : SameCall(d) \/ OtherCall(d)
  /\ \A t \in Api, a \in Calls : Waiting(t, a)' => Waiting(t, a)

ApiKept ==
  /\ TokensKept /\ (NoFault' => NoFault)
  /\ \A t \in Api, a \in Calls : Waiting(t, a) => Waiting(t, a)'
  /\ \A t \in Api, a, d \in Calls : Ahead(t, a, d) => Ahead(t, a, d)'

LEMMA RevokedMore ==
  ASSUME TokensKept, NEW a \in Calls
  PROVE  /\ RevokedBy(a) \subseteq RevokedBy(a)'
         /\ RevokedBy(a)' # {} => RevokedBy(a) # {} \/ api[a] # "none"
  BY DEF TokensKept, RevokedBy, SameCall, OtherCall

LEMMA TokenFrame == ASSUME TokenOK, TokensKept PROVE TokenOK'
<1>1. ASSUME NEW a \in Calls
      PROVE  /\ Waiting("StoreNewApiToken", a)' => Waiting("StoreNewApiToken", a)
             /\ Returned(a, "generate") => Returned(a, "generate")'
             /\ api'[a] = api[a]
  BY <1>1 DEF TokensKept, Api, Returned, SameCall, OtherCall
<1>2. QED
  BY <1>1, RevokedMore DEF TokenOK

LEMMA ApiFrame == ASSUME Base, ApiOK, ApiKept PROVE ApiOK'
<1>1. TokenOK'
  BY TokenFrame DEF ApiOK, ApiKept
<1>2. CallsFit
  BY DEF Base
<1>3. api' = api /\ \A d \in Calls : SameCall(d) \/ OtherCall(d)
  BY DEF ApiKept, TokensKept
<1>4. ASSUME NoFault' PROVE ApiTokensInOrder'
  <2>1. ASSUME NEW d \in Calls, op'[d] = "use" PROVE SameCall(d) /\ op[d] = "use" /\ arg[d] \in Calls
    BY <1>2, <1>3, <2>1 DEF SameCall, OtherCall, CallsFit
  <2>2. \A d \in Calls : op[d] = "use" =>
          /\ pc[d] = "done" => seen[d] # "revoked"
          /\ pc[d] = "failed" /\ seen[d] = "fresh" => RevokedBy(arg[d]) # {}
    BY <1>4 DEF ApiOK, ApiTokensInOrder, ApiKept, NoFault
  <2>3. \A d \in Calls : op'[d] = "use" =>
          /\ pc'[d] = "done" => seen'[d] # "revoked"
          /\ pc'[d] = "failed" /\ seen'[d] = "fresh" => RevokedBy(arg[d])' # {} /\ arg'[d] = arg[d]
    <3>1. TokensKept
      BY DEF ApiKept
    <3>2. QED
      BY <2>1, <2>2, <3>1, RevokedMore DEF SameCall
  <2>4. QED
    BY <2>3 DEF ApiTokensInOrder, RevokedBy
<1>5. ASSUME NoFault', NEW d \in Calls
      PROVE /\ Returned(d, "generate")' => api'[d] # "none" \/ Waiting("StoreNewApiToken", d)'
            /\ Returned(d, "revoke")' => api'[arg'[d]] = "deleted" \/ Waiting("RevokeApiToken", d)'
            /\ pc'[d] = "use" => api'[arg'[d]] # "none" \/ Ahead("StoreNewApiToken", arg[d], d)'
            /\ pc'[d] = "use" /\ seen'[d] = "revoked" =>
                 \/ api'[arg'[d]] = "deleted"
                 \/ \E r \in RevokedBy(arg[d])' : Ahead("RevokeApiToken", r, d)'
            /\ pc'[d] = "use" => arg'[d] = arg[d]
  <2>1. Effective /\ NoFault
    BY <1>5 DEF ApiOK, ApiKept
  <2>2. Returned(d, "generate")' => Returned(d, "generate")
    BY <1>3 DEF SameCall, OtherCall, Returned
  <2>3. Returned(d, "revoke")' => Returned(d, "revoke") /\ arg'[d] = arg[d]
    BY <1>3 DEF SameCall, OtherCall, Returned
  <2>4. pc'[d] = "use" => pc[d] = "use" /\ arg'[d] = arg[d] /\ seen'[d] = seen[d] /\ arg[d] \in Calls
    BY <1>2, <1>3 DEF SameCall, OtherCall, CallsFit
  <2>5. \A t \in Api, a \in Calls : Waiting(t, a) => Waiting(t, a)'
    BY DEF ApiKept
  <2>6. \A t \in Api, a \in Calls : Ahead(t, a, d) => Ahead(t, a, d)'
    BY DEF ApiKept
  <2>7. pc'[d] = "use" => RevokedBy(arg[d]) \subseteq RevokedBy(arg[d])' /\ RevokedBy(arg[d]) \subseteq Calls
    BY <2>4, RevokedMore DEF ApiKept, RevokedBy
  <2>8. "StoreNewApiToken" \in Api /\ "RevokeApiToken" \in Api
    BY DEF Api
  <2>9. Returned(d, "generate")' => api'[d] # "none" \/ Waiting("StoreNewApiToken", d)'
    BY <1>3, <2>1, <2>2, <2>5, <2>8 DEF Effective
  <2>10. Returned(d, "revoke")' => api'[arg'[d]] = "deleted" \/ Waiting("RevokeApiToken", d)'
    BY <1>3, <2>1, <2>3, <2>5, <2>8 DEF Effective
  <2>11. pc'[d] = "use" => api'[arg'[d]] # "none" \/ Ahead("StoreNewApiToken", arg[d], d)'
    BY <1>3, <2>1, <2>4, <2>6, <2>8 DEF Effective
  <2>12. pc'[d] = "use" /\ seen'[d] = "revoked" =>
                 \/ api'[arg'[d]] = "deleted"
                 \/ \E r \in RevokedBy(arg[d])' : Ahead("RevokeApiToken", r, d)'
    BY <1>3, <2>1, <2>4, <2>6, <2>7, <2>8 DEF Effective
  <2>13. QED
    BY <2>4, <2>9, <2>10, <2>11, <2>12
<1>6. Effective'
  BY <1>5 DEF Effective, Ahead, RevokedBy
<1>7. ApiTokensInOrder'
  BY <1>4 DEF ApiTokensInOrder, NoFault
<1>8. QED
  BY <1>1, <1>6, <1>7 DEF ApiOK

(* A call that begins, other than a request with an API token. *)
LEMMA StartKeepsApi ==
  ASSUME Base, NEW c \in Calls, StartCall(c), ~BeginUse(c)
  PROVE  ApiKept
<1>1. CallTypes /\ CallsFit /\ QueueOK
  BY BaseParts
<1>2. PICK t \in EventTypes \ Api : Adds(t, c) /\ Send(t, c)
  <2>1. CASE Register(c) \/ Login(c) \/ GoogleOauth(c)
    BY <2>1, LoginSends DEF Register, Login, GoogleOauth, BeginLogin, EventTypes, Api
  <2>2. CASE GenerateApiToken(c) \/ RevokeApiToken(c) \/ GetZkSalt(c)
    BY <2>2, Managers, ClaimsSends DEF Begin, get_claims_from_token, EventTypes, Api
  <2>3. CASE update_sui_address(c)
    BY <2>3, AddressSends DEF update_sui_address, EventTypes, Silent, Api
  <2>4. CASE BeginPayment(c)
    BY <2>4, PaymentSends DEF BeginPayment, EventTypes, Api
  <2>5. QED
    BY <2>1, <2>2, <2>3, <2>4 DEF StartCall
<1>3. Api \subseteq EventTypes
  BY DEF Api, EventTypes, Silent
<1>4. \A u \in Api, a \in Calls : Waiting(u, a)' <=> Waiting(u, a)
  BY <1>2, <1>3 DEF Adds
<1>5. \A u \in Api, a, d \in Calls : Ahead(u, a, d) => Ahead(u, a, d)'
  BY <1>1, <1>2, SendsBehind DEF Adds
<1>6. PICK o, l : Starts(c, o, l)
  BY CallStarts
<1>7. api' = api /\ UNCHANGED <<errors, crashes>> /\ seen' = seen
  BY <1>6, Managers DEF Starts, accounts, faults, StartCall, Register, Login, GoogleOauth,
     BeginLogin, get_claims_from_token, update_sui_address, BeginPayment
<1>8. \A d \in Calls \ {c} : SameCall(d)
  BY <1>1, <1>6, <1>7 DEF SameCall, CallTypes, Starts
<1>9. OtherCall(c)
  <2>1. pc[c] = "idle" /\ op[c] = "none"
    BY <1>1, <1>6 DEF Starts, CallsFit
  <2>2. CASE Register(c) \/ Login(c) \/ GoogleOauth(c)
    BY <1>1, <2>1, <2>2 DEF Register, Login, GoogleOauth, BeginLogin, Begin, Goto, OtherCall, CallTypes
  <2>3. CASE GenerateApiToken(c) \/ RevokeApiToken(c) \/ GetZkSalt(c)
    <3>1. PICK p, a :
            /\ p \in Managing /\ op' = [op EXCEPT ![c] = p] /\ arg' = [arg EXCEPT ![c] = a]
            /\ pc' = [pc EXCEPT ![c] = "claims"] /\ (p = "revoke" => a \in Calls /\ api[a] = "stored")
      BY <2>3, Managers DEF Begin, get_claims_from_token, Goto
    <3>2. QED
      BY <1>1, <2>1, <3>1 DEF OtherCall, CallTypes, Managing
  <2>4. CASE update_sui_address(c)
    BY <1>1, <2>1, <2>4 DEF update_sui_address, Begin, Goto, OtherCall, CallTypes
  <2>5. CASE BeginPayment(c)
    BY <1>1, <2>1, <2>5 DEF BeginPayment, Begin, Goto, OtherCall, CallTypes, Payments
  <2>6. QED
    BY <2>2, <2>3, <2>4, <2>5 DEF StartCall
<1>10. QED
  BY <1>4, <1>5, <1>7, <1>8, <1>9 DEF ApiKept, TokensKept, NoFault

(* A step of a call of another kind. *)
LEMMA MoveKeepsApi ==
  ASSUME Base, NEW c \in Calls, op[c] \notin {"use", "none"}, pc[c] # "done",
         NEW l, l # "use", l = "done" => op[c] \notin {"generate", "revoke"},
         pc' = [pc EXCEPT ![c] = l], UNCHANGED <<op, arg, seen>>
  PROVE  \A d \in Calls : SameCall(d) \/ OtherCall(d)
  BY BaseParts DEF CallTypes, SameCall, OtherCall

LEMMA AheadKept ==
  ASSUME UNCHANGED queue, NEW t, NEW a, NEW d PROVE Ahead(t, a, d)' <=> Ahead(t, a, d)
  BY DEF Ahead

LEMMA ContinueKeepsApi ==
  ASSUME Base, NEW c \in Calls,
         \/ generate_refresh_token(c) \/ LoginDone(c) \/ get_zk_salt(c) \/ set_zk_salt(c)
         \/ (\E k \in Kinds : BalanceChanges(c, k)) \/ TopUpBalance(c)
  PROVE  ApiKept
<1>1. CallTypes /\ CallsFit /\ QueueOK /\ Api \subseteq EventTypes
  BY BaseParts DEF Api, EventTypes, Silent
<1>2. op[c] \in Logins \cup Payments \cup {"salt"} /\ pc[c] # "done"
  BY <1>1 DEF CallsFit, generate_refresh_token, LoginDone, get_zk_salt, set_zk_salt,
     BalanceChanges, TopUpBalance
<1>3. PICK l \in {"claims", "done", "salt", "failed", "confirm", "confirmed"} :
        pc' = [pc EXCEPT ![c] = l]
  BY DEF generate_refresh_token, LoginDone, get_zk_salt, set_zk_salt, BalanceChanges, TopUpBalance, Goto
<1>4. UNCHANGED <<op, arg, seen, api, errors, crashes>>
  BY DEF generate_refresh_token, LoginDone, get_zk_salt, set_zk_salt, BalanceChanges, TopUpBalance,
     accounts, faults
<1>5. \A d \in Calls : SameCall(d) \/ OtherCall(d)
  BY <1>2, <1>3, <1>4, MoveKeepsApi DEF Logins, Payments
<1>6. /\ \A u \in Api, a \in Calls : Waiting(u, a)' <=> Waiting(u, a)
      /\ \A u \in Api, a, d \in Calls : Ahead(u, a, d) => Ahead(u, a, d)'
  <2>1. CASE generate_refresh_token(c)
    <3>1. AddsTwo("StoreRefreshToken", "IsRefreshTokenValid", c)
      BY <2>1, RefreshSends
    <3>2. \A u \in Api, a \in Calls : Waiting(u, a)' <=> Waiting(u, a)
      BY <1>1, <3>1 DEF AddsTwo, Api
    <3>3. PICK e, f \in Events : queue' = queue \o <<e, f>>
      BY <2>1, EventTyped DEF generate_refresh_token, EventTypes, Silent
    <3>4. queue \in Seq(Events)
      BY <1>1 DEF QueueOK
    <3>5. Len(queue) <= Len(queue') /\ \A i \in 1 .. Len(queue) : queue'[i] = queue[i]
      BY <3>3, <3>4
    <3>6. QED
      BY <1>1, <3>1, <3>2, <3>5, StaysAhead DEF AddsTwo
  <2>2. CASE UNCHANGED queue
    BY <1>1, <2>2, Kept, AheadKept DEF Keeps
  <2>3. CASE \E t \in EventTypes \ Api : Adds(t, c) /\ Send(t, c)
    <3>1. PICK t \in EventTypes \ Api : Adds(t, c) /\ Send(t, c)
      BY <2>3
    <3>2. \A u \in Api, a \in Calls : Waiting(u, a)' <=> Waiting(u, a)
      BY <1>1, <3>1 DEF Adds
    <3>3. QED
      BY <1>1, <3>1, <3>2, SendsBehind DEF Adds
  <2>4. TopUpBalance(c) => \E t \in EventTypes \ Api : Adds(t, c) /\ Send(t, c)
    BY TopUpSends DEF TopUpBalance, EventTypes, Silent, Api
  <2>5. ASSUME NEW k \in Kinds, BalanceChanges(c, k)
        PROVE  UNCHANGED queue \/ \E t \in EventTypes \ Api : Adds(t, c) /\ Send(t, c)
    BY <2>5, ChangesSend DEF BalanceChanges, EventTypes, Api
  <2>6. QED
    BY <2>1, <2>2, <2>3, <2>4, <2>5 DEF LoginDone, get_zk_salt, set_zk_salt
<1>7. QED
  BY <1>4, <1>5, <1>6 DEF ApiKept, TokensKept, NoFault

(* The state manager handles an event that is not about API tokens. *)
LEMMA ManagerKeepsApi ==
  ASSUME Base, NEW c \in Calls,
         \/ HandleUser(c) \/ store_refresh_token(c) \/ is_refresh_token_valid(c) \/ HandleSuiAddress(c)
         \/ insert_new_usdc_payment_digest(c) \/ HandleConfirmUser(c) \/ top_up_crypto_balance(c)
  PROVE  ApiKept
<1>1. CallTypes /\ CallsFit /\ QueueOK /\ EventsFit /\ Api \subseteq EventTypes
  BY BaseParts DEF Api, EventTypes, Silent
<1>2. PICK t \in EventTypes \ Api : Drops(t, c) /\ Taken(t, c) /\ Take
  BY Handles DEF HandleUser, store_refresh_token, is_refresh_token_valid, HandleSuiAddress,
     insert_new_usdc_payment_digest, HandleConfirmUser, top_up_crypto_balance, EventTypes, Silent, Api
<1>3. \A u \in Api, a \in Calls : Waiting(u, a)' <=> Waiting(u, a)
  BY <1>1, <1>2 DEF Drops
<1>4. \A u \in Api, a, d \in Calls : Ahead(u, a, d) => Ahead(u, a, d)'
  BY <1>1, <1>2, TakesAhead
<1>5. UNCHANGED <<op, arg, seen, api, errors, crashes>>
  BY DEF HandleUser, store_refresh_token, is_refresh_token_valid, HandleSuiAddress,
     insert_new_usdc_payment_digest, HandleConfirmUser, top_up_crypto_balance, accounts, calls, faults
<1>6. \A d \in Calls : SameCall(d) \/ OtherCall(d)
  <2>1. CASE UNCHANGED pc
    BY <1>5, <2>1 DEF SameCall
  <2>2. CASE HandleUser(c) \/ is_refresh_token_valid(c) \/ insert_new_usdc_payment_digest(c) \/ HandleConfirmUser(c)
    <3>1. pc[c] \in {"user", "claims", "digest", "confirm"}
      BY <1>1, <2>2, Handles DEF HandleUser, is_refresh_token_valid, insert_new_usdc_payment_digest,
         HandleConfirmUser, Drops, EventsFit, EventTypes
    <3>2. op[c] \notin {"use", "none"} /\ pc[c] # "done"
      BY <1>1, <3>1 DEF CallsFit, Logins, Managing, Payments
    <3>3. PICK l \in {"user_ok", "claims_ok", "digest_ok", "confirmed", "failed"} : pc' = [pc EXCEPT ![c] = l]
      BY <2>2 DEF HandleUser, is_refresh_token_valid, insert_new_usdc_payment_digest,
         HandleConfirmUser, Answer, Goto
    <3>4. QED
      BY <1>5, <3>2, <3>3, MoveKeepsApi
  <2>3. QED
    BY <2>1, <2>2 DEF store_refresh_token, HandleSuiAddress, top_up_crypto_balance, calls
<1>7. QED
  BY <1>3, <1>4, <1>5, <1>6 DEF ApiKept, TokensKept, NoFault

(* A fault makes the promises void, and no token is stored or deleted. *)
LEMMA FaultApi ==
  ASSUME Base, ApiOK, DatabaseError \/ Crash \/ (\E c \in Calls : SuiFails(c))
  PROVE  ApiOK'
<1>1. CallTypes /\ CallsFit /\ EventsFit /\ QueueOK /\ "StoreNewApiToken" \in EventTypes
  BY BaseParts DEF EventTypes, Silent
<1>2. UNCHANGED <<op, arg, api>>
  BY DEF DatabaseError, Crash, SuiFails, accounts
<1>3. ~NoFault'
  <2>1. errors \in Nat /\ crashes \in Nat
    BY DEF Base, TypeOK
  <2>2. errors' = errors + 1 \/ crashes' = crashes + 1
    BY DEF DatabaseError, Crash, SuiFails
  <2>3. QED
    BY <2>1, <2>2 DEF NoFault
<1>4. \A a \in Calls : Waiting("StoreNewApiToken", a)' => Waiting("StoreNewApiToken", a)
  BY <1>1, ErrorDrops, CrashDrops, Kept DEF Drops, Keeps, SuiFails
<1>5. \A a \in Calls : pc[a] = "done" => pc'[a] = "done"
  <2>1. CASE DatabaseError
    <3>1. PICK t \in EventTypes, c \in Calls :
            Drops(t, c) /\ (IF t \in Silent THEN UNCHANGED pc ELSE Goto(c, "failed"))
      BY <2>1, ErrorDrops
    <3>2. t \notin Silent => pc[c] # "done"
      BY <1>1, <3>1 DEF EventsFit, Drops, EventTypes
    <3>3. QED
      BY <1>1, <3>1, <3>2 DEF Goto, CallTypes
  <2>2. CASE Crash
    BY <1>1, <2>2 DEF Crash, CallTypes
  <2>3. CASE \E c \in Calls : SuiFails(c)
    BY <1>1, <2>3 DEF SuiFails, Goto, CallTypes
  <2>4. QED
    BY <2>1, <2>2, <2>3
<1>6. \A a \in Calls : RevokedBy(a)' = RevokedBy(a)
  BY <1>2 DEF RevokedBy
<1>7. TokenOK'
  BY <1>2, <1>4, <1>5, <1>6 DEF ApiOK, TokenOK, Returned
<1>8. QED
  BY <1>3, <1>7 DEF ApiOK, Effective, ApiTokensInOrder, NoFault

LEMMA StutterKeepsApi == ASSUME Base, UNCHANGED vars PROVE ApiKept
<1>1. Api \subseteq EventTypes /\ QueueOK
  BY DEF Api, EventTypes, Silent, Base
<1>2. QED
  BY <1>1, Kept, AheadKept DEF vars, calls, accounts, faults, Keeps, ApiKept, TokensKept, SameCall, NoFault

(* Parts of Effective. *)
Stored(d) == Returned(d, "generate") => api[d] # "none" \/ Waiting("StoreNewApiToken", d)
Removed(d) == Returned(d, "revoke") => api[arg[d]] = "deleted" \/ Waiting("RevokeApiToken", d)
StoredFor(d) == pc[d] = "use" => api[arg[d]] # "none" \/ Ahead("StoreNewApiToken", arg[d], d)
RemovedFor(d) == pc[d] = "use" /\ seen[d] = "revoked" =>
  api[arg[d]] = "deleted" \/ \E r \in RevokedBy(arg[d]) : Ahead("RevokeApiToken", r, d)
InOrder(d) == op[d] = "use" =>
  /\ pc[d] = "done" => seen[d] # "revoked"
  /\ pc[d] = "failed" /\ seen[d] = "fresh" => RevokedBy(arg[d]) # {}

LEMMA ApiParts ==
  ApiOK <=> TokenOK /\ (NoFault => \A d \in Calls :
              Stored(d) /\ Removed(d) /\ StoredFor(d) /\ RemovedFor(d) /\ InOrder(d))
  BY DEF ApiOK, Effective, ApiTokensInOrder, Stored, Removed, StoredFor, RemovedFor, InOrder, NoFault

LEMMA ApiPartsNext ==
  ASSUME TokenOK', ASSUME NoFault', NEW d \in Calls
                   PROVE  Stored(d)' /\ Removed(d)' /\ StoredFor(d)' /\ RemovedFor(d)' /\ InOrder(d)'
  PROVE  ApiOK'
  BY DEF ApiOK, Effective, ApiTokensInOrder, Stored, Removed, StoredFor, RemovedFor, InOrder, NoFault

(* A step that is not one of the request d. *)
LEMMA UsesKept ==
  ASSUME NEW d \in Calls, SameCall(d), op[d] = "use" => arg[d] \in Calls, pc[d] = "use" => op[d] = "use",
         \A b \in Calls : RevokedBy(b)' = RevokedBy(b),
         \A b \in Calls : /\ api[b] # "none" => api'[b] # "none"
                          /\ api[b] = "deleted" => api'[b] = "deleted",
         \A b \in Calls : Ahead("StoreNewApiToken", b, d) =>
                            api'[b] # "none" \/ Ahead("StoreNewApiToken", b, d)',
         \A r \in Calls : Ahead("RevokeApiToken", r, d) =>
                            api'[arg[r]] = "deleted" \/ Ahead("RevokeApiToken", r, d)',
         StoredFor(d), RemovedFor(d), InOrder(d)
  PROVE  StoredFor(d)' /\ RemovedFor(d)' /\ InOrder(d)'
<1>1. PICK b : b = arg[d] /\ b = arg'[d]
  BY DEF SameCall
<1>2. /\ Ahead("StoreNewApiToken", arg[d], d) => Ahead("StoreNewApiToken", b, d)
      /\ Ahead("StoreNewApiToken", b, d)' => Ahead("StoreNewApiToken", arg[d], d)'
      /\ RevokedBy(arg[d]) = RevokedBy(b) /\ RevokedBy(arg[d])' = RevokedBy(b)'
  BY <1>1 DEF Ahead, RevokedBy
<1>3. \A r \in RevokedBy(b) : r \in Calls /\ arg[r] = b
  BY DEF RevokedBy
<1>4. op'[d] = op[d] /\ pc'[d] = pc[d] /\ seen'[d] = seen[d]
  BY DEF SameCall
<1>5. StoredFor(d)'
  BY <1>1, <1>2, <1>4 DEF StoredFor
<1>6. RemovedFor(d)'
  <2>1. ASSUME pc[d] = "use", seen[d] = "revoked"
        PROVE  api'[b] = "deleted" \/ \E r \in RevokedBy(b) : Ahead("RevokeApiToken", r, d)'
    BY <1>1, <1>2, <1>3, <2>1 DEF RemovedFor
  <2>2. pc[d] = "use" => RevokedBy(arg[d])' = RevokedBy(b)
    BY <1>1, <1>2
  <2>3. QED
    BY <1>1, <1>4, <2>1, <2>2 DEF RemovedFor
<1>7. InOrder(d)'
  <2>1. op[d] = "use" => RevokedBy(arg[d])' = RevokedBy(arg[d])
    BY <1>1, <1>2
  <2>2. QED
    BY <1>4, <2>1 DEF InOrder
<1>8. QED
  BY <1>5, <1>6, <1>7

(* A request begins with a token that its owner has been given. *)
LEMMA UseApi == ASSUME Base, ApiOK, NEW c \in Calls, BeginUse(c) PROVE ApiOK'
<1>1. CallTypes /\ CallsFit /\ QueueOK /\ Api \subseteq EventTypes
  BY BaseParts DEF Api, EventTypes, Silent
<1>a. PICK a \in Calls : \E s :
        /\ Returned(a, "generate") /\ Begin(c, "use", user[a], a) /\ seen' = [seen EXCEPT ![c] = s]
        /\ s = "revoked" => \E r \in RevokedBy(a) : pc[r] = "done"
  BY DEF BeginUse
<1>2. PICK s :
        /\ a \in Calls /\ Returned(a, "generate") /\ Begin(c, "use", user[a], a)
        /\ seen' = [seen EXCEPT ![c] = s]
        /\ s = "revoked" => \E r \in RevokedBy(a) : pc[r] = "done"
  BY <1>a
<1>3. pc[c] = "idle" /\ op[c] = "none"
  BY <1>1, <1>2 DEF Begin, CallsFit
<1>4. /\ pc' = [pc EXCEPT ![c] = "use"] /\ op' = [op EXCEPT ![c] = "use"]
      /\ arg' = [arg EXCEPT ![c] = a] /\ UNCHANGED <<api, errors, crashes>>
  BY <1>2 DEF BeginUse, Begin, Goto, accounts, faults
<1>5. Adds("IsApiTokenValid", c) /\ QueueOK' /\ Send("IsApiTokenValid", c)
  BY UseSends DEF Adds, BeginUse
<1>6. \A t \in Api, d \in Calls : Waiting(t, d)' <=> Waiting(t, d)
  BY <1>1, <1>5 DEF Adds, Api
<1>7. /\ pc'[c] = "use" /\ op'[c] = "use" /\ arg'[c] = a /\ seen'[c] = s
      /\ \A d \in Calls \ {c} : SameCall(d)
  BY <1>1, <1>2, <1>4 DEF CallTypes, SameCall
<1>8. \A b \in Calls : RevokedBy(b)' = RevokedBy(b)
  BY <1>3, <1>7 DEF RevokedBy, SameCall
<1>9. \A d \in Calls, o \in {"generate", "revoke"} : Returned(d, o)' <=> Returned(d, o)
  BY <1>3, <1>7 DEF Returned, SameCall
<1>10. TokenOK'
  BY <1>4, <1>6, <1>8, <1>9 DEF ApiOK, TokenOK, Api
<1>11. ASSUME NoFault', NEW d \in Calls
       PROVE  Stored(d)' /\ Removed(d)' /\ StoredFor(d)' /\ RemovedFor(d)' /\ InOrder(d)'
  <2>1. \A e \in Calls : Stored(e) /\ Removed(e) /\ StoredFor(e) /\ RemovedFor(e) /\ InOrder(e)
    BY <1>4, <1>11, ApiParts DEF NoFault
  <2>2. Stored(d)'
    BY <1>4, <1>6, <1>9, <2>1 DEF Stored, Api
  <2>3. Removed(d)'
    <3>1. Returned(d, "revoke") => arg'[d] = arg[d]
      BY <1>3, <1>7 DEF Returned, SameCall
    <3>2. QED
      BY <1>4, <1>6, <1>9, <2>1, <3>1 DEF Removed, Api
  <2>4. CASE d = c
    <3>1. api[a] # "none" \/ Ahead("StoreNewApiToken", a, c)'
      BY <1>1, <1>2, <1>5, <2>1, AheadOfUse DEF Stored
    <3>2. ASSUME s = "revoked"
          PROVE  api[a] = "deleted" \/ \E r \in RevokedBy(a) : Ahead("RevokeApiToken", r, c)'
      <4>1. PICK r \in RevokedBy(a) : pc[r] = "done"
        BY <1>2, <3>2
      <4>2. r \in Calls /\ Returned(r, "revoke") /\ arg[r] = a
        BY <4>1 DEF RevokedBy, Returned
      <4>3. CASE Waiting("RevokeApiToken", r)
        <5>1. Ahead("RevokeApiToken", r, c)'
          BY <1>1, <1>5, <4>3, AheadOfUse
        <5>2. QED
          BY <4>1, <5>1
      <4>4. QED
        BY <2>1, <4>2, <4>3 DEF Removed
    <3>3. StoredFor(c)'
      <4>1. Ahead("StoreNewApiToken", a, c)' => Ahead("StoreNewApiToken", arg[c], c)'
        BY <1>7 DEF Ahead
      <4>2. QED
        BY <1>4, <1>7, <3>1, <4>1 DEF StoredFor
    <3>4. RemovedFor(c)'
      <4>1. RevokedBy(arg[c])' = RevokedBy(a)
        BY <1>7, <1>8 DEF RevokedBy
      <4>2. QED
        BY <1>4, <1>7, <3>2, <4>1 DEF RemovedFor
    <3>5. InOrder(c)'
      BY <1>7 DEF InOrder
    <3>6. QED
      BY <2>2, <2>3, <2>4, <3>3, <3>4, <3>5
  <2>5. CASE d # c
    <3>1. SameCall(d) /\ (op[d] = "use" => arg[d] \in Calls) /\ (pc[d] = "use" => op[d] = "use")
      BY <1>1, <1>7, <2>5 DEF CallsFit
    <3>2. \A t, b : Ahead(t, b, d) => Ahead(t, b, d)'
      BY <1>1, <1>5, SendsBehind DEF EventTypes
    <3>3. StoredFor(d)' /\ RemovedFor(d)' /\ InOrder(d)'
      BY <1>4, <1>8, <2>1, <3>1, <3>2, UsesKept
    <3>4. QED
      BY <2>2, <2>3, <3>3
  <2>6. QED
    BY <2>4, <2>5
<1>12. QED
  BY <1>10, <1>11, ApiPartsNext

(* A token is returned, and the event that stores it is in the channel. *)
LEMMA GenerateApi ==
  ASSUME Base, ApiOK, NEW c \in Calls, generate_api_token(c) \/ revoke_api_token(c)
  PROVE  ApiOK'
<1>1. CallTypes /\ CallsFit /\ QueueOK /\ Api \subseteq EventTypes
  BY BaseParts DEF Api, EventTypes, Silent
<1>2. PICK t \in Api : /\ Adds(t, c) /\ Send(t, c) /\ QueueOK'
                       /\ op[c] = IF t = "RevokeApiToken" THEN "revoke" ELSE "generate"
  BY GenerateSends, RevokeSends DEF generate_api_token, revoke_api_token, Api, Adds
<1>3. /\ pc[c] = "claims_ok" /\ pc' = [pc EXCEPT ![c] = "done"]
      /\ UNCHANGED <<op, arg, seen, api, errors, crashes>>
  BY DEF generate_api_token, revoke_api_token, Goto, accounts, faults
<1>4. \A b \in Calls : RevokedBy(b)' = RevokedBy(b)
  BY <1>3 DEF RevokedBy
<1>5. \A u \in Api, d \in Calls : Waiting(u, d)' <=> Waiting(u, d) \/ (u = t /\ d = c)
  BY <1>1, <1>2 DEF Adds
<1>6. \A u, b, d : Ahead(u, b, d) => Ahead(u, b, d)'
  BY <1>1, <1>2, SendsBehind
<1>7. pc'[c] = "done" /\ \A d \in Calls \ {c} : SameCall(d)
  BY <1>1, <1>3 DEF CallTypes, SameCall
<1>8. \A o : \A d \in Calls : Returned(d, o) => Returned(d, o)'
  BY <1>3, <1>7 DEF Returned, SameCall
<1>9. api[c] = "none"
  BY <1>3 DEF ApiOK, TokenOK, Returned
<1>10. TokenOK'
  <2>1. \A a \in Calls : Waiting("StoreNewApiToken", a)' => Waiting("StoreNewApiToken", a) \/ a = c
    BY <1>5 DEF Api
  <2>2. QED
    BY <1>3, <1>4, <1>8, <1>9, <2>1 DEF ApiOK, TokenOK
<1>11. ASSUME NoFault', NEW d \in Calls
       PROVE  Stored(d)' /\ Removed(d)' /\ StoredFor(d)' /\ RemovedFor(d)' /\ InOrder(d)'
  <2>1. Stored(d) /\ Removed(d) /\ StoredFor(d) /\ RemovedFor(d) /\ InOrder(d)
    BY <1>3, <1>11, ApiParts DEF NoFault
  <2>2. Stored(d)' /\ Removed(d)'
    <3>1. CASE d = c
      BY <1>2, <1>3, <1>5, <3>1 DEF Stored, Removed, Returned, Api
    <3>2. CASE d # c
      <4>1. \A o : Returned(d, o)' <=> Returned(d, o)
        BY <1>7, <3>2 DEF Returned, SameCall
      <4>2. QED
        BY <1>3, <1>5, <2>1, <4>1 DEF Stored, Removed, Api
    <3>3. QED
      BY <3>1, <3>2
  <2>3. CASE d = c
    BY <1>2, <1>3, <1>7, <2>2, <2>3 DEF StoredFor, RemovedFor, InOrder
  <2>4. CASE d # c
    <3>1. SameCall(d) /\ (op[d] = "use" => arg[d] \in Calls) /\ (pc[d] = "use" => op[d] = "use")
      BY <1>1, <1>7, <2>4 DEF CallsFit
    <3>2. QED
      BY <1>3, <1>4, <1>6, <2>1, <2>2, <3>1, UsesKept
  <2>5. QED
    BY <2>3, <2>4
<1>12. QED
  BY <1>10, <1>11, ApiPartsNext

(* The token is stored. *)
LEMMA StoreApi == ASSUME Base, ApiOK, NEW c \in Calls, store_api_token(c) PROVE ApiOK'
<1>1. CallTypes /\ CallsFit /\ EventsFit /\ QueueOK /\ TableTypes /\ Api \subseteq EventTypes
  BY BaseParts DEF Api, EventTypes, Silent
<1>2. Drops("StoreNewApiToken", c) /\ Taken("StoreNewApiToken", c) /\ Take
  BY Handles DEF store_api_token, EventTypes, Silent
<1>3. api' = [api EXCEPT ![c] = "stored"] /\ UNCHANGED <<pc, op, arg, seen, errors, crashes>>
  BY DEF store_api_token, calls, faults
<1>4. api[c] = "none" /\ Returned(c, "generate")
  BY <1>1, <1>2 DEF Drops, EventsFit, ApiOK, TokenOK
<1>5. \A b \in Calls : RevokedBy(b)' = RevokedBy(b)
  BY <1>3 DEF RevokedBy
<1>6. \A u \in Api, d \in Calls : Waiting(u, d)' <=> Waiting(u, d) /\ ~(u = "StoreNewApiToken" /\ d = c)
  BY <1>1, <1>2 DEF Drops
<1>7. \A u, b, d : Ahead(u, b, d) /\ ~(u = "StoreNewApiToken" /\ b = c) => Ahead(u, b, d)'
  BY <1>1, <1>2, TakesAhead DEF Api
<1>8. api'[c] = "stored" /\ \A b \in Calls \ {c} : api'[b] = api[b]
  BY <1>1, <1>3 DEF TableTypes
<1>9. \A o : \A d \in Calls : Returned(d, o)' <=> Returned(d, o)
  BY <1>3 DEF Returned
<1>10. TokenOK'
  BY <1>4, <1>5, <1>6, <1>8, <1>9 DEF ApiOK, TokenOK, Api
<1>11. \A b \in Calls : /\ api[b] # "none" => api'[b] # "none"
                        /\ api[b] = "deleted" => api'[b] = "deleted"
  BY <1>4, <1>8
<1>12. ASSUME NoFault', NEW d \in Calls
       PROVE  Stored(d)' /\ Removed(d)' /\ StoredFor(d)' /\ RemovedFor(d)' /\ InOrder(d)'
  <2>1. Stored(d) /\ Removed(d) /\ StoredFor(d) /\ RemovedFor(d) /\ InOrder(d)
    BY <1>3, <1>12, ApiParts DEF NoFault
  <2>2. Stored(d)'
    BY <1>6, <1>8, <1>9, <2>1 DEF Stored, Api
  <2>3. Removed(d)'
    <3>1. op[d] = "revoke" => arg[d] \in Calls
      BY <1>1 DEF CallsFit
    <3>2. QED
      BY <1>3, <1>6, <1>9, <1>11, <2>1, <3>1 DEF Removed, Returned, Api
  <2>4. SameCall(d) /\ (op[d] = "use" => arg[d] \in Calls) /\ (pc[d] = "use" => op[d] = "use")
    BY <1>1, <1>3 DEF CallsFit, SameCall
  <2>5. \A b \in Calls : Ahead("StoreNewApiToken", b, d) =>
                           api'[b] # "none" \/ Ahead("StoreNewApiToken", b, d)'
    BY <1>7, <1>8
  <2>6. QED
    BY <1>5, <1>7, <1>11, <2>1, <2>2, <2>3, <2>4, <2>5, UsesKept
<1>13. QED
  BY <1>10, <1>12, ApiPartsNext

(* The token of a revocation is deleted; it was stored before. *)
LEMMA DeleteApi == ASSUME Base, ApiOK, NEW c \in Calls, delete_api_token(c) PROVE ApiOK'
<1>1. CallTypes /\ CallsFit /\ EventsFit /\ QueueOK /\ TableTypes /\ Api \subseteq EventTypes
  BY BaseParts DEF Api, EventTypes, Silent
<1>2. Drops("RevokeApiToken", c) /\ Taken("RevokeApiToken", c) /\ Take
  BY Handles DEF delete_api_token, EventTypes, Silent
<1>3. Returned(c, "revoke") /\ arg[c] \in Calls /\ c \in RevokedBy(arg[c])
  BY <1>1, <1>2 DEF Drops, EventsFit, CallsFit, Returned, RevokedBy
<1>4. PICK a \in Calls : a = arg[c]
  BY <1>3
<1>5. api' = [api EXCEPT ![a] = "deleted"] /\ UNCHANGED <<pc, op, arg, seen, errors, crashes>>
  BY <1>4 DEF delete_api_token, calls, faults
<1>6. api[a] # "none" /\ RevokedBy(a) # {}
  BY <1>3, <1>4 DEF ApiOK, TokenOK
<1>7. \A b \in Calls : RevokedBy(b)' = RevokedBy(b)
  BY <1>5 DEF RevokedBy
<1>8. \A u \in Api, d \in Calls : Waiting(u, d)' <=> Waiting(u, d) /\ ~(u = "RevokeApiToken" /\ d = c)
  BY <1>1, <1>2 DEF Drops
<1>9. \A u, b, d : Ahead(u, b, d) /\ ~(u = "RevokeApiToken" /\ b = c) => Ahead(u, b, d)'
  BY <1>1, <1>2, TakesAhead DEF Api
<1>10. api'[a] = "deleted" /\ \A b \in Calls \ {a} : api'[b] = api[b]
  BY <1>1, <1>5 DEF TableTypes
<1>11. \A o : \A d \in Calls : Returned(d, o)' <=> Returned(d, o)
  BY <1>5 DEF Returned
<1>12. TokenOK'
  BY <1>6, <1>7, <1>8, <1>10, <1>11 DEF ApiOK, TokenOK, Api
<1>13. \A b \in Calls : /\ api[b] # "none" => api'[b] # "none"
                        /\ api[b] = "deleted" => api'[b] = "deleted"
  BY <1>10
<1>14. ASSUME NoFault', NEW d \in Calls
       PROVE  Stored(d)' /\ Removed(d)' /\ StoredFor(d)' /\ RemovedFor(d)' /\ InOrder(d)'
  <2>1. Stored(d) /\ Removed(d) /\ StoredFor(d) /\ RemovedFor(d) /\ InOrder(d)
    BY <1>5, <1>14, ApiParts DEF NoFault
  <2>2. Stored(d)'
    BY <1>8, <1>11, <1>13, <2>1 DEF Stored, Api
  <2>3. Removed(d)'
    <3>1. op[d] = "revoke" => arg[d] \in Calls
      BY <1>1 DEF CallsFit
    <3>2. d = c => api'[arg'[d]] = "deleted"
      BY <1>4, <1>5, <1>10
    <3>3. QED
      BY <1>5, <1>8, <1>11, <1>13, <2>1, <3>1, <3>2 DEF Removed, Returned, Api
  <2>4. SameCall(d) /\ (op[d] = "use" => arg[d] \in Calls) /\ (pc[d] = "use" => op[d] = "use")
    BY <1>1, <1>5 DEF CallsFit, SameCall
  <2>5. \A r \in Calls : Ahead("RevokeApiToken", r, d) =>
                           api'[arg[r]] = "deleted" \/ Ahead("RevokeApiToken", r, d)'
    BY <1>4, <1>9, <1>10
  <2>6. QED
    BY <1>7, <1>9, <1>13, <2>1, <2>2, <2>3, <2>4, <2>5, UsesKept
<1>15. QED
  BY <1>12, <1>14, ApiPartsNext

(* A request is answered from the table, when nothing is ahead of it. *)
LEMMA ValidApi == ASSUME Base, ApiOK, NEW c \in Calls, is_api_token_valid(c) PROVE ApiOK'
<1>1. CallTypes /\ CallsFit /\ EventsFit /\ QueueOK /\ TableTypes /\ Api \subseteq EventTypes
  BY BaseParts DEF Api, EventTypes, Silent
<1>2. Drops("IsApiTokenValid", c) /\ Taken("IsApiTokenValid", c) /\ Take
  BY Handles DEF is_api_token_valid, EventTypes
<1>3. pc[c] = "use" /\ op[c] = "use" /\ arg[c] \in Calls
  BY <1>1, <1>2 DEF Drops, EventsFit, CallsFit
<1>4. PICK l \in {"done", "failed"} : /\ pc' = [pc EXCEPT ![c] = l]
                                      /\ l = "done" <=> api[arg[c]] = "stored"
  BY DEF is_api_token_valid, Answer, Goto
<1>5. UNCHANGED <<op, arg, seen, api, errors, crashes>>
  BY DEF is_api_token_valid, accounts, faults
<1>6. \A b \in Calls : RevokedBy(b)' = RevokedBy(b)
  BY <1>5 DEF RevokedBy
<1>7. \A u \in Api, d \in Calls : Waiting(u, d)' <=> Waiting(u, d)
  BY <1>1, <1>2 DEF Drops, Api
<1>8. \A b, d : \A u \in Api : Ahead(u, b, d) => Ahead(u, b, d)'
  BY <1>1, <1>2, TakesAhead DEF Api, EventTypes
<1>9. pc'[c] = l /\ \A d \in Calls \ {c} : SameCall(d)
  BY <1>1, <1>4, <1>5 DEF CallTypes, SameCall
<1>10. \A d \in Calls, o \in {"generate", "revoke"} : Returned(d, o)' <=> Returned(d, o)
  BY <1>3, <1>5, <1>9 DEF Returned, SameCall
<1>11. TokenOK'
  BY <1>5, <1>6, <1>7, <1>10 DEF ApiOK, TokenOK, Api
<1>12. ASSUME NoFault', NEW d \in Calls
       PROVE  Stored(d)' /\ Removed(d)' /\ StoredFor(d)' /\ RemovedFor(d)' /\ InOrder(d)'
  <2>1. Stored(d) /\ Removed(d) /\ StoredFor(d) /\ RemovedFor(d) /\ InOrder(d)
    BY <1>5, <1>12, ApiParts DEF NoFault
  <2>2. Stored(d)' /\ Removed(d)'
    BY <1>5, <1>7, <1>10, <2>1 DEF Stored, Removed, Api
  <2>3. CASE d = c
    <3>1. StoredFor(c)' /\ RemovedFor(c)'
      BY <1>4, <1>9 DEF StoredFor, RemovedFor
    <3>2. \A u, b : ~Ahead(u, b, c)
      BY <1>1, <1>2, NothingAhead
    <3>3. api[arg[c]] # "none" /\ (seen[c] = "revoked" => api[arg[c]] = "deleted")
      BY <1>3, <2>1, <2>3, <3>2 DEF StoredFor, RemovedFor
    <3>4. api[arg[c]] \in {"none", "stored", "deleted"}
      BY <1>1, <1>3 DEF TableTypes
    <3>5. l = "failed" => RevokedBy(arg[c]) # {}
      BY <1>3, <1>4, <3>3, <3>4 DEF ApiOK, TokenOK
    <3>6. RevokedBy(arg[c])' = RevokedBy(arg[c])
      BY <1>5 DEF RevokedBy
    <3>7. InOrder(c)'
      BY <1>4, <1>5, <1>9, <3>3, <3>5, <3>6 DEF InOrder
    <3>8. QED
      BY <2>2, <2>3, <3>1, <3>7
  <2>4. CASE d # c
    <3>1. SameCall(d) /\ (op[d] = "use" => arg[d] \in Calls) /\ (pc[d] = "use" => op[d] = "use")
      BY <1>1, <1>9, <2>4 DEF CallsFit
    <3>2. "StoreNewApiToken" \in Api /\ "RevokeApiToken" \in Api
      BY DEF Api
    <3>3. QED
      BY <1>5, <1>6, <1>8, <2>1, <2>2, <3>1, <3>2, UsesKept
  <2>5. QED
    BY <2>3, <2>4
<1>13. QED
  BY <1>11, <1>12, ApiPartsNext

LEMMA ApiNext == ASSUME Base, ApiOK, [Next]_vars PROVE ApiOK'
<1>1. ASSUME NEW c \in Calls, StartCall(c) PROVE ApiOK'
  BY <1>1, UseApi, StartKeepsApi, ApiFrame
<1>2. ASSUME NEW c \in Calls, ContinueCall(c) PROVE ApiOK'
  BY <1>2, GenerateApi, ContinueKeepsApi, ApiFrame DEF ContinueCall
<1>3. ASSUME NEW c \in Calls, HandleEvent(c) PROVE ApiOK'
  BY <1>3, StoreApi, DeleteApi, ValidApi, ManagerKeepsApi, ApiFrame DEF HandleEvent
<1>4. ASSUME UNCHANGED vars PROVE ApiOK'
  BY <1>4, StutterKeepsApi, ApiFrame
<1>5. QED
  BY <1>1, <1>2, <1>3, <1>4, FaultApi DEF Next, StateManager

-----------------------------------------------------------------------------
(* Deposits.                                                               *)

(* The parts of DepositOK. *)
Recorded(d) == \E e \in PaymentsOf(d) : pc[e] \notin {"idle", "digest"}
Settled(c) ==
  /\ pc[c] = "confirm" => op[c] = "payment"
  /\ pc[c] = "done" => kind[arg[c]] # "unknown"
  /\ pc[c] = "done" /\ kind[arg[c]] = "deposit" =>
       credit[arg[c]] = user[c] \/ Waiting("TopUpBalance", c)
  /\ pc[c] = "failed" /\ op[c] = "payment_zk" =>
       \/ kind[arg[c]] = "unclear"
       \/ ~GoogleOAuth \/ <<user[c], Sender[arg[c]]>> \notin Signers
       \/ \E e \in PaymentsOf(arg[c]) : e # c

LEMMA DepositParts ==
  DepositOK <=> (NoFault => /\ \A d \in digests : Recorded(d)
                            /\ \A c \in Calls : op[c] \in Payments => Settled(c))
  BY DEF DepositOK, Recorded, Settled

LEMMA DepositPartsNext ==
  ASSUME ASSUME NoFault' PROVE /\ \A d \in digests' : Recorded(d)'
                               /\ \A c \in Calls : op'[c] \in Payments => Settled(c)'
  PROVE  DepositOK'
  BY DEF DepositOK, Recorded, Settled

(* A call that the step leaves alone, or that is not about a payment, or   *)
(* begins to be.                                                           *)
SamePayment(c) == op'[c] = op[c] /\ pc'[c] = pc[c] /\ arg'[c] = arg[c] /\ user'[c] = user[c]
NoPayment(c) == op[c] \notin Payments /\ (op'[c] \in Payments => pc'[c] = "digest")

DepositKept ==
  /\ UNCHANGED <<digests, kind, credit>> /\ (NoFault' => NoFault)
  /\ \A c \in Calls : SamePayment(c) \/ NoPayment(c)
  /\ \A c \in Calls : Waiting("TopUpBalance", c) => Waiting("TopUpBalance", c)'

LEMMA PaymentsStay ==
  ASSUME \A c \in Calls : op[c] \in Payments => op'[c] = op[c] /\ arg'[c] = arg[c], NEW d
  PROVE  PaymentsOf(d) \subseteq PaymentsOf(d)'
  BY DEF PaymentsOf

(* A call that ended stays settled while more calls come. *)
LEMMA SettledStays ==
  ASSUME NEW c \in Calls, SamePayment(c), Settled(c),
         kind[arg[c]] # "unknown" => kind'[arg[c]] = kind[arg[c]],
         credit[arg[c]] = user[c] => credit'[arg[c]] = user[c],
         Waiting("TopUpBalance", c) => Waiting("TopUpBalance", c)' \/ credit'[arg[c]] = user[c],
         PaymentsOf(arg[c]) \subseteq PaymentsOf(arg[c])'
  PROVE  Settled(c)'
<1>1. op'[c] = op[c] /\ pc'[c] = pc[c] /\ arg'[c] = arg[c] /\ user'[c] = user[c]
  BY DEF SamePayment
<1>2. QED
  BY <1>1 DEF Settled

LEMMA DepositFrame == ASSUME DepositOK, DepositKept PROVE DepositOK'
<1>1. /\ UNCHANGED <<digests, kind, credit>> /\ (NoFault' => NoFault)
      /\ \A c \in Calls : SamePayment(c) \/ NoPayment(c)
      /\ \A c \in Calls : Waiting("TopUpBalance", c) => Waiting("TopUpBalance", c)'
  BY DEF DepositKept
<1>2. \A d : PaymentsOf(d) \subseteq PaymentsOf(d)'
  BY <1>1, PaymentsStay DEF SamePayment, NoPayment
<1>3. ASSUME NoFault' PROVE \A d \in digests' : Recorded(d)'
  <2>1. \A d \in digests : Recorded(d)
    BY <1>1, <1>3, DepositParts
  <2>2. \A d, e : e \in PaymentsOf(d) => e \in Calls /\ op[e] \in Payments
    BY DEF PaymentsOf
  <2>3. ASSUME NEW d \in digests PROVE Recorded(d)'
    <3>1. PICK e \in PaymentsOf(d) : pc[e] \notin {"idle", "digest"}
      BY <2>1 DEF Recorded
    <3>2. pc'[e] = pc[e] /\ e \in PaymentsOf(d)'
      BY <1>1, <1>2, <2>2, <3>1 DEF SamePayment, NoPayment
    <3>3. QED
      BY <3>1, <3>2 DEF Recorded
  <2>4. QED
    BY <1>1, <2>3
<1>4. ASSUME NoFault', NEW c \in Calls, op'[c] \in Payments PROVE Settled(c)'
  <2>1. CASE SamePayment(c)
    <3>1. Settled(c)
      BY <1>1, <1>4, <2>1, DepositParts DEF SamePayment
    <3>2. PaymentsOf(arg[c]) \subseteq PaymentsOf(arg[c])'
      <4>1. PICK d : d = arg[c] /\ d = arg'[c]
        BY <2>1 DEF SamePayment
      <4>2. QED
        BY <1>2, <4>1 DEF PaymentsOf
    <3>3. QED
      BY <1>1, <2>1, <3>1, <3>2, SettledStays
  <2>2. CASE NoPayment(c)
    BY <1>4, <2>2 DEF NoPayment, Settled
  <2>3. QED
    BY <1>1, <2>1, <2>2
<1>5. QED
  BY <1>3, <1>4, DepositPartsNext

LEMMA StartKeepsDeposits == ASSUME Base, NEW c \in Calls, StartCall(c) PROVE DepositKept
<1>1. CallTypes /\ CallsFit /\ "TopUpBalance" \in EventTypes
  BY BaseParts DEF EventTypes, Silent
<1>2. PICK o, l : Starts(c, o, l) /\ (o \in Payments => l = "digest")
  BY CallStarts DEF Logins, Managing, Payments
<1>3. UNCHANGED <<digests, kind, credit, errors, crashes>>
  BY <1>2 DEF Starts, money, faults
<1>4. \A d \in Calls \ {c} : SamePayment(d)
  BY <1>1, <1>2 DEF SamePayment, CallTypes, Starts
<1>5. NoPayment(c)
  BY <1>1, <1>2 DEF NoPayment, CallTypes, CallsFit, Starts, Payments
<1>6. \E t \in EventTypes : Adds(t, c)
  BY <1>2, Managers, LoginSends, ClaimsSends, UseSends, AddressSends, PaymentSends
     DEF StartCall, Register, Login, GoogleOauth, EventTypes, Silent, Starts
<1>7. \A d \in Calls : Waiting("TopUpBalance", d) => Waiting("TopUpBalance", d)'
  BY <1>1, <1>6 DEF Adds
<1>8. QED
  BY <1>3, <1>4, <1>5, <1>7 DEF DepositKept, NoFault

LEMMA ContinueKeepsDeposits ==
  ASSUME Base, NEW c \in Calls,
         \/ generate_refresh_token(c) \/ LoginDone(c) \/ generate_api_token(c)
         \/ revoke_api_token(c) \/ get_zk_salt(c) \/ set_zk_salt(c)
  PROVE  DepositKept
<1>1. CallTypes /\ CallsFit /\ QueueOK /\ "TopUpBalance" \in EventTypes
  BY BaseParts DEF EventTypes, Silent
<1>2. op[c] \in Logins \cup Managing
  BY <1>1 DEF CallsFit, generate_refresh_token, LoginDone, generate_api_token, revoke_api_token,
     get_zk_salt, set_zk_salt, Managing
<1>3. /\ \E l : pc' = [pc EXCEPT ![c] = l]
      /\ UNCHANGED <<op, user, arg, digests, kind, credit, errors, crashes>>
  BY DEF generate_refresh_token, LoginDone, generate_api_token, revoke_api_token, get_zk_salt,
     set_zk_salt, Goto, money, faults
<1>4. \A d \in Calls \ {c} : SamePayment(d)
  BY <1>1, <1>3 DEF SamePayment, CallTypes
<1>5. NoPayment(c)
  BY <1>2, <1>3 DEF NoPayment, Logins, Managing, Payments
<1>6. \A d \in Calls : Waiting("TopUpBalance", d) => Waiting("TopUpBalance", d)'
  BY <1>1, RefreshSends, GenerateSends, RevokeSends, Kept
     DEF AddsTwo, Adds, Keeps, LoginDone, get_zk_salt, set_zk_salt
<1>7. QED
  BY <1>3, <1>4, <1>5, <1>6 DEF DepositKept, NoFault

LEMMA ManagerKeepsDeposits ==
  ASSUME Base, NEW c \in Calls,
         \/ HandleUser(c) \/ store_refresh_token(c) \/ is_refresh_token_valid(c) \/ store_api_token(c)
         \/ delete_api_token(c) \/ is_api_token_valid(c) \/ HandleSuiAddress(c)
  PROVE  DepositKept
<1>1. CallTypes /\ CallsFit /\ EventsFit /\ "TopUpBalance" \in EventTypes
  BY BaseParts DEF EventTypes, Silent
<1>2. PICK t \in EventTypes \ {"TopUpBalance"} : Drops(t, c)
  BY Handles DEF HandleUser, store_refresh_token, is_refresh_token_valid, store_api_token,
     delete_api_token, is_api_token_valid, HandleSuiAddress, EventTypes, Silent
<1>3. UNCHANGED <<op, user, arg, digests, kind, credit, errors, crashes>>
  BY DEF HandleUser, store_refresh_token, is_refresh_token_valid, store_api_token,
     delete_api_token, is_api_token_valid, HandleSuiAddress, calls, money, faults
<1>4. CASE HandleUser(c) \/ is_refresh_token_valid(c) \/ is_api_token_valid(c)
  <2>1. pc[c] \in {"user", "claims", "use"}
    BY <1>1, <1>4, Handles DEF HandleUser, is_refresh_token_valid, is_api_token_valid,
       Drops, EventsFit, EventTypes
  <2>2. NoPayment(c)
    BY <1>1, <1>3, <2>1 DEF NoPayment, CallsFit, Logins, Managing, Payments
  <2>3. \E l : pc' = [pc EXCEPT ![c] = l]
    BY <1>4 DEF HandleUser, is_refresh_token_valid, is_api_token_valid, Answer, Goto
  <2>4. \A d \in Calls \ {c} : SamePayment(d)
    BY <1>1, <1>3, <2>3 DEF SamePayment, CallTypes
  <2>5. QED
    BY <1>1, <1>2, <1>3, <2>2, <2>4 DEF DepositKept, NoFault, Drops
<1>5. CASE UNCHANGED pc
  BY <1>1, <1>2, <1>3, <1>5 DEF DepositKept, SamePayment, NoFault, Drops
<1>6. QED
  BY <1>4, <1>5 DEF store_refresh_token, store_api_token, delete_api_token, HandleSuiAddress, calls

LEMMA FaultDeposits ==
  ASSUME Base, DatabaseError \/ Crash \/ (\E c \in Calls : SuiFails(c))
  PROVE  DepositOK'
<1>1. errors \in Nat /\ crashes \in Nat
  BY DEF Base, TypeOK
<1>2. errors' = errors + 1 \/ crashes' = crashes + 1
  BY DEF DatabaseError, Crash, SuiFails
<1>3. QED
  BY <1>1, <1>2 DEF DepositOK, NoFault

LEMMA StutterKeepsDeposits == ASSUME Base, UNCHANGED vars PROVE DepositKept
<1>1. "TopUpBalance" \in EventTypes /\ QueueOK
  BY DEF EventTypes, Silent, Base
<1>2. QED
  BY <1>1, Kept DEF vars, calls, money, faults, Keeps, DepositKept, SamePayment, NoFault

(* A step of the payment c to l; the other calls stay settled, for kind    *)
(* and credit are set once.                                                *)
Pays(c, l) ==
  /\ op[c] \in Payments /\ pc[c] # "idle" /\ arg[c] \in Digests
  /\ pc' = [pc EXCEPT ![c] = l] /\ l \notin {"idle", "digest"}
  /\ UNCHANGED <<op, arg, user, errors, crashes>>

LEMMA PaysOthers ==
  ASSUME Base, DepositOK, NoFault', NEW c \in Calls, NEW l, Pays(c, l),
         digests' \subseteq digests \cup {arg[c]},
         \A d \in Digests : /\ kind[d] # "unknown" => kind'[d] = kind[d]
                            /\ credit[d] # NoUser => credit'[d] = credit[d],
         \A e \in Calls \ {c} : Waiting("TopUpBalance", e) => Waiting("TopUpBalance", e)',
         Settled(c)'
  PROVE  /\ \A d \in digests' : Recorded(d)'
         /\ \A e \in Calls : op'[e] \in Payments => Settled(e)'
<1>1. CallTypes /\ CallsFit
  BY BaseParts
<1>2. /\ \A d \in digests : Recorded(d)
      /\ \A e \in Calls : op[e] \in Payments => Settled(e)
  BY DepositParts DEF Pays, NoFault
<1>3. /\ \A d : PaymentsOf(d)' = PaymentsOf(d) /\ PaymentsOf(d) \subseteq Calls
      /\ c \in PaymentsOf(arg[c])
  BY DEF Pays, PaymentsOf
<1>4. pc'[c] = l /\ \A e \in Calls \ {c} : SamePayment(e)
  BY <1>1 DEF Pays, SamePayment, CallTypes
<1>5. ASSUME NEW d \in digests' PROVE Recorded(d)'
  <2>1. CASE d = arg[c]
    BY <1>3, <1>4, <2>1 DEF Recorded, Pays
  <2>2. CASE d \in digests
    <3>1. PICK e \in PaymentsOf(d) : pc[e] \notin {"idle", "digest"}
      BY <1>2, <2>2 DEF Recorded
    <3>2. e \in PaymentsOf(d)' /\ pc'[e] \notin {"idle", "digest"}
      BY <1>3, <1>4, <3>1 DEF SamePayment, Pays
    <3>3. QED
      BY <3>2 DEF Recorded
  <2>3. QED
    BY <2>1, <2>2
<1>6. ASSUME NEW e \in Calls, op'[e] \in Payments PROVE Settled(e)'
  <2>1. CASE e # c
    <3>1. SamePayment(e) /\ Settled(e) /\ op[e] \in Payments
      BY <1>2, <1>4, <1>6, <2>1 DEF Pays
    <3>2. arg[e] \in Digests /\ op[e] # "none"
      BY <1>1, <3>1 DEF CallsFit, Payments
    <3>3. pc[e] # "idle" /\ user[e] # NoUser
      BY <1>1, <3>2, NothingAssumption DEF CallsFit
    <3>4. PaymentsOf(arg[e]) \subseteq PaymentsOf(arg[e])'
      BY DEF Pays, PaymentsOf
    <3>5. QED
      BY <2>1, <3>1, <3>2, <3>3, <3>4, SettledStays
  <2>2. QED
    BY <2>1
<1>7. QED
  BY <1>5, <1>6

LEMMA ChangesDeposits ==
  ASSUME Base, DepositOK, NEW c \in Calls, NEW k \in Kinds, BalanceChanges(c, k)
  PROVE  DepositOK'
<1>1. CallTypes /\ CallsFit /\ EventsFit /\ TableTypes /\ "TopUpBalance" \in EventTypes
  BY BaseParts DEF EventTypes, Silent
<1>2. pc[c] = "digest_ok" /\ op[c] \in Payments /\ arg[c] \in Digests
  BY <1>1 DEF BalanceChanges, CallsFit
<1>3. PICK d \in Digests : d = arg[c]
  BY <1>2
<1>4. kind[d] \in {"unknown", k} /\ kind' = [kind EXCEPT ![d] = k]
  BY <1>3 DEF BalanceChanges
<1>5. kind'[d] = k /\ \A e \in Digests : kind[e] # "unknown" => kind'[e] = kind[e]
  BY <1>1, <1>4 DEF TableTypes, KindOK
<1>6. PICK l : /\ pc' = [pc EXCEPT ![c] = l] /\ l \in {"failed", "done", "confirm", "confirmed"}
               /\ l = "done" => k = "elsewhere"
               /\ l = "confirm" => op[c] = "payment"
               /\ l = "failed" => \/ k = "unclear" \/ ~GoogleOAuth
                                  \/ <<user[c], Sender[d]>> \notin Signers
  <2>1. user[c] \in Users /\ Sender[d] \in Wallets
    BY <1>1, <1>2, <1>3, DigestsAssumption DEF CallsFit, CallTypes
  <2>2. get_sui_address_from_signature(user[c], Sender[d]) <=> <<user[c], Sender[d]>> \in Signers
    BY <2>1, Signs
  <2>3. QED
    BY <1>3, <2>2 DEF BalanceChanges, Goto
<1>7. UNCHANGED <<op, arg, user, errors, crashes, digests, credit>>
  BY DEF BalanceChanges, money, faults
<1>8. Pays(c, l) /\ pc'[c] = l
  BY <1>1, <1>2, <1>6, <1>7 DEF Pays, CallTypes
<1>9. \A e \in Calls : Waiting("TopUpBalance", e) => Waiting("TopUpBalance", e)'
  BY <1>1, ChangesSend DEF Adds, Keeps
<1>10. Settled(c)'
  BY <1>3, <1>5, <1>6, <1>7, <1>8 DEF Settled
<1>11. QED
  BY <1>5, <1>7, <1>8, <1>9, <1>10, PaysOthers, DepositPartsNext

LEMMA TopUpDeposits ==
  ASSUME Base, Money, DepositOK, NEW c \in Calls, TopUpBalance(c) PROVE DepositOK'
<1>1. CallTypes /\ CallsFit /\ "TopUpBalance" \in EventTypes /\ Adds("TopUpBalance", c)
  BY BaseParts, TopUpSends DEF EventTypes, Silent
<1>2. pc[c] = "confirmed" /\ op[c] \in Payments /\ arg[c] \in Digests /\ kind[arg[c]] = "deposit"
  BY <1>1 DEF TopUpBalance, CallsFit, Money, SignedOK, Approved
<1>3. UNCHANGED <<op, arg, user, errors, crashes, digests, credit, kind>> /\ pc' = [pc EXCEPT ![c] = "done"]
  BY DEF TopUpBalance, money, faults, Goto
<1>4. Pays(c, "done") /\ pc'[c] = "done"
  BY <1>1, <1>2, <1>3 DEF Pays, CallTypes
<1>5. Waiting("TopUpBalance", c)' /\ \A e \in Calls : Waiting("TopUpBalance", e) => Waiting("TopUpBalance", e)'
  BY <1>1 DEF Adds
<1>6. Settled(c)'
  BY <1>2, <1>3, <1>4, <1>5 DEF Settled
<1>7. QED
  BY <1>3, <1>4, <1>5, <1>6, PaysOthers, DepositPartsNext

(* A digest that is there already is that of another call. *)
LEMMA DigestDeposits ==
  ASSUME Base, DepositOK, NEW c \in Calls, insert_new_usdc_payment_digest(c) PROVE DepositOK'
<1>1. /\ CallTypes /\ CallsFit /\ EventsFit /\ "TopUpBalance" \in EventTypes
      /\ Drops("InsertNewUsdcPaymentDigest", c)
  BY BaseParts, Handles DEF EventTypes, Silent, insert_new_usdc_payment_digest
<1>2. pc[c] = "digest" /\ op[c] \in Payments /\ arg[c] \in Digests
  BY <1>1 DEF Drops, EventsFit, CallsFit
<1>3. /\ UNCHANGED <<op, arg, user, errors, crashes, credit, kind>>
      /\ digests' = digests \cup {arg[c]}
  BY DEF insert_new_usdc_payment_digest, faults
<1>4. PICK l \in {"digest_ok", "failed"} : pc' = [pc EXCEPT ![c] = l] /\ (l = "failed" => arg[c] \in digests)
  BY DEF insert_new_usdc_payment_digest, Answer, Goto, NewDigest
<1>5. Pays(c, l) /\ pc'[c] = l
  BY <1>1, <1>2, <1>3, <1>4 DEF Pays, CallTypes
<1>6. \A e \in Calls : Waiting("TopUpBalance", e) => Waiting("TopUpBalance", e)'
  BY <1>1 DEF Drops
<1>7. ASSUME NoFault' PROVE Settled(c)'
  <2>1. ASSUME arg[c] \in digests PROVE \E e \in PaymentsOf(arg[c]) : e # c
    BY <1>2, <1>3, <1>7, <2>1, DepositParts DEF Recorded, NoFault
  <2>2. PaymentsOf(arg[c])' = PaymentsOf(arg[c])
    BY <1>3 DEF PaymentsOf
  <2>3. QED
    BY <1>4, <1>5, <2>1, <2>2 DEF Settled
<1>8. QED
  BY <1>3, <1>5, <1>6, <1>7, PaysOthers, DepositPartsNext

LEMMA ConfirmDeposits ==
  ASSUME Base, DepositOK, NEW c \in Calls, HandleConfirmUser(c) PROVE DepositOK'
<1>1. /\ CallTypes /\ CallsFit /\ EventsFit /\ "TopUpBalance" \in EventTypes
      /\ Drops("ConfirmUser", c)
  BY BaseParts, Handles DEF EventTypes, Silent, HandleConfirmUser
<1>2. pc[c] = "confirm" /\ op[c] \in Payments /\ arg[c] \in Digests
  BY <1>1 DEF Drops, EventsFit, CallsFit
<1>3. UNCHANGED <<op, arg, user, errors, crashes, digests, credit, kind>>
  BY DEF HandleConfirmUser, money, faults
<1>4. PICK l \in {"confirmed", "failed"} : pc' = [pc EXCEPT ![c] = l]
  BY DEF HandleConfirmUser, Answer, Goto
<1>5. Pays(c, l) /\ pc'[c] = l
  BY <1>1, <1>2, <1>3, <1>4 DEF Pays, CallTypes
<1>6. \A e \in Calls : Waiting("TopUpBalance", e) => Waiting("TopUpBalance", e)'
  BY <1>1 DEF Drops
<1>7. ASSUME NoFault' PROVE Settled(c)'
  <2>1. op[c] = "payment"
    BY <1>2, <1>3, <1>7, DepositParts DEF Settled, NoFault
  <2>2. QED
    BY <1>3, <1>4, <1>5, <2>1 DEF Settled
<1>8. QED
  BY <1>3, <1>5, <1>6, <1>7, PaysOthers, DepositPartsNext

(* The credit of the only call that may still credit this digest. *)
LEMMA CreditDeposits ==
  ASSUME Base, Money, DepositOK, NEW c \in Calls, top_up_crypto_balance(c) PROVE DepositOK'
<1>1. /\ CallTypes /\ CallsFit /\ EventsFit /\ TableTypes /\ "TopUpBalance" \in EventTypes
      /\ Drops("TopUpBalance", c)
  BY BaseParts, Handles DEF EventTypes, Silent, top_up_crypto_balance
<1>2. pc[c] = "done" /\ op[c] \in Payments /\ arg[c] \in Digests /\ Claims(c)
  BY <1>1 DEF Drops, EventsFit, CallsFit, Claims
<1>3. UNCHANGED <<pc, op, arg, user, errors, crashes, digests, kind>>
  BY DEF top_up_crypto_balance, calls, faults
<1>4. credit[arg[c]] = NoUser
  BY <1>2 DEF Money, ClaimsOK
<1>5. credit' = [credit EXCEPT ![arg[c]] = user[c]]
  BY DEF top_up_crypto_balance
<1>6. credit'[arg[c]] = user[c] /\ \A d \in Digests : credit[d] # NoUser => credit'[d] = credit[d]
  BY <1>1, <1>2, <1>4, <1>5 DEF TableTypes
<1>7. pc' = [pc EXCEPT ![c] = "done"]
  BY <1>1, <1>2, <1>3 DEF CallTypes
<1>8. Pays(c, "done")
  BY <1>2, <1>3, <1>7 DEF Pays
<1>9. \A e \in Calls \ {c} : Waiting("TopUpBalance", e) => Waiting("TopUpBalance", e)'
  BY <1>1 DEF Drops
<1>10. ASSUME NoFault' PROVE Settled(c)'
  <2>1. Settled(c)
    BY <1>2, <1>3, <1>10, DepositParts DEF NoFault
  <2>2. QED
    BY <1>2, <1>3, <1>6, <2>1 DEF Settled
<1>11. QED
  BY <1>3, <1>6, <1>8, <1>9, <1>10, PaysOthers, DepositPartsNext

LEMMA DepositNext == ASSUME Base, Money, DepositOK, [Next]_vars PROVE DepositOK'
<1>1. ASSUME NEW c \in Calls, StartCall(c) PROVE DepositOK'
  BY <1>1, StartKeepsDeposits, DepositFrame
<1>2. ASSUME NEW c \in Calls, ContinueCall(c) PROVE DepositOK'
  BY <1>2, ContinueKeepsDeposits, DepositFrame, ChangesDeposits, TopUpDeposits DEF ContinueCall
<1>3. ASSUME NEW c \in Calls, HandleEvent(c) PROVE DepositOK'
  BY <1>3, ManagerKeepsDeposits, DepositFrame, DigestDeposits, ConfirmDeposits, CreditDeposits
     DEF HandleEvent
<1>4. ASSUME UNCHANGED vars PROVE DepositOK'
  BY <1>4, StutterKeepsDeposits, DepositFrame
<1>5. QED
  BY <1>1, <1>2, <1>3, <1>4, FaultDeposits DEF Next, StateManager

-----------------------------------------------------------------------------
(* The theorems.                                                           *)

LEMMA InitInv == Init => AccountsInv
<1> SUFFICES ASSUME Init PROVE AccountsInv
  OBVIOUS
<1> USE DEF Init
<1>1. queue = <<>> /\ \A t, c : ~Waiting(t, c)
  BY DEF Waiting
<1>2. QueueOK /\ EventsFit
  BY <1>1 DEF QueueOK, EventsFit
<1>3. CallsFit
  BY DEF CallsFit, Logins, Managing, Payments
<1>4. CallTypes
  BY DEF CallTypes, Labels, Ops
<1>5. {Session(u) : u \in Registered} \subseteq Tokens
  BY AccountsAssumption DEF Session, Tokens
<1>6. TableTypes
  BY <1>5, AccountsAssumption, BoundsAssumption DEF TableTypes, KindOK
<1>7. Base
  BY <1>2, <1>3, <1>4, <1>6, BaseParts
<1>8. Money
  <2>1. \A c \in Calls : ~Claims(c) /\ ~Approved(c)
    BY <1>1 DEF Claims, Approved
  <2>2. ClaimsOK /\ SignedOK /\ CreditOK
    BY <2>1 DEF ClaimsOK, SignedOK, CreditOK
  <2>3. \A u \in Users : Credited(u) = {} /\ balance[u] = 0
    BY NothingAssumption DEF Credited
  <2>4. BalanceOK
    BY <2>3, SumEmpty DEF BalanceOK
  <2>5. QED
    BY <2>2, <2>4 DEF Money
<1>9. Sessions
  BY DEF Sessions, Entered
<1>10. ApiOK
  BY <1>1 DEF ApiOK, TokenOK, Effective, ApiTokensInOrder, Returned, RevokedBy
<1>11. DepositOK
  BY DEF DepositOK, Payments
<1>12. QED
  BY <1>7, <1>8, <1>9, <1>10, <1>11 DEF AccountsInv

(* Every state of the calls, the channel and the tables satisfies          *)
(* AccountsInv, which the properties follow from.                          *)
THEOREM AccountsInvariant == Spec => []AccountsInv
<1>1. AccountsInv /\ [Next]_vars => AccountsInv'
  BY BaseNext, MoneyNext, SessionsNext, ApiNext, DepositNext DEF AccountsInv
<1>2. QED
  BY <1>1, InitInv, PTL DEF Spec

(* The types of calls, channel and tables, for any number of calls, users, *)
(* transactions and faults.                                                *)
THEOREM AccountsTypes == Spec => []TypeOK
<1>1. AccountsInv => TypeOK
  BY DEF AccountsInv, Base
<1>2. QED
  BY <1>1, AccountsInvariant, PTL

(* usdc_payment credits a transaction at most once, and a balance is the   *)
(* sum of what was credited: the primary key of usdc_payment_digests is a  *)
(* claim that one call holds from the insertion to the top-up.  When the   *)
(* wallet that paid has a key, who is credited can sign with it; for a     *)
(* zkLogin wallet the theorem says nothing of who is credited.             *)
THEOREM DepositsCreditedOnce == Spec => []CreditedOnce
<1>1. AccountsInv => CreditedOnce
  <2>1. ASSUME Base, Money PROVE \A u \in Users : balance[u] = SumOver(Amount, {d \in Digests : credit[d] = u})
    BY <2>1 DEF Money, BalanceOK, Credited, IsSum
  <2>2. ASSUME CreditOK, NEW d \in Digests, credit[d] # NoUser
        PROVE  /\ kind[d] = "deposit"
               /\ Sender[d] \notin ZkWallets => <<credit[d], Sender[d]>> \in Owns
    BY <2>2 DEF CreditOK, Signers
  <2>3. QED
    BY <2>1, <2>2 DEF AccountsInv, Money, CreditedOnce
<1>2. QED
  BY <1>1, AccountsInvariant, PTL

(* A login hands out a token that is in refresh_tokens, and of the         *)
(* registrations of an email at most one succeeds, for any interleaving    *)
(* of calls and faults: the token that is returned was asked for after the *)
(* event that stores it.                                                   *)
THEOREM LoginTokensValid == Spec => []LoginsAreValid
<1>1. AccountsInv => LoginsAreValid
  BY DEF AccountsInv, Sessions, LoginsAreValid, Entered, Returned
<1>2. QED
  BY <1>1, AccountsInvariant, PTL

(* Without faults an API token works for every request that begins after   *)
(* it was returned, and for none that begins after its revocation was:     *)
(* the channel keeps the order, so what has returned is in the table or    *)
(* ahead of the request.                                                   *)
THEOREM ApiTokensTakeEffect == Spec => []ApiTokensInOrder
<1>1. AccountsInv => ApiTokensInOrder
  BY DEF AccountsInv, ApiOK
<1>2. QED
  BY <1>1, AccountsInvariant, PTL

(* Without faults a payment that returns well is credited or about to be,  *)
(* and, in a build with google-oauth, the sender's proof is refused only   *)
(* when another call named the transaction.                                *)
THEOREM DepositsNotLost == Spec => []DepositIsNotLost
<1>1. ASSUME DepositOK PROVE DepositIsNotLost
  <2>1. ASSUME NoFault, NEW d \in Digests, kind[d] = "deposit", NEW c \in PaymentsOf(d)
        PROVE  /\ pc[c] = "done" => credit[d] = user[c] \/ Waiting("TopUpBalance", c)
               /\ GoogleOAuth /\ pc[c] = "failed" /\ op[c] = "payment_zk"
                  /\ <<user[c], Sender[d]>> \in Owns
                    => PaymentsOf(d) # {c}
    <3>1. c \in Calls /\ op[c] \in Payments /\ arg[c] = d
      BY DEF PaymentsOf
    <3>2. Settled(c)
      BY <1>1, <2>1, <3>1, DepositParts
    <3>3. PaymentsOf(arg[c]) = PaymentsOf(d)
      BY <3>1
    <3>4. QED
      BY <2>1, <3>1, <3>2, <3>3 DEF Settled, Signers
  <2>2. QED
    BY <2>1 DEF DepositIsNotLost, NoFault
<1>2. AccountsInv => DepositIsNotLost
  BY <1>1 DEF AccountsInv
<1>3. QED
  BY <1>2, AccountsInvariant, PTL
============================================================================
