------------------------------ MODULE Accounts ------------------------------
(***************************************************************************)
(* User accounts: registration and login, API tokens, the wallet of a user *)
(* and deposits of USDC.  A call of the dashboard API runs in Auth, which  *)
(* talks to the state manager through one channel: some events carry a     *)
(* channel for the answer, others are sent and forgotten, and the call     *)
(* returns before the state manager sees them.  get_zk_salt reads and      *)
(* writes the database by itself.                                          *)
(* A refresh token is the signed user id and expiry, in seconds: two       *)
(* logins of a user within a second get the same token.  An access token   *)
(* names its refresh token; Auth checks it against refresh_tokens.         *)
(***************************************************************************)
EXTENDS Sums, Sequences

CONSTANTS
  NumCalls,      \* bound on the calls of the API
  Users,
  NoUser,
  Registered,    \* the users that have an account and a session already
  Wallets,
  NoWallet,
  Owns,          \* the pairs <<u, w>> where u can sign for the wallet w
  ZkWallets,     \* the wallets with a zkLogin address, the others have a key
  GoogleOAuth,   \* whether the proxy was built with the feature google-oauth
  Digests,       \* the digests of transactions of the chain
  Sender,        \* the wallet that pays in a transaction
  Amount,        \* the USDC that a transaction moves
  Kinds,         \* what Sui may say that a transaction is
  Seconds,       \* the times of logins
  MaxFaults      \* bound on failures of the database, of Sui and of the process

ASSUME NothingAssumption == NoUser \notin Users /\ NoWallet \notin Wallets
ASSUME AccountsAssumption ==
  /\ Registered \subseteq Users /\ Owns \subseteq Users \X Wallets
  /\ ZkWallets \subseteq Wallets /\ GoogleOAuth \in BOOLEAN
ASSUME DigestsAssumption ==
  /\ Sender \in [Digests -> Wallets] /\ Amount \in [Digests -> Nat \ {0}]
  /\ Kinds \subseteq {"deposit", "elsewhere", "unclear"}
ASSUME BoundsAssumption == NumCalls \in Nat /\ MaxFaults \in Nat

VARIABLES
  pc, op, user, arg,  \* the calls: where they are, what they do, for whom, about what
  tok,           \* the refresh token that a call gets or uses
  seen,          \* history: what a call that uses an API token knew of it
  queue,         \* the channel to the state manager
  held,          \* the refresh tokens that users have been given
  users,         \* users: the accounts
  refresh,       \* refresh_tokens
  api,           \* api_tokens, by the call that made the token
  address,       \* users.sui_address
  salt,          \* users.zk_salt, by the call that made it
  answer,        \* the salt that a call returned
  digests,       \* usdc_payment_digests
  balance,       \* crypto_balances.usdc_balance
  credit,        \* history: the user who was credited for a transaction
  kind,          \* external: what Sui says that a transaction is
  errors, crashes

calls == <<pc, op, user, arg, tok, seen, answer>>
accounts == <<users, refresh, api, address, salt>>
money == <<digests, balance, credit>>
faults == <<errors, crashes>>
vars == <<calls, queue, held, accounts, money, kind, faults>>

(* The calls are numbered in the order in which they begin. *)
Calls == 1 .. NumCalls
NoCall == 0

Logins == {"register", "login", "oauth"}
Managing == {"generate", "revoke", "salt"}   \* calls that begin with get_claims_from_token
Payments == {"payment", "payment_zk"}

Session(u) == <<u, 0>>
Tokens == Users \X (Seconds \cup {0})

Init ==
  /\ pc = [c \in Calls |-> "idle"] /\ op = [c \in Calls |-> "none"]
  /\ user = [c \in Calls |-> NoUser] /\ arg = [c \in Calls |-> NoCall]
  /\ tok = [c \in Calls |-> <<>>] /\ seen = [c \in Calls |-> "none"]
  /\ answer = [c \in Calls |-> NoCall]
  /\ queue = <<>>
  /\ held = {Session(u) : u \in Registered}
  /\ users = Registered
  /\ refresh = {Session(u) : u \in Registered}
  /\ api = [c \in Calls |-> "none"]
  /\ address = [u \in Users |-> NoWallet]
  /\ salt = [u \in Users |-> NoCall]
  /\ digests = {} /\ balance = [u \in Users |-> 0] /\ credit = [d \in Digests |-> NoUser]
  /\ kind = [d \in Digests |-> "unknown"]
  /\ errors = 0 /\ crashes = 0

Goto(c, label) == pc' = [pc EXCEPT ![c] = label]
Event(type, c) == [type |-> type, call |-> c]
Send(type, c) == queue' = Append(queue, Event(type, c))

-----------------------------------------------------------------------------
(* A call begins.                                                          *)

Begin(c, o, u, a) ==
  /\ pc[c] = "idle" /\ \A e \in 1 .. c - 1 : pc[e] # "idle"
  /\ op' = [op EXCEPT ![c] = o] /\ user' = [user EXCEPT ![c] = u] /\ arg' = [arg EXCEPT ![c] = a]

(* register, check_user_password and check_google_id_token look the user   *)
(* up by email.                                                            *)
BeginLogin(c, o) ==
  /\ \E u \in Users : Begin(c, o, u, NoCall)
  /\ Goto(c, "user") /\ Send("User", c)
  /\ UNCHANGED <<tok, seen, answer, held, accounts, money, kind, faults>>

Register(c) == BeginLogin(c, "register")
Login(c) == BeginLogin(c, "login")
GoogleOauth(c) == BeginLogin(c, "oauth")

(* get_claims_from_token asks whether the refresh token behind the access  *)
(* token is valid.                                                         *)
get_claims_from_token(c, t) ==
  /\ t \in held /\ tok' = [tok EXCEPT ![c] = t]
  /\ Goto(c, "claims") /\ Send("IsRefreshTokenValid", c)
  /\ UNCHANGED <<seen, answer, held, accounts, money, kind, faults>>

GenerateApiToken(c) ==
  \E t \in held : Begin(c, "generate", t[1], NoCall) /\ get_claims_from_token(c, t)
GetZkSalt(c) ==
  \E t \in held : Begin(c, "salt", t[1], NoCall) /\ get_claims_from_token(c, t)

(* get_all_api_tokens, where the id of a token to revoke comes from. *)
get_all_api_tokens(u) == {a \in Calls : api[a] = "stored" /\ user[a] = u}
RevokeApiToken(c) ==
  \E t \in held : \E a \in get_all_api_tokens(t[1]) :
    Begin(c, "revoke", t[1], a) /\ get_claims_from_token(c, t)

Returned(c, o) == op[c] = o /\ pc[c] = "done"
RevokedBy(a) == {c \in Calls : op[c] = "revoke" /\ arg[c] = a}

(* A request to the proxy with an API token that its owner has been given. *)
BeginUse(c) ==
  /\ \E a \in Calls :
       /\ Returned(a, "generate") /\ Begin(c, "use", user[a], a)
       /\ seen' = [seen EXCEPT ![c] =
            IF \E r \in RevokedBy(a) : pc[r] = "done" THEN "revoked"
            ELSE IF RevokedBy(a) = {} THEN "fresh" ELSE "unsure"]
  /\ Goto(c, "use") /\ Send("IsApiTokenValid", c)
  /\ UNCHANGED <<tok, answer, held, accounts, money, kind, faults>>

(* Whether u may have a signature from which the address w is read.  The   *)
(* address of a key is that of the key that signed.  A zkLogin address is  *)
(* the one that the inputs of the signature name: what is verified is the  *)
(* ephemeral key's signature of the message, and no proof that the two     *)
(* belong together.                                                        *)
get_sui_address_from_signature(u, w) == <<u, w>> \in Owns \/ w \in ZkWallets

(* The event is sent and the call returns. *)
update_sui_address(c) ==
  /\ \E t \in held, w \in Wallets :
       get_sui_address_from_signature(t[1], w) /\ Begin(c, "address", t[1], w)
  /\ Goto(c, "done") /\ Send("UpdateSuiAddress", c)
  /\ UNCHANGED <<tok, seen, answer, held, accounts, money, kind, faults>>

(* usdc_payment records the digest before it looks at the transaction. *)
BeginPayment(c) ==
  /\ \E t \in held, o \in Payments, d \in Digests : Begin(c, o, t[1], d)
  /\ Goto(c, "digest") /\ Send("InsertNewUsdcPaymentDigest", c)
  /\ UNCHANGED <<tok, seen, answer, held, accounts, money, kind, faults>>

-----------------------------------------------------------------------------
(* A call goes on.                                                         *)

(* generate_refresh_token sends the new token to be stored, and generate_  *)
(* access_token asks at once whether it is valid.                          *)
generate_refresh_token(c) ==
  /\ pc[c] = "user_ok"
  /\ \E sec \in Seconds : tok' = [tok EXCEPT ![c] = <<user[c], sec>>]
  /\ queue' = queue \o <<Event("StoreRefreshToken", c), Event("IsRefreshTokenValid", c)>>
  /\ Goto(c, "claims")
  /\ UNCHANGED <<op, user, arg, seen, answer, held, accounts, money, kind, faults>>

(* A login returns its tokens. *)
LoginDone(c) ==
  /\ op[c] \in Logins /\ pc[c] = "claims_ok"
  /\ held' = held \cup {tok[c]}
  /\ Goto(c, "done")
  /\ UNCHANGED <<op, user, arg, tok, seen, answer, queue, accounts, money, kind, faults>>

generate_api_token(c) ==
  /\ op[c] = "generate" /\ pc[c] = "claims_ok"
  /\ Send("StoreNewApiToken", c) /\ Goto(c, "done")
  /\ UNCHANGED <<op, user, arg, tok, seen, answer, held, accounts, money, kind, faults>>

revoke_api_token(c) ==
  /\ op[c] = "revoke" /\ pc[c] = "claims_ok"
  /\ Send("RevokeApiToken", c) /\ Goto(c, "done")
  /\ UNCHANGED <<op, user, arg, tok, seen, answer, held, accounts, money, kind, faults>>

(* get_zk_salt reads the salt ... *)
get_zk_salt(c) ==
  /\ op[c] = "salt" /\ pc[c] = "claims_ok"
  /\ IF salt[user[c]] = NoCall
       THEN Goto(c, "salt") /\ UNCHANGED answer
       ELSE Goto(c, "done") /\ answer' = [answer EXCEPT ![c] = salt[user[c]]]
  /\ UNCHANGED <<op, user, arg, tok, seen, queue, held, accounts, money, kind, faults>>

(* ... and makes one when there was none. *)
set_zk_salt(c) ==
  /\ pc[c] = "salt"
  /\ salt' = [salt EXCEPT ![user[c]] = c]
  /\ answer' = [answer EXCEPT ![c] = c]
  /\ Goto(c, "done")
  /\ UNCHANGED <<op, user, arg, tok, seen, queue, held, users, refresh, api, address, money, kind, faults>>

(* get_balance_changes answers: the transaction pays the proxy's wallet, or *)
(* another one, or does not have one sender and one receiver.  A transfer  *)
(* to somebody else ends the call well; a proof must be the sender's       *)
(* signature of the digest, and is ZkLoginNotEnabled in a build without    *)
(* google-oauth.                                                           *)
BalanceChanges(c, k) ==
  LET d == arg[c] IN
  /\ pc[c] = "digest_ok"
  /\ kind[d] \in {"unknown", k} /\ kind' = [kind EXCEPT ![d] = k]
  /\ \/ k = "unclear" /\ Goto(c, "failed") /\ UNCHANGED queue
     \/ k = "elsewhere" /\ Goto(c, "done") /\ UNCHANGED queue
     \/ k = "deposit" /\ op[c] = "payment" /\ Goto(c, "confirm") /\ Send("ConfirmUser", c)
     \/ /\ k = "deposit" /\ op[c] = "payment_zk" /\ UNCHANGED queue
        /\ Goto(c, IF GoogleOAuth /\ get_sui_address_from_signature(user[c], Sender[d])
                     THEN "confirmed" ELSE "failed")
  /\ UNCHANGED <<op, user, arg, tok, seen, answer, held, accounts, money, faults>>

(* Sui did not answer well in SUI_BALANCE_RETRY_COUNT attempts. *)
SuiFails(c) ==
  /\ pc[c] = "digest_ok" /\ errors + crashes < MaxFaults
  /\ errors' = errors + 1
  /\ Goto(c, "failed")
  /\ UNCHANGED <<op, user, arg, tok, seen, answer, queue, held, accounts, money, kind, crashes>>

(* Mutant: the call returns without the top-up. *)
TopUpBalance_Forgotten(c) ==
  /\ pc[c] = "confirmed"
  /\ Goto(c, "done")
  /\ UNCHANGED <<op, user, arg, tok, seen, answer, queue, held, accounts, money, kind, faults>>

TopUpBalance(c) ==
  /\ pc[c] = "confirmed"
  /\ Send("TopUpBalance", c) /\ Goto(c, "done")
  /\ UNCHANGED <<op, user, arg, tok, seen, answer, held, accounts, money, kind, faults>>

-----------------------------------------------------------------------------
(* The state manager handles the first event of the channel.               *)

(* Mutant: the newest event first. *)
Position_Last == Len(queue)

(* Where the next event is taken from. *)
Position == 1

Taken(type, c) == queue # <<>> /\ queue[Position] = Event(type, c)
Take == queue' = [i \in 1 .. Len(queue) - 1 |-> IF i < Position THEN queue[i] ELSE queue[i + 1]]

Answer(c, ok, label) == Goto(c, IF ok THEN label ELSE "failed")

(* register inserts a new email only; oauth takes the account that exists. *)
register(u) == u \notin users
get_user_id_by_email_password(u) == u \in users
oauth(u) == TRUE

MayEnter(c) ==
  \/ op[c] = "register" /\ register(user[c])
  \/ op[c] = "login" /\ get_user_id_by_email_password(user[c])
  \/ op[c] = "oauth" /\ oauth(user[c])

HandleUser(c) ==
  /\ Taken("User", c) /\ Take
  /\ users' = IF MayEnter(c) THEN users \cup {user[c]} ELSE users
  /\ Answer(c, MayEnter(c), "user_ok")
  /\ UNCHANGED <<op, user, arg, tok, seen, answer, held, refresh, api, address, salt, money, kind, faults>>

(* A hash that is there already makes the INSERT fail, and stays. *)
store_refresh_token(c) ==
  /\ Taken("StoreRefreshToken", c) /\ Take
  /\ refresh' = refresh \cup {tok[c]}
  /\ UNCHANGED <<calls, held, users, api, address, salt, money, kind, faults>>

(* Mutant: the answer is not looked at. *)
is_refresh_token_valid_Ignored(c) ==
  /\ Taken("IsRefreshTokenValid", c) /\ Take
  /\ Answer(c, TRUE, "claims_ok")
  /\ UNCHANGED <<op, user, arg, tok, seen, answer, held, accounts, money, kind, faults>>

is_refresh_token_valid(c) ==
  /\ Taken("IsRefreshTokenValid", c) /\ Take
  /\ Answer(c, tok[c] \in refresh, "claims_ok")
  /\ UNCHANGED <<op, user, arg, tok, seen, answer, held, accounts, money, kind, faults>>

store_api_token(c) ==
  /\ Taken("StoreNewApiToken", c) /\ Take
  /\ api' = [api EXCEPT ![c] = "stored"]
  /\ UNCHANGED <<calls, held, users, refresh, address, salt, money, kind, faults>>

delete_api_token(c) ==
  /\ Taken("RevokeApiToken", c) /\ Take
  /\ api' = [api EXCEPT ![arg[c]] = "deleted"]
  /\ UNCHANGED <<calls, held, users, refresh, address, salt, money, kind, faults>>

is_api_token_valid(c) ==
  /\ Taken("IsApiTokenValid", c) /\ Take
  /\ Answer(c, api[arg[c]] = "stored", "done")
  /\ UNCHANGED <<op, user, arg, tok, seen, answer, held, accounts, money, kind, faults>>

HandleSuiAddress(c) ==
  /\ Taken("UpdateSuiAddress", c) /\ Take
  /\ address' = [address EXCEPT ![user[c]] = arg[c]]
  /\ UNCHANGED <<calls, held, users, refresh, api, salt, money, kind, faults>>

(* Mutant: a digest that is there already is no error. *)
NewDigest_Ignored(d) == TRUE

(* The primary key of usdc_payment_digests. *)
NewDigest(d) == d \notin digests

insert_new_usdc_payment_digest(c) ==
  /\ Taken("InsertNewUsdcPaymentDigest", c) /\ Take
  /\ digests' = digests \cup {arg[c]}
  /\ Answer(c, NewDigest(arg[c]), "digest_ok")
  /\ UNCHANGED <<op, user, arg, tok, seen, answer, held, accounts, balance, credit, kind, faults>>

confirm_user(w, u) == address[u] = w

HandleConfirmUser(c) ==
  /\ Taken("ConfirmUser", c) /\ Take
  /\ Answer(c, confirm_user(Sender[arg[c]], user[c]), "confirmed")
  /\ UNCHANGED <<op, user, arg, tok, seen, answer, held, accounts, money, kind, faults>>

top_up_crypto_balance(c) ==
  /\ Taken("TopUpBalance", c) /\ Take
  /\ balance' = [balance EXCEPT ![user[c]] = @ + Amount[arg[c]]]
  /\ credit' = [credit EXCEPT ![arg[c]] = user[c]]
  /\ UNCHANGED <<calls, held, accounts, digests, kind, faults>>

(* A statement fails.  The call gets the error as its answer; an event     *)
(* without an answer is gone.                                              *)
Silent == {"StoreRefreshToken", "StoreNewApiToken", "RevokeApiToken", "UpdateSuiAddress", "TopUpBalance"}
DatabaseError ==
  /\ queue # <<>> /\ errors + crashes < MaxFaults
  /\ errors' = errors + 1
  /\ Take
  /\ LET e == queue[Position] IN
     IF e.type \in Silent THEN UNCHANGED pc ELSE Goto(e.call, "failed")
  /\ UNCHANGED <<op, user, arg, tok, seen, answer, held, accounts, money, kind, crashes>>

(* The process stops: calls and channel are gone. *)
Crash ==
  /\ errors + crashes < MaxFaults
  /\ crashes' = crashes + 1
  /\ queue' = <<>>
  /\ pc' = [c \in Calls |-> IF pc[c] \in {"idle", "done"} THEN pc[c] ELSE "failed"]
  /\ UNCHANGED <<op, user, arg, tok, seen, answer, held, accounts, money, kind, errors>>

-----------------------------------------------------------------------------
StartCall(c) ==
  \/ Register(c) \/ Login(c) \/ GoogleOauth(c)
  \/ GenerateApiToken(c) \/ RevokeApiToken(c) \/ GetZkSalt(c)
  \/ BeginUse(c) \/ update_sui_address(c) \/ BeginPayment(c)

ContinueCall(c) ==
  \/ generate_refresh_token(c) \/ LoginDone(c)
  \/ generate_api_token(c) \/ revoke_api_token(c)
  \/ get_zk_salt(c) \/ set_zk_salt(c)
  \/ (\E k \in Kinds : BalanceChanges(c, k)) \/ TopUpBalance(c)

HandleEvent(c) ==
  \/ HandleUser(c) \/ store_refresh_token(c) \/ is_refresh_token_valid(c)
  \/ store_api_token(c) \/ delete_api_token(c) \/ is_api_token_valid(c)
  \/ HandleSuiAddress(c) \/ insert_new_usdc_payment_digest(c)
  \/ HandleConfirmUser(c) \/ top_up_crypto_balance(c)

StateManager == \E c \in Calls : HandleEvent(c)

Next ==
  \/ \E c \in Calls : StartCall(c) \/ ContinueCall(c) \/ SuiFails(c)
  \/ StateManager \/ DatabaseError \/ Crash

Spec == Init /\ [][Next]_vars

-----------------------------------------------------------------------------
(* Types of calls, channel and tables. *)
TypeOK ==
  /\ pc \in [Calls -> {"idle", "user", "user_ok", "claims", "claims_ok", "use", "salt", "digest",
                       "digest_ok", "confirm", "confirmed", "done", "failed"}]
  /\ op \in [Calls -> {"none", "use", "address"} \cup Logins \cup Managing \cup Payments]
  /\ user \in [Calls -> Users \cup {NoUser}]
  /\ arg \in [Calls -> Calls \cup {NoCall} \cup Wallets \cup Digests]
  /\ tok \in [Calls -> Tokens \cup {<<>>}]
  /\ seen \in [Calls -> {"none", "fresh", "unsure", "revoked"}]
  /\ \A i \in DOMAIN queue : queue[i].call \in Calls
  /\ held \subseteq Tokens /\ users \subseteq Users /\ refresh \subseteq Tokens
  /\ api \in [Calls -> {"none", "stored", "deleted"}]
  /\ address \in [Users -> Wallets \cup {NoWallet}]
  /\ salt \in [Users -> Calls \cup {NoCall}] /\ answer \in [Calls -> Calls \cup {NoCall}]
  /\ digests \subseteq Digests
  /\ balance \in [Users -> Nat] /\ credit \in [Digests -> Users \cup {NoUser}]
  /\ errors \in Nat /\ crashes \in Nat /\ errors + crashes <= MaxFaults

(* A transaction is credited at most once, whatever users call at the same *)
(* time or again, and balances are exactly what was credited.  Only what   *)
(* was paid to the wallet of the proxy is credited, and, when the wallet   *)
(* that paid has a key, only to who can sign with it.  For a zkLogin       *)
(* wallet nothing is claimed about who is credited.                        *)
CreditedOnce ==
  /\ \A u \in Users : balance[u] = SumOver(Amount, {d \in Digests : credit[d] = u})
  /\ \A d \in Digests : credit[d] # NoUser =>
       /\ kind[d] = "deposit"
       /\ Sender[d] \notin ZkWallets => <<credit[d], Sender[d]>> \in Owns

(* A login hands out a token that is valid, also when another login of the *)
(* same second stored the same token, or storing it failed; and of the     *)
(* registrations of one email at most one succeeds.                        *)
LoginsAreValid ==
  /\ held \subseteq refresh
  /\ \A c, e \in Calls :
       Returned(c, "register") /\ Returned(e, "register") /\ user[c] = user[e] => c = e

(* An API token works at once when it has been returned, although storing  *)
(* it is not awaited, and does not work any more for requests that begin   *)
(* after its revocation has returned, unless a statement failed or the     *)
(* process stopped.                                                        *)
ApiTokensInOrder ==
  errors = 0 /\ crashes = 0 =>
    \A c \in Calls : op[c] = "use" =>
      /\ pc[c] = "done" => seen[c] # "revoked"
      /\ pc[c] = "failed" /\ seen[c] = "fresh" => RevokedBy(arg[c]) # {}

Waiting(type, c) == \E i \in DOMAIN queue : queue[i] = Event(type, c)
PaymentsOf(d) == {c \in Calls : op[c] \in Payments /\ arg[c] = d}

(* Recording the digest first loses no deposit, unless Sui, the database   *)
(* or the process fails: a call that returns well has credited its user or *)
(* is about to, and, in a build with google-oauth, a call with the         *)
(* sender's proof fails only because another call named the transaction.   *)
(* Without the feature such a call always fails, with the digest recorded. *)
DepositIsNotLost ==
  errors = 0 /\ crashes = 0 =>
    \A d \in Digests : kind[d] = "deposit" => \A c \in PaymentsOf(d) :
      /\ pc[c] = "done" => credit[d] = user[c] \/ Waiting("TopUpBalance", c)
      /\ GoogleOAuth /\ pc[c] = "failed" /\ op[c] = "payment_zk" /\ <<user[c], Sender[d]>> \in Owns
           => PaymentsOf(d) # {c}

(* get_zk_salt makes a salt only if the user has none: what was returned   *)
(* to a user stays the salt of that user.                                  *)
SaltIsStable == \A c \in Calls : answer[c] # NoCall => salt[user[c]] = answer[c]
=============================================================================
