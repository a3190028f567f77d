----------------------------- MODULE FiatLedger -----------------------------
(***************************************************************************)
(* What fiat billing promises, without saying how: a reservation of credit *)
(* is made once, only out of credit that no other reservation or charge of *)
(* the same user has taken, and is replaced once by a charge.  FiatBilling *)
(* implements this specification through the middleware, the request       *)
(* handlers, the streamer and the event channel of the state manager.      *)
(***************************************************************************)
EXTENDS Sums

CONSTANTS Users, Reservations,
          OwnerOf(_)          \* the user a reservation is made for

VARIABLES balance,            \* credit each user has paid in
          state,              \* life of each reservation
          amount              \* what it takes out of the user's credit

vars == <<balance, state, amount>>

(* The credit of u that reservations and charges have taken. *)
Taken(u) == SumOver(amount, {k \in Reservations : OwnerOf(k) = u /\ state[k] # "open"})

Init ==
  /\ balance \in [Users -> Nat]
  /\ state = [k \in Reservations |-> "open"]
  /\ amount = [k \in Reservations |-> 0]

(* Credit is taken out of what is left, never out of what is not there. *)
Reserve(k) ==
  /\ state[k] = "open"
  /\ state' = [state EXCEPT ![k] = "reserved"]
  /\ amount' \in [Reservations -> Nat]
  /\ \A j \in Reservations \ {k} : amount'[j] = amount[j]
  /\ Taken(OwnerOf(k)) + amount'[k] <= balance[OwnerOf(k)]
  /\ UNCHANGED balance

(* The charge replaces the reservation; the node decides what it is. *)
Charge(k) ==
  /\ state[k] = "reserved"
  /\ state' = [state EXCEPT ![k] = "charged"]
  /\ amount' \in [Reservations -> Nat]
  /\ \A j \in Reservations \ {k} : amount'[j] = amount[j]
  /\ UNCHANGED balance

(* Credit is only ever paid in. *)
PayIn(u) ==
  /\ balance' \in [Users -> Nat]
  /\ balance'[u] > balance[u]
  /\ \A v \in Users \ {u} : balance'[v] = balance[v]
  /\ UNCHANGED <<state, amount>>

Next ==
  \/ \E k \in Reservations : Reserve(k) \/ Charge(k)
  \/ \E u \in Users : PayIn(u)

Spec == Init /\ [][Next]_vars
=============================================================================
