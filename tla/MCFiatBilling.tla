--------------------------- MODULE MCFiatBilling ---------------------------
(***************************************************************************)
(* Small instances of FiatBilling: two requests of one user, whose balance *)
(* is enough for one of them and not always for both.                      *)
(***************************************************************************)
EXTENDS FiatBilling, TLC

CONSTANTS u1, r1, r2

MCOwner == [r \in Requests |-> u1]
MCBalance == [u \in Users |-> 3]
=============================================================================
