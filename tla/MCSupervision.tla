---------------------------- MODULE MCSupervision ----------------------------
(***************************************************************************)
(* A small instance of Supervision: one call of a server and one ping, one *)
(* node with two addresses.                                                *)
(***************************************************************************)
EXTENDS Supervision

CONSTANTS c1, c2, u1, u2

MCKinds == [c \in {c1, c2} |-> IF c = c1 THEN AllKinds \ {"ping"} ELSE {"ping"}]
=============================================================================
