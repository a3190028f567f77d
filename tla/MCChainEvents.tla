---------------------------- MODULE MCChainEvents ----------------------------
(***************************************************************************)
(* A small instance of ChainEvents: one task, one node, a stack of this    *)
(* proxy and a stack of someone else, and chains of a few events.          *)
(***************************************************************************)
EXTENDS ChainEvents

CONSTANTS t1, n1, s1, s2
=============================================================================
