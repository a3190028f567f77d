----------------------------- MODULE MCNodeKeys -----------------------------
(***************************************************************************)
(* A small instance of NodeKeys: one node with two devices, two keys, and  *)
(* chains of a few events.                                                 *)
(***************************************************************************)
EXTENDS NodeKeys, TLC

CONSTANTS n1, d1, d2, k1, k2

Symmetry == Permutations(Devices) \cup Permutations(Keys)
=============================================================================
