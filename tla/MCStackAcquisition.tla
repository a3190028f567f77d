-------------------------- MODULE MCStackAcquisition -------------------------
(***************************************************************************)
(* Small instances of StackAcquisition: two requests of one user         *)
(* whose estimates fill a stack in some combinations and not in others.    *)
(***************************************************************************)
EXTENDS StackAcquisition

CONSTANTS r1, r2
=============================================================================
