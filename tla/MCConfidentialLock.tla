------------------------- MODULE MCConfidentialLock -------------------------
(***************************************************************************)
(* A small instance of ConfidentialLock: two slots for locks, one for a    *)
(* request, and a stack that the default and a small lock fill.  Clients   *)
(* ask for less than the default or for more.                              *)
(***************************************************************************)
EXTENDS ConfidentialLock

CONSTANTS l1, l2, q1
=============================================================================
