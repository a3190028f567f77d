--------------------------- MODULE MCStreamBilling ---------------------------
(***************************************************************************)
(* A small instance of StreamBilling: one request with a Streamer, whose   *)
(* first attempt may be answered LOCKED.                                   *)
(***************************************************************************)
EXTENDS StreamBilling

CONSTANTS u1, r1, used

MCOwner == [r \in Requests |-> u1]
MCBalance == [u \in Users |-> 4]
MCPrompt == [u \in Usages |-> 1]
MCCompletion == [u \in Usages |-> 2]
=============================================================================
