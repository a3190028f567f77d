----------------------------- MODULE MCStreamer -----------------------------
(***************************************************************************)
(* Small instances of Streamer: two usage reports, a keep-alive comment    *)
(* that comes in up to three pieces, streams of a few chunks.              *)
(***************************************************************************)
EXTENDS Streamer

CONSTANTS u1, u2
=============================================================================
