----------------------------- MODULE MCRunQueue -----------------------------
(* RunQueue on a few calls and children, see the README for the bounds. *)
EXTENDS RunQueue
=============================================================================
