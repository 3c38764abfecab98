--------------------------- MODULE MCRunQueuePipe ---------------------------
(* RunQueuePipe on a few calls and children, see the README for the bounds. *)
EXTENDS RunQueuePipe
=============================================================================
