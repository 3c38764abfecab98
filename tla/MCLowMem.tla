------------------------------ MODULE MCLowMem ------------------------------
(* LowMem with the intervals of the code and the levels the device reports. *)
EXTENDS LowMem
=============================================================================
