------------------------------ MODULE MCLowBat ------------------------------
(* LowBat with the upper end of every band, and readings no battery gives. *)
EXTENDS LowBat

MCReadings == {-1, 0, 1, 5, 15, 100, 101}
=============================================================================
