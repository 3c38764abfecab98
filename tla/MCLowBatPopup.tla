--------------------------- MODULE MCLowBatPopup ---------------------------
(* LowBatPopup with a few acts waiting. *)
EXTENDS LowBatPopup
=============================================================================
