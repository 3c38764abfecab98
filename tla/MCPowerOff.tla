----------------------------- MODULE MCPowerOff -----------------------------
(* PowerOff with the timeout of the code. *)
EXTENDS PowerOff
=============================================================================
