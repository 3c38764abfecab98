----------------------------- MODULE MCHandlers -----------------------------
(* Handlers on small instances of its components, see the README. *)
EXTENDS Handlers

(* Jacks two at a time: the two that share a lock, and the rest. *)
MCModels == {{"usb", "charger"}, {"earjack", "earkey"}, {"hdmi", "keyboard"}}
=============================================================================
