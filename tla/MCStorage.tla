----------------------------- MODULE MCStorage -----------------------------
(* UsbStorage and Mmc, which share nothing, in one run: `device` chooses     *)
(* which of them moves, the other waits in a first state.                   *)
EXTENDS MCUsbStorage, Mmc

VARIABLE device

(* Two cards, so that a card can be taken for another. *)
MCCards == {"card1", "card2"}

StorageVars == <<device, vars, mmcVars>>

StorageInit ==
    /\ device \in {"usb", "mmc"}
    /\ Init /\ (device = "usb" \/ plugged = {})
    /\ MmcInit /\ (device = "mmc" \/ (slot = NoCard /\ status_key = "REMOVED"))

StorageNext ==
    \/ device = "usb" /\ Next /\ UNCHANGED <<device, mmcVars>>
    \/ device = "mmc" /\ MmcNext /\ UNCHANGED <<device, vars>>

StorageSpec == StorageInit /\ [][StorageNext]_StorageVars
=============================================================================
