-------------------------------- MODULE Mmc --------------------------------
(***************************************************************************)
(* The memory card (ss_mmc_handler.c).  udev reports a card that comes or   *)
(* goes as an event (mmc_chgdet_cb of ss_device_change_handler.c); clients  *)
(* ask through the run queue to mount and to unmount.  By the time an       *)
(* event is served the slot may hold another card, or none.                *)
(***************************************************************************)
EXTENDS Naturals, Sequences

CONSTANTS
    Cards,      \* the cards there are
    MaxEvents   \* bound: events on their way

ASSUME MmcAssumption ==
    MaxEvents \in Nat \ {0} /\ Cards # {} /\ {"none", "dead"} \cap Cards = {}

NoCard == "none"

(* A mount whose card has been pulled out: it stays so when a card comes,    *)
(* the same one or another, until it is detached.                          *)
Dead == "dead"

VARIABLES
    slot,        \* the card in the slot
    events,      \* the reports on their way, oldest first
    mount,       \* the card the mount point shows, or that it is dead
    mmc_status,  \* what the daemon knows
    status_key,  \* vconf: what clients know
    reply,       \* the result that the last step has told the clients, or
                 \* "none": it owes none, or the key could not be set
    status_unset   \* history: the last write of status_key failed

mmcVars == <<slot, events, mount, mmc_status, status_key, reply, status_unset>>

Statuses == {"REMOVED", "MOUNTED", "INSERTED_NOT_MOUNTED"}

MmcTypeOK ==
    /\ slot \in Cards \union {NoCard} /\ mount \in Cards \union {NoCard, Dead}
    /\ events \in Seq({"mmcblk_add", "mmcblk_remove"}) /\ Len(events) <= MaxEvents
    /\ {mmc_status, status_key} \subseteq Statuses
    /\ reply \in {"MOUNT_COMPLETED", "MOUNT_ALREADY", "MOUNT_FAILED",
                  "UNMOUNT_COMPLETED", "UNMOUNT_FAILED", "none"}
    /\ status_unset \in BOOLEAN

(* Before ss_mmc_init looks at the slot: an add is on its way in its place. *)
MmcInit ==
    /\ slot \in Cards \union {NoCard}
    /\ events = <<"mmcblk_add">>
    /\ mount = NoCard
    /\ mmc_status = "REMOVED"
    /\ status_key \in Statuses
    /\ reply = "none"
    /\ status_unset = TRUE
----------------------------------------------------------------------------
(* Set the status in memory and, failure ignored, in the key. *)
Know(status) ==
    /\ mmc_status' = status
    /\ \/ status_key' = status /\ status_unset' = FALSE
       \/ UNCHANGED status_key /\ status_unset' = TRUE

(* Set the result key; a failure is ignored here too, and nobody is told.     *)
Tell(result) == reply' \in {result, "none"}

(* ss_mmc_inserted: the whole card is tried, then its first partition, for   *)
(* a second while its node is missing; both may fail.                      *)
MmcInserted ==
    \/ /\ mmc_status = "MOUNTED"
       /\ Know("MOUNTED") /\ Tell("MOUNT_ALREADY")
       /\ UNCHANGED mount
    \/ /\ mmc_status # "MOUNTED" /\ slot = NoCard
       /\ Know("REMOVED") /\ Tell("MOUNT_FAILED")
       /\ UNCHANGED mount
    \/ /\ mmc_status # "MOUNTED" /\ slot # NoCard
       /\ \/ mount' = slot /\ Know("MOUNTED") /\ Tell("MOUNT_COMPLETED")
          \/ UNCHANGED mount /\ Know("INSERTED_NOT_MOUNTED") /\ Tell("MOUNT_FAILED")

(* Mutant: the mount point is left to whoever uses it. *)
RemovedStaysMounted ==
    Know("REMOVED") /\ reply' = "none" /\ UNCHANGED mount

(* ss_mmc_removed: detached even when it is busy. *)
MmcRemoved == Know("REMOVED") /\ reply' = "none" /\ mount' = NoCard

(* mmc_chgdet_cb *)
MmcAdd ==
    /\ events # <<>> /\ Head(events) = "mmcblk_add"
    /\ events' = Tail(events)
    /\ MmcInserted
    /\ UNCHANGED slot

MmcRemove ==
    /\ events # <<>> /\ Head(events) = "mmcblk_remove"
    /\ events' = Tail(events)
    /\ MmcRemoved
    /\ UNCHANGED slot

(* PREDEF_MOUNT_MMC runs. *)
MountRequest == MmcInserted /\ UNCHANGED <<slot, events>>

(* Mutant: the result of umount2 is ignored. *)
UnmountRequestUnchecked ==
    /\ mount' \in {mount, NoCard}
    /\ Know("INSERTED_NOT_MOUNTED")
    /\ Tell("UNMOUNT_COMPLETED")
    /\ UNCHANGED <<slot, events>>

(* PREDEF_UNMOUNT_MMC runs (ss_mmc_unmounted): it fails when nothing is      *)
(* mounted, and may when files are open.                                   *)
UnmountRequest ==
    /\ \/ /\ mount # NoCard
          /\ mount' = NoCard /\ Know("INSERTED_NOT_MOUNTED")
          /\ Tell("UNMOUNT_COMPLETED")
       \/ /\ Tell("UNMOUNT_FAILED")
          /\ UNCHANGED <<mount, mmc_status, status_key, status_unset>>
    /\ UNCHANGED <<slot, events>>
----------------------------------------------------------------------------
Insert(card) ==
    /\ slot = NoCard /\ Len(events) < MaxEvents
    /\ slot' = card
    /\ events' = Append(events, "mmcblk_add")
    /\ reply' = "none"
    /\ UNCHANGED <<mount, mmc_status, status_key, status_unset>>

(* The card is pulled out; the dead mount stays. *)
Pull ==
    /\ slot # NoCard /\ Len(events) < MaxEvents
    /\ slot' = NoCard
    /\ mount' = IF mount = NoCard THEN NoCard ELSE Dead
    /\ events' = Append(events, "mmcblk_remove")
    /\ reply' = "none"
    /\ UNCHANGED <<mmc_status, status_key, status_unset>>

MmcNext == \/ MmcAdd \/ MmcRemove \/ MountRequest \/ UnmountRequest
        \/ Pull \/ \E card \in Cards : Insert(card)

MmcSpec == MmcInit /\ [][MmcNext]_mmcVars
----------------------------------------------------------------------------
(* The daemon and the mount table agree on whether a card is mounted. *)
StatusIsMount == mmc_status = "MOUNTED" <=> mount # NoCard

(* The key clients read is what the daemon knows, unless setting it failed.  *)
KeyIsStatus == ~status_unset => status_key = mmc_status

(* Once all events have been served, however requests and further changes    *)
(* of the card ran between them, what is mounted is the card in the slot, no *)
(* dead mount, and the status says whether there is a card.                *)
EventsSettle ==
    events = <<>> =>
        /\ mount \in {NoCard, slot}
        /\ mmc_status = "REMOVED" <=> slot = NoCard

RemovalComes == \E i \in 1..Len(events) : events[i] = "mmcblk_remove"

(* A client that is told its card has been mounted, has been unmounted or    *)
(* could not be mounted, finds it so.  Told that it was mounted already, it *)
(* finds the card in the slot mounted, or a dead mount: but that one only    *)
(* while the report of a removal, which detaches it, is still on its way.   *)
RepliesAreTrue ==
    /\ reply = "MOUNT_COMPLETED" => mount # NoCard /\ mount = slot
    /\ reply = "MOUNT_ALREADY" => mount # NoCard /\ (mount = slot \/ RemovalComes)
    /\ reply \in {"MOUNT_FAILED", "UNMOUNT_COMPLETED"} => mount = NoCard

(* What the events on their way still have to tell: the last one is of the    *)
(* card that is, or is not, in the slot (but for the look at an empty slot   *)
(* that starts it all), and a mount that is dead has a removal coming.       *)
EventsShape ==
    LET n == Len(events) IN
    /\ n > 0 /\ events[n] = "mmcblk_remove" => slot = NoCard
    /\ n > 0 /\ events[n] = "mmcblk_add" /\ slot = NoCard => n = 1 /\ mount = NoCard
    /\ mount \notin {NoCard, slot} => RemovalComes

(* The inductive invariant. *)
MmcIInv == MmcTypeOK /\ StatusIsMount /\ KeyIsStatus /\ RepliesAreTrue /\ EventsShape
        /\ EventsSettle
=============================================================================
