----------------------------- MODULE UsbStorage -----------------------------
(***************************************************************************)
(* USB storage (ss_usb_storage_handler.c): two acts of the run queue mount  *)
(* and detach devices below one mount point, over a tmpfs that keeps what   *)
(* is written there without a device off the flash.                        *)
(*                                                                         *)
(* The names of the devices travel in one vconf key each way and then       *)
(* through the queue, which runs the newest act first: an act may come      *)
(* twice, not at all, or in another order than the devices came.  Here any  *)
(* act may come at any time.                                               *)
(***************************************************************************)
EXTENDS Naturals, Integers

CONSTANTS
    Devs,     \* names of devices: whole disks and partitions
    NameIn,   \* <<d, e>>: the name of d occurs in the name of e
    INT_MAX   \* where the counters of the announcements wrap

ASSUME UsbStorageAssumption ==
    /\ NameIn \subseteq Devs \X Devs
    /\ \A d \in Devs : <<d, d>> \in NameIn
    /\ INT_MAX \in Nat \ {0, 1}

Nobody == "nobody"

VARIABLES
    plugged,             \* the devices in /dev
    tempfs_mounted,      \* the flag of the code
    layers,              \* tmpfs mounts stacked on the mount point
    mounted,             \* <<device, layers below it>>: the mount table
    added_noti_value,
    removed_noti_value,
    added_key,           \* vconf: a device was added
    removed_key,         \* vconf: a device was removed
    announced,           \* history: the device the last step announced as added
    bare,                \* history: devices added when the tmpfs was reported busy
    set_failed           \* history: setting a key has failed

keys == <<added_noti_value, removed_noti_value, added_key, removed_key, set_failed>>
vars == <<plugged, tempfs_mounted, layers, mounted, keys, announced, bare>>

TypeOK ==
    /\ plugged \subseteq Devs
    /\ tempfs_mounted \in {0, 1}
    /\ layers \in Nat
    /\ mounted \subseteq Devs \X Nat
    /\ bare \subseteq Devs
    /\ {added_noti_value, removed_noti_value} \subseteq 0..INT_MAX
    /\ {added_key, removed_key} \subseteq -1..INT_MAX
    /\ announced \in Devs \union {Nobody}
    /\ set_failed \in BOOLEAN

Init ==
    /\ plugged \in SUBSET Devs
    /\ tempfs_mounted = 0
    /\ layers = 0
    /\ mounted = {} /\ bare = {}
    /\ added_noti_value = 0 /\ removed_noti_value = 0
    /\ added_key = 0 /\ removed_key = 0
    /\ announced = Nobody
    /\ set_failed = FALSE
----------------------------------------------------------------------------
(* Mutant: the counter stops at its end. *)
NextNotiStops(v) == IF v < INT_MAX THEN v + 1 ELSE v

NextNoti(v) == IF v < INT_MAX THEN v + 1 ELSE 1

(* Mutant: the flag is never set. *)
MountTmpfsUnnoticed ==
    \/ tempfs_mounted = 1 /\ UNCHANGED <<tempfs_mounted, layers>>
    \/ tempfs_mounted # 1 /\ UNCHANGED tempfs_mounted /\ layers' = layers + 1

(* The tmpfs, mounted once; afterwards the act goes on, as it does when the   *)
(* kernel says EBUSY, with no tmpfs and no flag.                           *)
MountTmpfs ==
    \/ tempfs_mounted = 1 /\ UNCHANGED <<tempfs_mounted, layers>>
    \/ tempfs_mounted # 1 /\ tempfs_mounted' = 1 /\ layers' = layers + 1
    \/ tempfs_mounted # 1 /\ UNCHANGED <<tempfs_mounted, layers>>

(* __ss_mount_device: below whatever lies on the mount point now. *)
MountDevice(d) ==
    \/ d \in plugged /\ mounted' = mounted \union {<<d, layers'>>}
    \/ UNCHANGED mounted

(* The device is announced when a name of the mount table contains its own. *)
FoundInMtab(d) == \E m \in mounted' : <<d, m[1]>> \in NameIn

(* The key is counted up; clients watch it change. *)
Announce(d) ==
    /\ added_noti_value' = NextNoti(added_noti_value)
    /\ \/ added_key' = added_noti_value' /\ UNCHANGED set_failed
       \/ added_key' \in {-1, added_key} /\ set_failed' = TRUE
    /\ announced' = d
    /\ UNCHANGED <<removed_noti_value, removed_key>>

(* __ss_usb_storage_added. *)
Added(d) ==
    /\ MountTmpfs
    /\ MountDevice(d)
    /\ IF FoundInMtab(d) THEN Announce(d)
       ELSE announced' = Nobody /\ UNCHANGED keys
    /\ bare' = IF tempfs_mounted' = 1 THEN bare ELSE bare \union {d}
    /\ UNCHANGED plugged

(* The tmpfs could not be mounted, or its mode not changed and it was        *)
(* detached again: the act returns.                                        *)
AddFails(d) ==
    /\ tempfs_mounted # 1
    /\ announced' = Nobody
    /\ UNCHANGED <<plugged, tempfs_mounted, layers, mounted, keys, bare>>

(* The device is detached, then whatever lies on the mount point, with all   *)
(* that is mounted below it.                                               *)
Detach(d) ==
    IF layers > 0
    THEN /\ tempfs_mounted' = 1
         /\ layers' = layers - 1
         /\ mounted' = {m \in mounted : m[2] # layers}
    ELSE /\ mounted' = mounted \ {<<d, layers>>}
         /\ UNCHANGED <<tempfs_mounted, layers>>

(* __ss_usb_storage_removed, of a device found below the mount point.  When  *)
(* the key cannot be set it is the other one that is set to -1.            *)
Removed(d) ==
    /\ <<d, layers>> \in mounted
    /\ Detach(d)
    /\ removed_noti_value' = NextNoti(removed_noti_value)
    /\ \/ removed_key' = removed_noti_value' /\ UNCHANGED <<added_key, set_failed>>
       \/ added_key' \in {-1, added_key} /\ UNCHANGED removed_key /\ set_failed' = TRUE
    /\ announced' = Nobody
    /\ UNCHANGED <<plugged, added_noti_value, bare>>
----------------------------------------------------------------------------
(* A device is plugged in or pulled out; what was mounted stays mounted. *)
Plug(d) ==
    /\ plugged' = IF d \in plugged THEN plugged \ {d} ELSE plugged \union {d}
    /\ announced' = Nobody
    /\ UNCHANGED <<tempfs_mounted, layers, mounted, keys, bare>>

Next == \E d \in Devs : Added(d) \/ AddFails(d) \/ Removed(d) \/ Plug(d)

Spec == Init /\ [][Next]_vars
----------------------------------------------------------------------------
(* The comment of the code: tmpfs is mounted for protecting user data.  No   *)
(* device lies on the flash itself, where writes would go once it is gone,  *)
(* unless the kernel refused the tmpfs with EBUSY.                         *)
Protected == \A m \in mounted : m[2] > 0 \/ m[1] \in bare

(* The comment of the code: it is checked whether the device is mounted      *)
(* before it is announced.                                                 *)
AnnouncedIsMounted == announced # Nobody => \E m \in mounted : m[1] = announced

(* No tmpfs is ever mounted over a device that is in use, where no removal   *)
(* would find the device any more: except over one that was mounted without *)
(* a tmpfs, and without the flag, because the kernel said EBUSY.           *)
NothingHidden ==
    \A m \in mounted : m[2] = layers \/ (m[2] = 0 /\ m[1] \in bare)

(* However often the flag misses it, no tmpfs is stacked on another: a       *)
(* removal, which detaches one, leaves nothing behind that keeps writes.    *)
NotStacked == layers <= 1

(* While the flag is not set there is no tmpfs, and no device but those that  *)
(* were mounted without one.                                               *)
FlagNotSet ==
    tempfs_mounted = 0 => layers = 0 /\ \A m \in mounted : m[2] = 0 /\ m[1] \in bare

(* The key clients watch is the counter, until it fails to be set. *)
KeyIsCounter == ~set_failed => added_key = added_noti_value

(* The inductive invariant. *)
IInv == TypeOK /\ NothingHidden /\ NotStacked /\ FlagNotSet /\ KeyIsCounter

(* Each announcement changes its key, or the clients that watch it would     *)
(* miss the device, as long as no key failed to be set.                    *)
AnnouncementsAreSeen ==
    [][announced' # Nobody /\ ~set_failed' => added_key' # added_key]_vars
=============================================================================
