---------------------------- MODULE DeviceChange ----------------------------
(*****************************************************************************)
(* The jacks (ss_device_change_handler.c, and the acts of ss_predefine.c     *)
(* they queue).  A report says only that a jack changed; whoever serves it   *)
(* reads the jack.  The USB and the earjack report queues an act, which      *)
(* reads the jack when it runs.  What is read goes to a key for clients and, *)
(* for USB, charger and HDMI, into a lock of the display.                    *)
(*****************************************************************************)
(* The display (power manager, external) holds one lock for a process and a  *)
(* state: taking it again changes nothing, one release drops it.  The acts   *)
(* of ss_timemgr.c lock the display in whatever state it is meanwhile.       *)
(*****************************************************************************)
EXTENDS Naturals

CONSTANTS
    Models,    \* the sets of jacks to look at together
    MaxCalls   \* bound: acts of one kind queued

Lcd == {"usb", "charger"}       \* both lock LCD_OFF
Queued == {"usb", "earjack"}    \* served by an act of the run queue

VARIABLES
    jacks,      \* the jacks of this device
    online,     \* those with something plugged in
    registered, \* the daemon is told of changes
    noti,       \* reports on their way, of these jacks
    queue,      \* how many acts are queued, of each kind
    key,        \* what clients are told of each jack that has a key
    locks,      \* the states of the display the daemon has locked
    missed,     \* history: jacks whose key is not of their last change, which was not
                \* reported, or of which the read or setting the key has failed
    slipped,    \* history: the same for the lock of a jack
    users,      \* history: who has used the lock since neither was plugged in
    borrowed    \* history: locks an act of the time has released, or left

vars == <<jacks, online, registered, noti, queue, key, locks, missed, slipped, users,
          borrowed>>

Keys == {"on", "off", "unsupported"}
Keyed == jacks \ {"hdmi"}
Locking == jacks \intersect {"usb", "charger", "hdmi"}

TypeOK ==
    /\ jacks \in Models
    /\ online \subseteq jacks /\ noti \subseteq jacks
    /\ missed \subseteq Keyed /\ slipped \subseteq Locking
    /\ registered \in BOOLEAN
    /\ queue \in [Queued -> 0..MaxCalls]
    /\ key \in [Keyed -> Keys]
    /\ locks \union borrowed \subseteq {"LCD_NORMAL", "LCD_OFF"}
    /\ users \subseteq Lcd

Reading(j) == IF j \in online THEN "on" ELSE "off"
LockOf(j) == IF j \in Lcd THEN {"LCD_OFF"}
             ELSE IF j = "hdmi" THEN {"LCD_NORMAL"} ELSE {}

(* The jacks that are read before the daemon is told of changes: earjack in  *)
(* ss_predefine_internal_init, USB and charger in ss_usb_init and ss_ta_init, *)
(* whose attempts to lock the display may all fail.                         *)
Init ==
    /\ jacks \in Models
    /\ online \in SUBSET jacks
    /\ registered = FALSE /\ noti = {}
    /\ queue = [a \in Queued |-> 0]
    /\ missed \in SUBSET Keyed /\ jacks \intersect {"earkey", "keyboard"} \subseteq missed
    /\ slipped \in SUBSET Locking /\ jacks \intersect {"hdmi"} \subseteq slipped
    /\ key \in [Keyed -> Keys]
    /\ \A j \in Keyed :
          IF j \notin missed THEN key[j] = Reading(j)
          ELSE key[j] = "unsupported" => j = "keyboard"
    /\ locks = UNION {LockOf(j) : j \in online \ slipped}
    /\ users = online \intersect Lcd
    /\ borrowed = {}
----------------------------------------------------------------------------
(* Nothing of jack j is on its way any more. *)
Served(j) == j \notin noti /\ (j \in Queued => queue[j] = 0)

LcdServed == \A j \in Lcd : Served(j)

(* Something is plugged in or pulled out, and reported to whoever is         *)
(* registered by now.                                                       *)
Change(j) ==
    /\ online' = IF j \in online THEN online \ {j} ELSE online \union {j}
    /\ \/ registered /\ noti' = noti \union {j} /\ UNCHANGED <<missed, slipped>>
       \/ /\ ~registered /\ UNCHANGED noti
          /\ missed' = missed \union ({j} \intersect Keyed)
          /\ slipped' = slipped \union ({j} \intersect Locking)
    /\ users' = IF j \notin Lcd THEN users
                ELSE {j} \union (IF LcdServed /\ online \intersect Lcd = {} THEN {}
                                 ELSE users)
    /\ UNCHANGED <<jacks, registered, queue, key, locks, borrowed>>

(* Mutant: a client is told of what was plugged in only. *)
TellKeyOn(j, read) ==
    \/ /\ read /\ j \in Keyed
       /\ key' = IF j \in online THEN [key EXCEPT ![j] = "on"] ELSE key
       /\ missed' = missed \ {j}
    \/ UNCHANGED key /\ missed' = missed \union ({j} \intersect Keyed)

(* The key of jack j is set to what was read.  If it could not be read only  *)
(* the keyboard says so; setting the key may fail.                          *)
TellKey(j, read) ==
    \/ /\ j \in Keyed /\ (read \/ j = "keyboard")
       /\ key' = [key EXCEPT ![j] = IF read THEN Reading(j) ELSE "unsupported"]
       /\ missed' = IF read THEN missed \ {j} ELSE missed \union {j}
    \/ UNCHANGED key /\ missed' = missed \union ({j} \intersect Keyed)

(* Mutant: the lock is taken and never given back. *)
MoveLockKeep(j, read) ==
    \/ /\ read /\ j \in Locking
       /\ slipped' = slipped \ {j} /\ borrowed' = borrowed \ LockOf(j)
       /\ locks' = IF j \in online THEN locks \union LockOf(j) ELSE locks
    \/ UNCHANGED <<locks, borrowed>> /\ slipped' = slipped \union ({j} \intersect Locking)

(* The display is locked or unlocked as was read; this may fail. *)
MoveLock(j, read) ==
    \/ /\ read /\ j \in Locking
       /\ slipped' = slipped \ {j} /\ borrowed' = borrowed \ LockOf(j)
       /\ locks' = IF j \in online THEN locks \union LockOf(j) ELSE locks \ LockOf(j)
    \/ UNCHANGED <<locks, borrowed>> /\ slipped' = slipped \union ({j} \intersect Locking)

(* Jack j is read, for the key, if it has one, and the lock, if any. *)
Tell(j) == \E read \in BOOLEAN : TellKey(j, read) /\ MoveLock(j, read)

(* usb_chgdet_cb and earjack_chgdet_cb queue an act ... *)
QueueAct(j) ==
    /\ j \in Queued /\ queue[j] < MaxCalls
    /\ queue' = [queue EXCEPT ![j] = @ + 1]
    /\ UNCHANGED <<key, locks, missed, slipped, borrowed>>

(* ... and ta_, earkey_, hdmi_ and keyboard_chgdet_cb read at once. *)
Chgdet(j) ==
    /\ j \in noti
    /\ noti' = noti \ {j}
    /\ QueueAct(j) \/ (j \notin Queued /\ Tell(j) /\ UNCHANGED queue)
    /\ UNCHANGED <<jacks, online, registered, users>>

(* usbcon_def_predefine_action and earjackcon_def_predefine_action. *)
RunAct(j) ==
    /\ j \in jacks \intersect Queued /\ queue[j] > 0
    /\ queue' = [queue EXCEPT ![j] = @ - 1]
    /\ Tell(j)
    /\ UNCHANGED <<jacks, online, registered, noti, users>>

(* ss_device_change_init: the daemon is told of changes from now on, and     *)
(* reads keyboard and HDMI.                                                 *)
Register ==
    /\ ~registered /\ registered' = TRUE
    /\ \E read \in BOOLEAN :
          IF "keyboard" \in jacks THEN TellKey("keyboard", read) ELSE UNCHANGED <<key, missed>>
    /\ \E read \in BOOLEAN :
          IF "hdmi" \in jacks THEN MoveLock("hdmi", read)
          ELSE UNCHANGED <<locks, slipped, borrowed>>
    /\ UNCHANGED <<jacks, online, noti, queue, users>>

(* set_datetime_action and set_timezone_action lock the display in the state *)
(* it is in, do what was asked, and release this lock: one that a jack holds *)
(* is gone then, and one that cannot be released stays.                      *)
TimeAct(state) ==
    /\ registered /\ state \in UNION {LockOf(j) : j \in jacks}
    /\ locks' = IF state \in locks THEN locks \ {state} ELSE locks \union {state}
    /\ borrowed' = borrowed \union {state}
    /\ UNCHANGED <<jacks, online, registered, noti, queue, key, missed, slipped, users>>

Next ==
    \/ \E j \in jacks : Change(j) \/ Chgdet(j) \/ RunAct(j)
    \/ Register
    \/ \E state \in {"LCD_NORMAL", "LCD_OFF"} : TimeAct(state)

Spec == Init /\ [][Next]_vars
----------------------------------------------------------------------------
(* When every report of a jack has been served, clients are told what is   *)
(* plugged in, however its changes, the reports and the queued acts have   *)
(* crossed (usb_chgdet_cb, earjack_chgdet_cb and the acts they queue,      *)
(* earkey_chgdet_cb, keyboard_chgdet_cb), unless the last change came      *)
(* before the daemon was told of changes, or the last read, or setting the *)
(* key after it, has failed.                                               *)
KeysSettle ==
    \A j \in Keyed \ missed : Served(j) => key[j] = Reading(j)

LcdFollows ==
    LcdServed /\ slipped \intersect Lcd = {} /\ "LCD_OFF" \notin borrowed =>
        /\ "LCD_OFF" \in locks => online \intersect Lcd # {}
        /\ users # Lcd /\ online \intersect Lcd # {} => "LCD_OFF" \in locks

HdmiFollows ==
    "hdmi" \in jacks \ slipped /\ Served("hdmi") /\ "LCD_NORMAL" \notin borrowed =>
        ("hdmi" \in online <=> "LCD_NORMAL" \in locks)

(* When all is served, the display is not kept on for a plug that is gone, *)
(* and it is kept on for one that is in: except when USB and charger have  *)
(* both used their common lock, which the first to go releases             *)
(* (ta_chgdet_cb, usbcon_def_predefine_action), when the last change came  *)
(* before the daemon was told of changes or the last read, lock or unlock  *)
(* has failed, or when an act of the time has changed the lock since       *)
(* (set_datetime_action, set_timezone_action).                             *)
LockFollowsPlug == LcdFollows /\ HdmiFollows

(* Whoever is plugged in or still to be served counts as a user of the lock. *)
UsersKnown == \A j \in jacks \intersect Lcd : j \in online \/ ~Served(j) => j \in users

(* The inductive invariant. *)
IInv == TypeOK /\ UsersKnown /\ KeysSettle /\ LockFollowsPlug
=============================================================================
