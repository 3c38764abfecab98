---------------------------- MODULE ChargeNotice ----------------------------
(***************************************************************************)
(* The notice of a full battery: charge_cb of ss_device_change_handler.c   *)
(* remembers in bat_full_noti that it has asked for the notice, and lets a *)
(* helper process (sys_device_noti) put it into the tray or take it away.  *)
(* The same helper plays the sound when a charger or USB is plugged in.    *)
(* ss_launch_if_noexist starts no helper while one runs.                   *)
(***************************************************************************)
VARIABLES
    full,          \* the battery is full
    health,        \* what the health of the battery reads as
    report,        \* a report of the battery is on its way
    bat_full_noti,
    helper,        \* what the helper was launched for, or "none"
    tray,          \* the notice is in the tray
    lost,          \* history: the last notice wanted was not delivered
    misread        \* history: the last report was served without the truth

vars == <<full, health, report, bat_full_noti, helper, tray, lost, misread>>

(* Overheated or cold is bad.  Of the others one may be the number 1, one 0. *)
Healths == {"bad", "is_1", "is_0", "other"}

TypeOK ==
    /\ health \in Healths
    /\ helper \in {"none", "charge", "full_on", "full_off", "sound"}
    /\ {full, report, bat_full_noti, tray, lost, misread} \subseteq BOOLEAN

(* No report has been served; the tray was emptied when the device started. *)
Init ==
    /\ full \in BOOLEAN /\ health \in Healths
    /\ report = FALSE /\ bat_full_noti = FALSE /\ helper = "none" /\ tray = FALSE
    /\ lost = FALSE /\ misread = TRUE
----------------------------------------------------------------------------
(* The battery changes, and is reported. *)
Battery ==
    /\ \/ full' = ~full /\ UNCHANGED health
       \/ health' \in Healths /\ UNCHANGED full
    /\ report' = TRUE
    /\ UNCHANGED <<bat_full_noti, helper, tray, lost, misread>>

(* ss_launch_if_noexist of the helper: skipped if one runs, or it fails. *)
Launch(what) ==
    \/ helper = "none" /\ helper' = what
    \/ UNCHANGED helper

(* charge_cb wants a notice. *)
Notify(what) ==
    /\ Launch(what)
    /\ lost' = (helper' = helper)

(* Mutant: bat_full_noti is left as it is when the battery is not full.    *)
JudgeStuck(val) ==
    CASE val = "0" -> /\ IF bat_full_noti THEN Notify("full_off")
                         ELSE UNCHANGED <<helper, lost>>
                      /\ UNCHANGED bat_full_noti
      [] val = "1" /\ ~bat_full_noti -> bat_full_noti' = TRUE /\ Notify("full_on")
      [] OTHER -> UNCHANGED <<bat_full_noti, helper, lost>>

(* The second half of charge_cb, for the number read last. *)
Judge(val) ==
    CASE val = "0" -> /\ IF bat_full_noti THEN Notify("full_off")
                         ELSE UNCHANGED <<helper, lost>>
                      /\ bat_full_noti' = FALSE
      [] val = "1" /\ ~bat_full_noti -> bat_full_noti' = TRUE /\ Notify("full_on")
      [] OTHER -> UNCHANGED <<bat_full_noti, helper, lost>>

(* The number of the health: -1 if it could not be read. *)
HealthVals == {"other"} \union
    (CASE health = "is_0" -> {"0"} [] health = "is_1" -> {"1"} [] OTHER -> {})

(* charge_cb.  A failed read of charge_full leaves the number of the health. *)
ChargeCb ==
    /\ report /\ report' = FALSE
    /\ \/ /\ health = "bad"
          /\ misread' = TRUE
          /\ UNCHANGED <<bat_full_noti, helper, lost>>
       \/ /\ Judge(IF full THEN "1" ELSE "0")
          /\ misread' = FALSE
       \/ \E val \in HealthVals : Judge(val) /\ misread' = TRUE
    /\ UNCHANGED <<full, health, tray>>

(* usb_chgdet_cb or ta_chgdet_cb finds something plugged in. *)
PluggedIn ==
    /\ Launch("charge") /\ helper' # helper
    /\ UNCHANGED <<full, health, report, bat_full_noti, tray, lost, misread>>

(* battery_full_noti of the helper, adding or deleting the notice, or      *)
(* failing.  A new notice and a charger are also heard.                    *)
HelperActs ==
    /\ CASE helper \in {"full_on", "full_off"} ->
               \/ tray' = (helper = "full_on") /\ UNCHANGED lost
               \/ tray' \in {tray, FALSE} /\ lost' = TRUE
         [] helper = "charge" -> UNCHANGED <<tray, lost>>
         [] OTHER -> FALSE
    /\ helper' = IF helper = "full_off" THEN "none" ELSE "sound"
    /\ UNCHANGED <<full, health, report, bat_full_noti, misread>>

(* It has played the sound, and goes. *)
HelperEnds ==
    /\ helper = "sound" /\ helper' = "none"
    /\ UNCHANGED <<full, health, report, bat_full_noti, tray, lost, misread>>

Next == Battery \/ ChargeCb \/ PluggedIn \/ HelperActs \/ HelperEnds

Spec == Init /\ [][Next]_vars
----------------------------------------------------------------------------
(* Once the reports are served and the helper has done its work, the tray  *)
(* shows the notice exactly while the battery is full, unless the last     *)
(* report was served without reading the battery, or the helper for the    *)
(* last notice wanted was not launched (it is not tried again) or failed   *)
(* (charge_cb, ss_launch_if_noexist, battery_full_noti).                   *)
FullNoticeSettles ==
    ~report /\ helper \notin {"full_on", "full_off"} /\ ~lost /\ ~misread =>
        tray = full

(* bat_full_noti agrees with the battery once the reports are served, and  *)
(* the helper, or what it has left in the tray, with bat_full_noti.        *)
FlagFollows == ~report /\ ~misread => bat_full_noti = full
HelperFollows ==
    ~lost => CASE helper = "full_on" -> bat_full_noti
               [] helper = "full_off" -> ~bat_full_noti
               [] OTHER -> tray = bat_full_noti

(* The inductive invariant. *)
IInv == TypeOK /\ FlagFollows /\ HelperFollows
=============================================================================
