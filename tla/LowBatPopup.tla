---------------------------- MODULE LowBatPopup ----------------------------
(***************************************************************************)
(* The lowbat act of the run queue (lowbat_def_predefine_action and         *)
(* lowbat_popup of ss_predefine.c).  An act launches a popup; while the     *)
(* device boots it leaves the popup to a timer that tries every second.     *)
(* Unplugging the USB cable or the charger while the battery is low launches *)
(* the same popup with the content "warning", whatever it showed before     *)
(* (usbcon_def_predefine_action, an act too, and ta_chgdet_cb).             *)
(*                                                                         *)
(* The queue (RunQueue) runs the acts that wait newest first, all of them   *)
(* before the main loop serves anything else.                              *)
(***************************************************************************)
EXTENDS Naturals, Sequences, SequencesExt

CONSTANTS
    MaxCalls,  \* bound: acts waiting at a time
    MayFail    \* launching the popup and reading the boot state may fail

ASSUME LowBatPopupAssumption == MaxCalls \in Nat /\ MayFail \in BOOLEAN

(* The contents of the popup: what LOWBAT_OPT_... and the bundle say.       *)
Contents == {"warning", "poweroff", "chargeerr", "check"}

(* What waits in the queue: acts of a low battery by content, or of USB.     *)
Acted == Contents \union {"usbcon"}

VARIABLES
    calls,          \* the acts in the queue, newest last
    sweeping,       \* the queue is being run
    popup_timer,    \* lowbat_popup_id is set
    option,         \* lowbat_popup_option, or "none"
    booting,        \* the starter has not finished its sequence
    popup,          \* the popup launched last, or "none"
    last_run,       \* history: the content of the lowbat act that ran last
    launch_failed,  \* history: its launch failed, and nothing tries again
    warned          \* history: unplugging launched the popup last

popupVars == <<calls, sweeping, popup_timer, option, booting, popup, last_run,
               launch_failed, warned>>

PopupTypeOK ==
    /\ calls \in Seq(Acted) /\ Len(calls) <= MaxCalls
    /\ sweeping \in BOOLEAN /\ popup_timer \in BOOLEAN /\ booting \in BOOLEAN
    /\ launch_failed \in BOOLEAN /\ warned \in BOOLEAN
    /\ {option, popup, last_run} \subseteq Contents \union {"none"}

PopupInit ==
    /\ calls = <<>>
    /\ sweeping = FALSE
    /\ popup_timer = FALSE
    /\ option = "none"
    /\ booting \in BOOLEAN
    /\ popup = "none"
    /\ last_run = "none"
    /\ launch_failed = FALSE
    /\ warned = FALSE
----------------------------------------------------------------------------
(* The popup can be launched: the starter has finished, or cannot be asked. *)
Ready == ~booting \/ MayFail
Waits == booting

(* Mutant: a timer that runs already is left alone. *)
RunActKeepsTimer ==
    /\ calls # <<>> /\ Last(calls) \in Contents
    /\ calls' = Front(calls)
    /\ sweeping' = (Front(calls) # <<>>)
    /\ last_run' = Last(calls)
    /\ \/ /\ Ready
          /\ popup' = Last(calls) /\ warned' = FALSE
          /\ option' = Last(calls) /\ launch_failed' = FALSE
       \/ /\ Ready /\ MayFail
          /\ option' = "none" /\ launch_failed' = TRUE
          /\ UNCHANGED <<popup, warned>>
       \/ /\ Waits
          /\ option' = Last(calls) /\ launch_failed' = FALSE
          /\ UNCHANGED <<popup, warned>>
    /\ popup_timer' = (popup_timer \/ (Waits /\ UNCHANGED popup /\ ~launch_failed'))
    /\ UNCHANGED booting

(* lowbat_def_predefine_action: the timer of an earlier act is deleted; the *)
(* popup is launched now, or given up, or left to a new timer.             *)
RunAct ==
    /\ calls # <<>> /\ Last(calls) \in Contents
    /\ calls' = Front(calls)
    /\ sweeping' = (Front(calls) # <<>>)
    /\ last_run' = Last(calls)
    /\ \/ /\ Ready
          /\ popup' = Last(calls) /\ warned' = FALSE /\ option' = Last(calls)
          /\ popup_timer' = FALSE /\ launch_failed' = FALSE
       \/ /\ Ready /\ MayFail
          /\ option' = "none"
          /\ popup_timer' = FALSE /\ launch_failed' = TRUE
          /\ UNCHANGED <<popup, warned>>
       \/ /\ Waits
          /\ option' = Last(calls)
          /\ popup_timer' = TRUE /\ launch_failed' = FALSE
          /\ UNCHANGED <<popup, warned>>
    /\ UNCHANGED booting

(* Mutant: the option is cleared before it is used. *)
LowbatPopupBlank ==
    /\ popup_timer /\ ~sweeping /\ Ready
    /\ popup_timer' = FALSE /\ option' = "none"
    /\ popup' = "check" /\ warned' = FALSE
    /\ UNCHANGED <<calls, sweeping, booting, last_run, launch_failed>>

(* lowbat_popup: launched, the popup is forgotten; a failing launch leaves   *)
(* everything to the next second.                                          *)
LowbatPopup ==
    /\ popup_timer /\ ~sweeping /\ Ready
    /\ popup_timer' = FALSE /\ option' = "none"
    /\ popup' = option /\ warned' = FALSE
    /\ UNCHANGED <<calls, sweeping, booting, last_run, launch_failed>>

(* usbcon_def_predefine_action: the cable is out and the battery low, and the *)
(* warning is launched; or it is not, or its launch fails, and nothing is.   *)
RunUsbcon ==
    /\ calls # <<>> /\ Last(calls) = "usbcon"
    /\ calls' = Front(calls)
    /\ sweeping' = (Front(calls) # <<>>)
    /\ \/ popup' = "warning" /\ warned' = TRUE
       \/ UNCHANGED <<popup, warned>>
    /\ UNCHANGED <<popup_timer, option, booting, last_run, launch_failed>>

(* ta_chgdet_cb: the charger is out, the battery low, the warning launched.  *)
TaUnplugged ==
    /\ ~sweeping
    /\ popup' = "warning" /\ warned' = TRUE
    /\ UNCHANGED <<calls, sweeping, popup_timer, option, booting, last_run,
                   launch_failed>>

(* ss_action_entry_call_internal(PREDEF_LOWBAT, 1, ...) and (PREDEF_USBCON, 0). *)
Call(content) ==
    /\ ~sweeping /\ Len(calls) < MaxCalls
    /\ calls' = Append(calls, content)
    /\ UNCHANGED <<sweeping, popup_timer, option, booting, popup, last_run,
                   launch_failed, warned>>

(* The starter sets its key when the boot animation has ended. *)
BootEnds ==
    /\ booting /\ ~sweeping
    /\ booting' = FALSE
    /\ UNCHANGED <<calls, sweeping, popup_timer, option, popup, last_run,
                   launch_failed, warned>>

(* The queue runs the newest act. *)
RunNewest == RunAct \/ RunUsbcon

PopupNext ==
    \/ RunNewest \/ LowbatPopup \/ TaUnplugged \/ BootEnds
    \/ \E content \in Acted : Call(content)

PopupSpec == PopupInit /\ [][PopupNext]_popupVars

(* The main loop runs the queue and its timers, a launch that is tried again *)
(* every second works in the end, and so does booting.                     *)
PopupFairSpec ==
    /\ PopupSpec
    /\ WF_popupVars(RunNewest) /\ WF_popupVars(LowbatPopup) /\ WF_popupVars(BootEnds)
----------------------------------------------------------------------------
(* What a lowbat act launched stays until another act, its own timer or an   *)
(* unplugging launches the popup again.                                    *)
OnScreen(content) == popup = content \/ (warned /\ popup = "warning")

(* The lowbat act that ran last is the popup on the screen, or the one the   *)
(* timer waits with, or its launch failed: no older act displaces it, and a *)
(* timer of an older act is not left behind.  Only the warning of an         *)
(* unplugging takes its place.                                             *)
LatestRunIsShown ==
    last_run # "none" =>
        IF popup_timer THEN option = last_run
        ELSE OnScreen(last_run) \/ launch_failed

(* The timer never launches a popup whose content has been cleared. *)
TimerHasContent == popup_timer => option # "none"

(* The inductive invariant. *)
PopupIInv == PopupTypeOK /\ LatestRunIsShown /\ TimerHasContent

(* Once acts stop coming, the last one of a low battery is on the screen, or *)
(* the warning an unplugging launched after it, or its launch failed at     *)
(* once; no timer is left behind, and the timer's popup does come.          *)
LastIsShown ==
    \/ []<><<\E content \in Acted : Call(content)>>_popupVars
    \/ <>[](/\ calls = <<>> /\ ~popup_timer
             /\ last_run # "none" => OnScreen(last_run) \/ launch_failed)
=============================================================================
