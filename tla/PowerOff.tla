------------------------------ MODULE PowerOff ------------------------------
(***************************************************************************)
(* Power-off and restart (ss_predefine.c).  Either action asks the modem    *)
(* to power down first and goes on when the modem says it has; a timer goes *)
(* on without it.  The action may be asked for again, or the other one,     *)
(* while the first still waits: the daemon then has two timers and knows    *)
(* the id of the last.                                                     *)
(*                                                                         *)
(* Before the device ends, the daemon waits until the animation of the       *)
(* latest request has had its time; nothing else is served meanwhile.  One  *)
(* tick is a second of the clock, which nobody sets.                       *)
(***************************************************************************)
EXTENDS Integers, Sequences

CONSTANTS
    MaxRequests,  \* bound: actions run in a behaviour
    TIMEOUT,      \* seconds the modem is waited for: 15
    DURATION      \* seconds of the animation: POWEROFF_DURATION or PWROFF_DUR

ASSUME PowerOffAssumption ==
    MaxRequests \in Nat /\ TIMEOUT \in Nat \ {0} /\ DURATION \in Nat

Kinds   == {"poweroff", "reboot"}
Ids     == 1..MaxRequests
NoTimer == -1

VARIABLES
    requests,           \* history: the actions run, oldest first
    waited,             \* history: seconds since the first of them, at most
                        \* TIMEOUT + DURATION + 1
    shown,              \* seconds since tv_start_poweroff, at most DURATION
    handle,             \* tapi_handle is not NULL
    noti,               \* the actions whose callback the modem will call
    timers,             \* seconds until the timer of each action fires
    poweroff_timer_id,  \* the action whose timer the daemon knows, or 0
    ending,             \* what the daemon waits for the animation to do, and
                        \* serves nothing else, or "no"
    down                \* what became of the device

vars == <<requests, waited, shown, handle, noti, timers, poweroff_timer_id,
          ending, down>>

TypeOK ==
    /\ requests \in Seq(Kinds) /\ Len(requests) <= MaxRequests
    /\ waited \in Nat /\ shown \in 0..DURATION
    /\ handle \in BOOLEAN
    /\ noti \subseteq Kinds
    /\ timers \in [Ids -> NoTimer..TIMEOUT]
    /\ poweroff_timer_id \in Ids \union {0}
    /\ ending \in Kinds \union {"no"} /\ down \in {"no", ending}

Init ==
    /\ requests = <<>>
    /\ waited = 0 /\ shown = 0
    /\ handle \in BOOLEAN
    /\ noti = {}
    /\ timers = [i \in Ids |-> NoTimer]
    /\ poweroff_timer_id = 0
    /\ ending = "no" /\ down = "no"
----------------------------------------------------------------------------
(* powerdown_ap_by_force leaves its timer running; restart_ap_by_force,      *)
(* powerdown_ap and restart_ap delete the one the daemon knows.            *)
DeleteKnownTimer ==
    /\ timers' = [i \in Ids |-> IF i = poweroff_timer_id THEN NoTimer ELSE timers[i]]
    /\ poweroff_timer_id' = 0

(* The device is to end as kind: the thread waits for the animation first.   *)
Down(kind) == ending' = kind /\ handle' = FALSE

(* The modem cannot be asked, or refuses: the action ends the device itself. *)
ByForce(kind) ==
    /\ Down(kind)
    /\ noti' \in {noti, noti \union {kind}}
    /\ \/ kind = "poweroff" /\ UNCHANGED <<timers, poweroff_timer_id>>
       \/ kind = "reboot" /\ DeleteKnownTimer

(* Mutants: no timer; the timer known so far is deleted. *)
WaitForModemOnly(kind) ==
    /\ handle
    /\ noti' \in {{kind}, noti \union {kind}}
    /\ UNCHANGED <<timers, poweroff_timer_id, handle, ending>>
WaitForModemAnew(kind) ==
    /\ handle
    /\ noti' \in {{kind}, noti \union {kind}}
    /\ timers' = [i \in Ids |-> IF i = Len(requests') THEN TIMEOUT ELSE NoTimer]
    /\ poweroff_timer_id' = Len(requests')
    /\ UNCHANGED <<handle, ending>>

(* The modem was asked.  What registering a second callback does to the first *)
(* is up to the telephony library.                                         *)
WaitForModem(kind) ==
    /\ handle
    /\ noti' \in {{kind}, noti \union {kind}}
    /\ timers' = [timers EXCEPT ![Len(requests')] = TIMEOUT]
    /\ poweroff_timer_id' = Len(requests')
    /\ UNCHANGED <<handle, ending>>

(* poweroff_def_predefine_action, restart_def_predefine_action: the animation *)
(* starts, or starts anew.                                                 *)
Request(kind) ==
    /\ ending = "no" /\ Len(requests) < MaxRequests
    /\ requests' = Append(requests, kind)
    /\ shown' = 0
    /\ ByForce(kind) \/ WaitForModem(kind)
    /\ UNCHANGED <<waited, down>>

(* powerdown_ap, restart_ap, called by the modem. *)
ModemNoti(kind) ==
    /\ ending = "no" /\ handle
    /\ kind \in noti
    /\ Down(kind)
    /\ DeleteKnownTimer
    /\ noti' = {}
    /\ UNCHANGED <<requests, waited, shown, down>>

(* Mutant: either timer powers off. *)
TimerFiresOff(i) ==
    /\ ending = "no" /\ timers[i] = 0
    /\ Down("poweroff")
    /\ UNCHANGED <<requests, waited, shown, noti, timers, poweroff_timer_id, down>>

(* powerdown_ap_by_force, restart_ap_ecore, called by the timer of action i. *)
TimerFires(i) ==
    /\ ending = "no" /\ timers[i] = 0
    /\ Down(requests[i])
    /\ \/ requests[i] = "poweroff" /\ UNCHANGED <<noti, timers, poweroff_timer_id>>
       \/ requests[i] = "reboot" /\ DeleteKnownTimer /\ noti' = {}
    /\ UNCHANGED <<requests, waited, shown, down>>

(* The animation has had its time: kill and reboot. *)
End ==
    /\ ending # "no" /\ down = "no"
    /\ shown >= DURATION
    /\ down' = ending
    /\ UNCHANGED <<requests, waited, shown, handle, noti, timers, poweroff_timer_id,
                   ending>>
----------------------------------------------------------------------------
(* A second passes.  A timer that is due fires first, unless the thread waits *)
(* for the animation.                                                      *)
Tick ==
    /\ down = "no" /\ requests # <<>>
    /\ IF ending = "no" THEN \A i \in Ids : timers[i] # 0 ELSE shown < DURATION
    /\ timers' = [i \in Ids |-> IF timers[i] > 0 THEN timers[i] - 1 ELSE timers[i]]
    /\ waited' = IF waited > TIMEOUT + DURATION THEN waited ELSE waited + 1
    /\ shown' = IF shown < DURATION THEN shown + 1 ELSE shown
    /\ UNCHANGED <<requests, handle, noti, poweroff_timer_id, ending, down>>

Next == \/ \E kind \in Kinds : Request(kind) \/ ModemNoti(kind)
        \/ \E i \in Ids : TimerFires(i)
        \/ End \/ Tick

Spec == Init /\ [][Next]_vars

(* Time passes and the main loop serves its timers; the modem owes nothing. *)
FairSpec ==
    Spec /\ WF_vars(Tick) /\ WF_vars(End) /\ \A i \in Ids : WF_vars(TimerFires(i))
----------------------------------------------------------------------------
(* The device is powered off only when a power-off was asked for, and       *)
(* restarted only when a restart was, whoever is first of the modem and the  *)
(* timers of several actions.                                              *)
DownAsAsked == down # "no" => \E i \in 1..Len(requests) : requests[i] = down

(* Further requests start the animation anew, and the end waits for it, but    *)
(* however many there are they put the end off by one animation at most: the *)
(* device goes down within TIMEOUT + DURATION seconds of the first request. *)
DeadlineKept == requests # <<>> /\ down = "no" => waited <= TIMEOUT + DURATION

(* The timer of the first action runs until the end begins, also when the    *)
(* daemon has forgotten its id; the end waits for one animation; the modem  *)
(* only calls back for actions asked, and the end is one asked for.         *)
FirstTimerRuns ==
    requests # <<>> /\ ending = "no" => timers[1] >= 0 /\ waited + timers[1] = TIMEOUT
OneAnimation == ending # "no" /\ down = "no" => waited <= TIMEOUT + shown
NothingWaitsUnasked ==
    /\ requests = <<>> => waited = 0
    /\ ending # "no" => \E i \in 1..Len(requests) : requests[i] = ending
    /\ \A i \in Ids : timers[i] # NoTimer => i <= Len(requests)
    /\ \A kind \in noti : \E i \in 1..Len(requests) : requests[i] = kind

(* The inductive invariant. *)
IInv == TypeOK /\ FirstTimerRuns /\ OneAnimation /\ NothingWaitsUnasked

(* Once asked for, the end comes, even if the modem never answers. *)
GoesDown == requests # <<>> ~> down # "no"
=============================================================================
