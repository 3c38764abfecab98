------------------------------ MODULE Handlers ------------------------------
(***************************************************************************)
(* The components that share nothing with one another, checked in one run: *)
(* `component` chooses which of them moves, the others wait in a first     *)
(* state.  What holds of all behaviours of this sum holds of each of them. *)
(***************************************************************************)
EXTENDS Naturals, Sequences

CONSTANTS Clients, Models, MaxCalls, Lines, Pids, Programs, MaxDeaths, Zones

(* Names that stand for none of these are none of these. *)
ASSUME HandlersAssumption ==
    /\ MaxCalls \in Nat /\ MaxDeaths \in Nat
    /\ "nobody" \notin Clients
    /\ {"nothing", "rest"} \intersect Lines = {}
    /\ {"none", "mixed"} \intersect Programs = {}
    /\ "none" \notin Zones

VARIABLES
    component,
    kind, conn, sent, backlog, serving, got, answer, died, status, busy,
    jacks, online, registered, noti, queue, key, locks, missed, slipped, users, borrowed,
    full, health, report, bat_full_noti, helper, tray, lost, misread,
    log, partial, pending, changed, monitored, phase, pos, ok, reported,
    written, raced, early, failed,
    proc, file, watched, deaths, adopting, spoiled,
    link, zone_files, asked, unlinked, linked

S == INSTANCE Sysnoti
D == INSTANCE DeviceChange
C == INSTANCE ChargeNotice
B == INSTANCE BsLog
P == INSTANCE Pmon
T == INSTANCE TimeMgr

sysnotiVars == <<kind, conn, sent, backlog, serving, got, answer, died, status, busy>>
jacksVars == <<jacks, online, registered, noti, queue, key, locks, missed, slipped, users,
              borrowed>>
chargeVars == <<full, health, report, bat_full_noti, helper, tray, lost, misread>>
bsVars == <<log, partial, pending, changed, monitored, phase, pos, ok, reported,
            written, raced, early, failed>>
pmonVars == <<proc, file, watched, deaths, adopting, spoiled>>
timeVars == <<link, zone_files, asked, unlinked, linked>>

allVars == <<component, sysnotiVars, jacksVars, chargeVars, bsVars, pmonVars, timeVars>>

Moves(name) == component = name

FirstProcs == proc = CHOOSE f \in [Pids -> Programs \union {P!None}] :
                  \A g \in Programs : \E p \in Pids :
                      f[p] = g /\ \A q \in Pids : f[q] = g => q = p

(* A component that does not move starts in one of its first states. *)
Init ==
    /\ component \in {"sysnoti", "jacks", "charge", "bs", "pmon", "time"}
    /\ S!Init /\ (Moves("sysnoti") \/ kind \in [Clients -> {"call"}])
    /\ D!Init /\ (Moves("jacks") \/
                     (/\ jacks = (CHOOSE m \in Models : TRUE)
                      /\ online = {} /\ missed \subseteq {"earkey", "keyboard"}
                      /\ slipped \subseteq {"hdmi"}
                      /\ key \in [D!Keyed -> {"off"}]))
    /\ C!Init /\ (Moves("charge") \/ (~full /\ health = "other"))
    /\ B!Init /\ (Moves("bs") \/ log = <<>>)
    /\ P!Init /\ (Moves("pmon") \/ FirstProcs)
    /\ T!Init /\ (Moves("time") \/ zone_files = {})

OnlySysnoti ==
    /\ Moves("sysnoti")
    /\ UNCHANGED <<component, jacksVars, chargeVars, bsVars, pmonVars, timeVars>>
OnlyBs ==
    /\ Moves("bs")
    /\ UNCHANGED <<component, sysnotiVars, jacksVars, chargeVars, pmonVars, timeVars>>

Next ==
    \/ S!Next /\ OnlySysnoti
    \/ /\ D!Next /\ Moves("jacks")
       /\ UNCHANGED <<component, sysnotiVars, chargeVars, bsVars, pmonVars, timeVars>>
    \/ /\ C!Next /\ Moves("charge")
       /\ UNCHANGED <<component, sysnotiVars, jacksVars, bsVars, pmonVars, timeVars>>
    \/ B!Next /\ OnlyBs
    \/ /\ P!Next /\ Moves("pmon")
       /\ UNCHANGED <<component, sysnotiVars, jacksVars, chargeVars, bsVars, timeVars>>
    \/ /\ T!Next /\ Moves("time")
       /\ UNCHANGED <<component, sysnotiVars, jacksVars, chargeVars, bsVars, pmonVars>>

Spec == Init /\ [][Next]_allVars

(* The fairness of Sysnoti!FairSpec and of BsLog!FairSpec. *)
FairSpec ==
    /\ Spec
    /\ WF_allVars(S!Daemon /\ OnlySysnoti)
    /\ WF_allVars(S!RunQueue /\ OnlySysnoti)
    /\ WF_allVars(B!Daemon /\ OnlyBs)
----------------------------------------------------------------------------
(* See OnlyBadRequestsGoWrong of Sysnoti. *)
OnlyBadRequestsGoWrong == S!OnlyBadRequestsGoWrong

(* See OnlyAStalledClientBlocks of Sysnoti. *)
OnlyAStalledClientBlocks == S!OnlyAStalledClientBlocks

(* See KeysSettle of DeviceChange. *)
KeysSettle == D!KeysSettle

(* See LockFollowsPlug of DeviceChange. *)
LockFollowsPlug == D!LockFollowsPlug

(* See FullNoticeSettles of ChargeNotice. *)
FullNoticeSettles == C!FullNoticeSettles

(* See NothingLostQuietly of BsLog. *)
NothingLostQuietly == B!NothingLostQuietly

(* See EveryCrashIsRead of BsLog. *)
EveryCrashIsRead == B!EveryCrashIsRead

(* See PermanentStays of Pmon. *)
PermanentStays == P!PermanentStays

(* See RequestTakesEffect of TimeMgr. *)
RequestTakesEffect == T!RequestTakesEffect
=============================================================================
