------------------------------- MODULE LowMem -------------------------------
(***************************************************************************)
(* The low memory handler (ss_lowmem_handler.c).  The kernel's memnotify   *)
(* device holds the current level and wakes the daemon when it changes;    *)
(* the daemon acts on the pair of the level it knew and the level it       *)
(* reads, publishes the level in a vconf key, and while memory is critical *)
(* repeats the out-of-memory action on a timer.                            *)
(*                                                                         *)
(* One tick of the model is a second.  A timer that is due fires before    *)
(* the next second passes.                                                 *)
(***************************************************************************)
EXTENDS Integers

CONSTANTS
    Levels,              \* the levels the device reports
    OOM_TIMER_INTERVAL,  \* seconds between two out-of-memory actions: 5
    CLEANUP_INTERVAL     \* seconds no second cleanup happens in: 15

ASSUME LowMemAssumption ==
    /\ "NORMAL" \in Levels
    /\ Levels \subseteq {"NORMAL", "LOW", "CRITICAL", "REBOOT"}
    /\ OOM_TIMER_INTERVAL \in Nat \ {0}
    /\ CLEANUP_INTERVAL \in Nat

NoTimer == -1

(* Bound: longer than any time that has to be told apart. *)
LongAgo == CLEANUP_INTERVAL + OOM_TIMER_INTERVAL + 1

VARIABLES
    level,          \* the level the device holds
    readable,       \* the device has a level the daemon has not read
    cur_mem_state,  \* the level the daemon knows
    oom_timer,      \* seconds until oom_timer fires, or NoTimer
    since,          \* time(NULL) - oom_delete_sm_time, up to LongAgo
    low_memory,     \* the vconf key clients read
    set_failed,     \* history: the last vconf_set_int failed
    off_table,      \* history: REBOOT has come or gone since a row of the table applied
    clock_set       \* history: the clock was set since the last cleanup

vars == <<level, readable, cur_mem_state, oom_timer, since, low_memory,
          set_failed, off_table, clock_set>>

TypeOK ==
    /\ level \in Levels
    /\ readable \in BOOLEAN
    /\ cur_mem_state \in Levels
    /\ oom_timer \in NoTimer..OOM_TIMER_INTERVAL
    /\ since \in 0..LongAgo
    /\ low_memory \in {"NORMAL", "SOFT_WARNING", "HARD_WARNING"}
    /\ set_failed \in BOOLEAN
    /\ off_table \in BOOLEAN
    /\ clock_set \in BOOLEAN

Init ==
    /\ level \in Levels
    /\ readable = (level # "NORMAL")
    /\ cur_mem_state = "NORMAL"
    /\ oom_timer = NoTimer
    /\ since = LongAgo
    /\ low_memory = "NORMAL"
    /\ set_failed = FALSE
    /\ off_table = FALSE
    /\ clock_set = FALSE

(* lpe[]: the pairs of levels the handler acts on. *)
Act(old, new) ==
    CASE new = "LOW" /\ old = "NORMAL"                         -> "low"
      [] new = "CRITICAL" /\ old \in {"NORMAL", "LOW", "CRITICAL"} -> "oom"
      [] new = "NORMAL" /\ old \in {"LOW", "CRITICAL"}          -> "normal"
      [] OTHER                                                 -> "none"

(* vconf_set_int, whose result no caller looks at. *)
Publish(value) ==
    \/ low_memory' = value /\ set_failed' = FALSE
    \/ UNCHANGED low_memory /\ set_failed' = TRUE

(* Mutant: a cleanup only when one timer interval more has passed. *)
OomActLate ==
    /\ IF since > CLEANUP_INTERVAL + OOM_TIMER_INTERVAL
       THEN since' = 0 /\ clock_set' = FALSE
       ELSE UNCHANGED <<since, clock_set>>
    /\ Publish("HARD_WARNING")

(* memory_oom_act: shared memory is cleaned up when the last cleanup is    *)
(* more than CLEANUP_INTERVAL ago.                                         *)
OomAct ==
    /\ IF since > CLEANUP_INTERVAL
       THEN since' = 0 /\ clock_set' = FALSE
       ELSE UNCHANGED <<since, clock_set>>
    /\ Publish("HARD_WARNING")

(* lowmem_process, with the act of the table. *)
Perform(act) ==
    CASE act = "low"    -> Publish("SOFT_WARNING") /\ UNCHANGED <<since, clock_set>>
      [] act = "oom"    -> OomAct
      [] act = "normal" -> Publish("NORMAL") /\ UNCHANGED <<since, clock_set>>
      [] OTHER          -> UNCHANGED <<since, clock_set, low_memory, set_failed>>

(* No row of the table has the level REBOOT. *)
OffTable(act) ==
    off_table' = IF act # "none" THEN FALSE
                 ELSE off_table \/ "REBOOT" \in {cur_mem_state, level}

(* Mutant: the timer is started but never deleted. *)
LowmemCbKeepsTimer ==
    /\ readable
    /\ readable' = FALSE
    /\ LET act == Act(cur_mem_state, level)
       IN  /\ Perform(act)
           /\ OffTable(act)
           /\ oom_timer' = IF act = "oom" THEN OOM_TIMER_INTERVAL ELSE oom_timer
    /\ cur_mem_state' = level
    /\ UNCHANGED level

(* lowmem_cb. *)
LowmemCb ==
    /\ readable
    /\ readable' = FALSE
    /\ LET act == Act(cur_mem_state, level)
       IN  /\ Perform(act)
           /\ OffTable(act)
           /\ oom_timer' = IF act = "none" THEN oom_timer
                           ELSE IF level = "CRITICAL" THEN OOM_TIMER_INTERVAL
                           ELSE NoTimer
    /\ cur_mem_state' = level
    /\ UNCHANGED level

(* Mutant: the callback of the timer returns 0. *)
OomTimerOnce ==
    /\ oom_timer = 0
    /\ OomAct
    /\ oom_timer' = NoTimer
    /\ UNCHANGED <<level, readable, cur_mem_state, off_table>>

(* The timer calls memory_oom_act, which returns 1: the timer goes on. *)
OomTimer ==
    /\ oom_timer = 0
    /\ OomAct
    /\ oom_timer' = OOM_TIMER_INTERVAL
    /\ UNCHANGED <<level, readable, cur_mem_state, off_table>>

----------------------------------------------------------------------------
(* The device holds one level: what it held before is lost when not read.  *)
(* It reports a critical level again when memory stays critical.           *)
MemNotify(l) ==
    /\ l # level \/ l = "CRITICAL"
    /\ level' = l
    /\ readable' = TRUE
    /\ UNCHANGED <<cur_mem_state, oom_timer, since, low_memory, set_failed, off_table,
                   clock_set>>

Tick ==
    /\ oom_timer # 0
    /\ oom_timer' = IF oom_timer = NoTimer THEN NoTimer ELSE oom_timer - 1
    /\ since' = IF since = LongAgo THEN LongAgo ELSE since + 1
    /\ UNCHANGED <<level, readable, cur_mem_state, low_memory, set_failed, off_table, clock_set>>

(* The user sets the date: time(NULL) jumps; back beyond the last cleanup   *)
(* the unsigned difference is huge.                                        *)
ClockSet(s) ==
    /\ since' = s
    /\ clock_set' = TRUE
    /\ UNCHANGED <<level, readable, cur_mem_state, oom_timer, low_memory, set_failed, off_table>>

Next == \/ LowmemCb \/ OomTimer \/ Tick
        \/ \E l \in Levels : MemNotify(l)
        \/ \E s \in 0..LongAgo : ClockSet(s)

Spec == Init /\ [][Next]_vars

(* The main loop serves the device and its timers, and time passes. *)
FairSpec == Spec /\ WF_vars(LowmemCb) /\ WF_vars(OomTimer) /\ WF_vars(Tick)
----------------------------------------------------------------------------
(* While the daemon knows memory to be critical its timer runs, and once    *)
(* it knows memory to be normal no timer is left that would go on killing.  *)
(* REBOOT, a level the code names (ss_lowmem_handler.c:39), has no row: on  *)
(* its way in and out the timer stays what it was, until a row applies.    *)
TimerFollowsLevel ==
    ~off_table =>
        /\ cur_mem_state = "CRITICAL" => oom_timer # NoTimer
        /\ cur_mem_state = "NORMAL"   => oom_timer = NoTimer

(* Clients are told: the key says normal exactly when the handler knows    *)
(* memory to be normal, and critical memory is a hard warning -- unless    *)
(* the last write of the key failed, or REBOOT came between (see above).    *)
ClientsAreTold ==
    ~set_failed /\ ~off_table =>
        /\ low_memory = "NORMAL" <=> cur_mem_state = "NORMAL"
        /\ cur_mem_state = "CRITICAL" => low_memory = "HARD_WARNING"

(* With the timer running, shared memory is cleaned up at least every      *)
(* CLEANUP_INTERVAL + OOM_TIMER_INTERVAL seconds, however notifications    *)
(* restart the timer; setting the clock may delay one cleanup.             *)
CleanupNotStarved ==
    oom_timer # NoTimer /\ ~clock_set => since <= CLEANUP_INTERVAL + OOM_TIMER_INTERVAL

(* What a running timer leaves to the next cleanup, strong enough to be     *)
(* inductive: the time since the last one and until the timer fires.        *)
CleanupInReach ==
    oom_timer # NoTimer /\ ~clock_set =>
        since + oom_timer <= CLEANUP_INTERVAL + OOM_TIMER_INTERVAL

(* The inductive invariant. *)
IInv == TypeOK /\ TimerFollowsLevel /\ ClientsAreTold /\ CleanupInReach

ActsOnCritical == OomTimer \/ (LowmemCb /\ level = "CRITICAL")

(* A level that stays is handled, and the actions repeat as long as it is  *)
(* critical, unless it was entered from REBOOT.                            *)
CriticalKeepsActing ==
    <>[](level = "CRITICAL") =>
        \/ <>[]off_table
        \/ []<><<ActsOnCritical>>_vars

(* Of endlessly many writes of the key endlessly many succeed. *)
KeyRecovers ==
    []<><<ActsOnCritical>>_vars => []<><<ActsOnCritical /\ ~set_failed'>>_vars

(* A write of the key that fails is not tried again by itself               *)
(* (ss_lowmem_handler.c:162, nobody looks at its result).  What makes up for *)
(* it is the timer: while memory stays critical clients are told in the end, *)
(* whichever writes failed before, unless it was entered from REBOOT.       *)
CriticalIsPublished ==
    <>[](level = "CRITICAL") /\ KeyRecovers =>
        <>[]off_table \/ <>[](low_memory = "HARD_WARNING")
=============================================================================
