--------------------------- MODULE LowMemProofs ----------------------------
(* Theorems about LowMem, for any intervals and any set of levels, REBOOT   *)
(* included.                                                               *)
EXTENDS LowMem, TLAPS

(* Every step keeps the types, and leaves the next cleanup in reach of the   *)
(* timer, whatever the device reports.                                     *)
LEMMA ReachStep ==
    TypeOK /\ CleanupInReach /\ [Next]_vars => TypeOK' /\ CleanupInReach'
<1> SUFFICES ASSUME TypeOK, CleanupInReach, [Next]_vars
             PROVE  TypeOK' /\ CleanupInReach'
  OBVIOUS
<1> USE LowMemAssumption DEF TypeOK, NoTimer, LongAgo
<1>1. CASE LowmemCb
  <2> DEFINE act == Act(cur_mem_state, level)
  <2>1. \/ act = "oom" /\ level = "CRITICAL"
        \/ act \in {"low", "normal"} /\ level # "CRITICAL"
        \/ act = "none"
    BY DEF Act
  <2>2. /\ Perform(act)
        /\ oom_timer' = IF act = "none" THEN oom_timer
                        ELSE IF level = "CRITICAL" THEN OOM_TIMER_INTERVAL
                        ELSE NoTimer
        /\ cur_mem_state' = level /\ level' = level /\ readable' = FALSE
    BY <1>1 DEF LowmemCb
  <2> HIDE DEF act
  <2>3. TypeOK'
    <3>1. since' = since \/ since' = 0
      BY <2>1, <2>2 DEF Perform, OomAct
    <3>2. clock_set' = clock_set \/ clock_set' = FALSE
      BY <2>1, <2>2 DEF Perform, OomAct
    <3>3. low_memory' \in {low_memory, "NORMAL", "SOFT_WARNING", "HARD_WARNING"}
      BY <2>1, <2>2 DEF Perform, OomAct, Publish
    <3>4. set_failed' \in {set_failed, TRUE, FALSE}
      BY <2>1, <2>2 DEF Perform, OomAct, Publish
    <3>a. off_table' \in BOOLEAN
      BY <1>1, Zenon DEF LowmemCb, OffTable
    <3>5. oom_timer' \in NoTimer..OOM_TIMER_INTERVAL
      BY <2>2
    <3>6. level' \in Levels /\ readable' \in BOOLEAN /\ cur_mem_state' \in Levels
      BY <2>2, Zenon
    <3>7. clock_set' \in BOOLEAN /\ set_failed' \in BOOLEAN
      BY <3>2, <3>4, Zenon
    <3>8. since' \in 0..LongAgo
      BY <3>1
    <3>9. low_memory' \in {"NORMAL", "SOFT_WARNING", "HARD_WARNING"}
      BY <3>3
    <3> QED
      BY <3>a, <3>5, <3>6, <3>7, <3>8, <3>9, Zenon DEF TypeOK
  <2>4. CleanupInReach'
    BY <2>1, <2>2 DEF Perform, OomAct, CleanupInReach
  <2> QED
    BY <2>3, <2>4
<1>2. CASE OomTimer
  <2>1. TypeOK'
    <3>1. since' = since \/ since' = 0
      BY <1>2 DEF OomTimer, OomAct
    <3>2. clock_set' = clock_set \/ clock_set' = FALSE
      BY <1>2 DEF OomTimer, OomAct
    <3>3. low_memory' \in {low_memory, "HARD_WARNING"}
      BY <1>2 DEF OomTimer, OomAct, Publish
    <3>4. set_failed' \in {TRUE, FALSE}
      BY <1>2 DEF OomTimer, OomAct, Publish
    <3>5. /\ level' \in Levels /\ readable' \in BOOLEAN /\ cur_mem_state' \in Levels
          /\ off_table' \in BOOLEAN
      BY <1>2, Zenon DEF OomTimer
    <3>6. clock_set' \in BOOLEAN /\ set_failed' \in BOOLEAN
      BY <3>2, <3>4, Zenon
    <3>7. oom_timer' \in NoTimer..OOM_TIMER_INTERVAL
      BY <1>2 DEF OomTimer
    <3>8. since' \in 0..LongAgo
      BY <3>1
    <3>9. low_memory' \in {"NORMAL", "SOFT_WARNING", "HARD_WARNING"}
      BY <3>3
    <3> QED
      BY <3>5, <3>6, <3>7, <3>8, <3>9, Zenon DEF TypeOK
  <2>2. CleanupInReach'
    BY <1>2 DEF OomTimer, OomAct, CleanupInReach
  <2> QED
    BY <2>1, <2>2
<1>3. CASE Tick
  BY <1>3 DEF Tick, CleanupInReach
<1>4. ASSUME NEW l \in Levels, MemNotify(l) PROVE TypeOK' /\ CleanupInReach'
  BY <1>4 DEF MemNotify, CleanupInReach
<1>5. ASSUME NEW s \in 0..LongAgo, ClockSet(s) PROVE TypeOK' /\ CleanupInReach'
  BY <1>5 DEF ClockSet, CleanupInReach
<1>6. CASE UNCHANGED vars
  BY <1>6 DEF vars, CleanupInReach
<1> QED
  BY <1>1, <1>2, <1>3, <1>4, <1>5, <1>6 DEF Next

LEMMA FirstInReach == Init => TypeOK /\ CleanupInReach
<1> SUFFICES ASSUME Init PROVE TypeOK /\ CleanupInReach
  OBVIOUS
<1>1. /\ readable \in BOOLEAN /\ set_failed \in BOOLEAN /\ clock_set \in BOOLEAN
      /\ off_table \in BOOLEAN
  BY Zenon DEF Init
<1>2. level \in Levels /\ cur_mem_state \in Levels
  BY LowMemAssumption DEF Init
<1>3. oom_timer \in NoTimer..OOM_TIMER_INTERVAL /\ since \in 0..LongAgo
  BY LowMemAssumption DEF Init, NoTimer, LongAgo
<1>4. low_memory \in {"NORMAL", "SOFT_WARNING", "HARD_WARNING"}
  BY DEF Init
<1>5. TypeOK
  BY <1>1, <1>2, <1>3, <1>4, Zenon DEF TypeOK
<1>6. CleanupInReach
  BY DEF Init, CleanupInReach
<1> QED
  BY <1>5, <1>6

(* Cleanups keep coming, for any two intervals and whatever the device       *)
(* reports, a level the table does not know included (memory_oom_act).     *)
THEOREM CleanupsKeepComing == Spec => []CleanupNotStarved
<1>1. TypeOK /\ CleanupInReach => CleanupNotStarved
  BY LowMemAssumption DEF TypeOK, NoTimer, LongAgo, CleanupInReach, CleanupNotStarved
<1> QED
  BY <1>1, FirstInReach, ReachStep, PTL DEF Spec

----------------------------------------------------------------------------
(* A handled level leads from one consistent state to the next. *)
LEMMA InductiveStep == IInv /\ [Next]_vars => IInv'
<1> SUFFICES ASSUME IInv, [Next]_vars PROVE TimerFollowsLevel' /\ ClientsAreTold'
  BY ReachStep DEF IInv
<1> USE LowMemAssumption DEF IInv, TypeOK, NoTimer, LongAgo
<1>1. CASE LowmemCb
  <2> DEFINE act == Act(cur_mem_state, level)
  <2>1. \/ act = "low" /\ level = "LOW" /\ cur_mem_state = "NORMAL"
        \/ act = "oom" /\ level = "CRITICAL"
        \/ act = "normal" /\ level = "NORMAL"
        \/ act = "none" /\ level = cur_mem_state /\ level # "CRITICAL"
        \/ act = "none" /\ level = "LOW" /\ cur_mem_state = "CRITICAL"
        \/ act = "none" /\ "REBOOT" \in {cur_mem_state, level}
    BY DEF Act
  <2>2. /\ Perform(act)
        /\ oom_timer' = IF act = "none" THEN oom_timer
                        ELSE IF level = "CRITICAL" THEN OOM_TIMER_INTERVAL
                        ELSE NoTimer
        /\ cur_mem_state' = level
        /\ off_table' = IF act # "none" THEN FALSE
                        ELSE off_table \/ "REBOOT" \in {cur_mem_state, level}
    BY <1>1 DEF LowmemCb, OffTable
  <2> HIDE DEF act
  <2>3. TimerFollowsLevel'
    <3> SUFFICES ASSUME ~off_table'
                 PROVE  /\ level = "CRITICAL" => oom_timer' # NoTimer
                        /\ level = "NORMAL" => oom_timer' = NoTimer
      BY <2>2 DEF TimerFollowsLevel
    <3>1. act # "none" \/ (~off_table /\ "REBOOT" \notin {cur_mem_state, level})
      BY <2>2, Zenon
    <3>2. CASE act # "none"
      BY <2>1, <2>2, <3>2
    <3>3. CASE act = "none" /\ ~off_table /\ "REBOOT" \notin {cur_mem_state, level}
      BY <2>1, <2>2, <3>3 DEF TimerFollowsLevel
    <3> QED
      BY <3>1, <3>2, <3>3
  <2>4. ClientsAreTold'
    BY <2>1, <2>2 DEF Perform, OomAct, Publish, ClientsAreTold
  <2> QED
    BY <2>3, <2>4
<1>2. CASE OomTimer
  <2>1. TimerFollowsLevel'
    BY <1>2 DEF OomTimer, TimerFollowsLevel
  <2>2. ClientsAreTold'
    BY <1>2 DEF OomTimer, OomAct, Publish, ClientsAreTold, TimerFollowsLevel
  <2> QED
    BY <2>1, <2>2
<1>3. CASE Tick
  BY <1>3 DEF Tick, TimerFollowsLevel, ClientsAreTold
<1>4. ASSUME NEW l \in Levels, MemNotify(l) PROVE TimerFollowsLevel' /\ ClientsAreTold'
  BY <1>4 DEF MemNotify, TimerFollowsLevel, ClientsAreTold
<1>5. ASSUME NEW s \in 0..LongAgo, ClockSet(s) PROVE TimerFollowsLevel' /\ ClientsAreTold'
  BY <1>5 DEF ClockSet, TimerFollowsLevel, ClientsAreTold
<1>6. CASE UNCHANGED vars
  BY <1>6 DEF vars, TimerFollowsLevel, ClientsAreTold
<1> QED
  BY <1>1, <1>2, <1>3, <1>4, <1>5, <1>6 DEF Next

(* The inductive invariant of the low memory handler (lowmem_process).      *)
THEOREM Invariance == Spec => []IInv
<1>1. Init => IInv
  BY FirstInReach DEF Init, IInv, TimerFollowsLevel, ClientsAreTold
<1> QED
  BY <1>1, InductiveStep, PTL DEF Spec

(* The timer that goes on killing runs while memory is critical and never   *)
(* when the handler knows memory to be normal, unless REBOOT has come or    *)
(* gone since a row of the table applied (ss_lowmem_handler.c:180-192).      *)
THEOREM TimerIsRight == Spec => []TimerFollowsLevel
BY Invariance, PTL DEF IInv

(* The published level is the known one, unless its write failed or REBOOT  *)
(* came between (memory_low_act, memory_oom_act, memory_normal_act).         *)
THEOREM PublishedIsKnown == Spec => []ClientsAreTold
BY Invariance, PTL DEF IInv
=============================================================================
