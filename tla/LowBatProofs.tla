---------------------------- MODULE LowBatProofs ----------------------------
(* Theorems about the battery monitor, whatever the gauge answers and        *)
(* however many errors its timer survives, and about the popup of the acts  *)
(* it calls, however many of them wait.                                    *)
EXTENDS LowBat, LowBatPopup, TLAPS

(* The bands of the table are the bands the monitor knows (vconf keys). *)
LEMMA BandIsBand ==
    ASSUME NEW c \in 0..BATTERY_FULL
    PROVE  Band(c) \in Bands
BY DEF Band, Bands, BATTERY_FULL, BATTERY_NORMAL, BATTERY_WARNING_LOW,
       BATTERY_CRITICAL_LOW, BATTERY_POWER_OFF, BATTERY_REAL_POWER_OFF

(* The status published for a band is one of the statuses clients know. *)
LEMMA StatusIsStatus ==
    ASSUME NEW c, NEW full \in BOOLEAN
    PROVE  StatusOf(c, full) \in Statuses
BY DEF StatusOf, Statuses

(* The ten rows of the table: one for every way down, none for a way up.    *)
LEMMA TableIsComplete ==
    ASSUME NEW old \in Bands \union {BATTERY_UNKNOWN}, NEW new \in Bands
    PROVE  Called(old, new) =
             IF (old = BATTERY_UNKNOWN \/ new < old) /\ new # BATTERY_NORMAL
             THEN {ActOf(new)} ELSE {}
<1> USE DEF Bands, BATTERY_UNKNOWN, BATTERY_NORMAL, BATTERY_WARNING_LOW,
            BATTERY_CRITICAL_LOW, BATTERY_POWER_OFF, BATTERY_REAL_POWER_OFF
<1>1. \A a : a \in Called(old, new) <=>
          \E r \in lpe : (old = -1 \/ r[1] = old) /\ r[2] = new /\ r[3] = a
  BY DEF Called
<1>2. \A a : a \in Called(old, new) <=>
          /\ (old = -1 \/ new < old) /\ new # 100
          /\ a = ActOf(new)
  <2>1. CASE new = 100
    BY <1>1, <2>1 DEF lpe
  <2>2. CASE new = 15
    BY <1>1, <2>2 DEF lpe, ActOf
  <2>3. CASE new = 5
    BY <1>1, <2>3 DEF lpe, ActOf
  <2>4. CASE new = 1
    BY <1>1, <2>4 DEF lpe, ActOf
  <2>5. CASE new = 0
    BY <1>1, <2>5 DEF lpe, ActOf
  <2> QED
    BY <2>1, <2>2, <2>3, <2>4, <2>5
<1> QED
  BY <1>2

(* A reading above 100 is taken as 100: what is published is a percentage. *)
LEMMA CappedInRange ==
    ASSUME NEW r \in Readings, r >= 0
    PROVE  Capped(r) \in 0..BATTERY_FULL
BY LowBatAssumption DEF Capped, BATTERY_FULL

(* What a reading leaves behind. *)
LEMMA ReadingStep ==
    ASSUME IInv, NEW c \in 0..BATTERY_FULL, LowbatProcess(c), last' = c
    PROVE  /\ cur_bat_capacity' \in -1..BATTERY_FULL /\ capacity' \in -1..BATTERY_FULL
           /\ status' \in Statuses
           /\ cur_bat_state' \in Bands \union {BATTERY_UNKNOWN}
           /\ handled' \in -1..BATTERY_FULL
           /\ interval' \in {BAT_MON_INTERVAL, BAT_MON_INTERVAL_MIN}
           /\ act' = IF Descends THEN ActOf(cur_bat_state') ELSE "none"
           /\ StatusAgrees' /\ CapacityAgrees' /\ SlowOnlyWhenHandled'
<1>1. c \in -1..BATTERY_FULL /\ c # NoReading
  BY DEF BATTERY_FULL, NoReading
<1>2. cur_bat_capacity' \in -1..BATTERY_FULL /\ capacity' \in -1..BATTERY_FULL
  BY <1>1 DEF LowbatProcess, PublishCapacity, IInv, TypeOK
<1>3. CapacityAgrees'
  BY DEF LowbatProcess, PublishCapacity, IInv, CapacityAgrees
<1>4. CASE StatusFails(c)
  <2>1. /\ status' \in Statuses
        /\ cur_bat_state' \in Bands \union {BATTERY_UNKNOWN}
        /\ handled' \in -1..BATTERY_FULL
    BY <1>4, Zenon DEF StatusFails, IInv, TypeOK
  <2>2. interval' = BAT_MON_INTERVAL_MIN /\ act' = "none"
        /\ cur_bat_state' = cur_bat_state
    BY <1>4 DEF StatusFails
  <2>3. StatusAgrees'
    BY <1>4, Zenon DEF StatusFails, IInv, StatusAgrees, NoReading
  <2>4. SlowOnlyWhenHandled'
    BY <2>2 DEF SlowOnlyWhenHandled, BAT_MON_INTERVAL, BAT_MON_INTERVAL_MIN
  <2> QED
    BY <1>2, <1>3, <2>1, <2>2, <2>3, <2>4 DEF Descends
<1>5. CASE StatusPublished(c)
  <2>1. Band(c) \in Bands
    BY BandIsBand
  <2>2. status' \in {StatusOf(c, full) : full \in BOOLEAN} /\ status' \in Statuses
    BY <1>5, StatusIsStatus, Zenon DEF StatusPublished
  <2>3. cur_bat_state' = Band(c) /\ handled' = c
    BY <1>5, Zenon DEF StatusPublished
  <2>4. interval' \in {BAT_MON_INTERVAL, BAT_MON_INTERVAL_MIN}
    BY <1>5 DEF StatusPublished
  <2>8. capacity' = c \/ cur_bat_capacity' # c
    BY DEF LowbatProcess, PublishCapacity, IInv, CapacityAgrees, BATTERY_FULL
  <2>5. StatusAgrees' /\ SlowOnlyWhenHandled'
    BY <1>1, <2>2, <2>3, <2>8 DEF StatusAgrees, SlowOnlyWhenHandled, NoReading
  <2>6. Called(cur_bat_state, Band(c)) =
          IF (cur_bat_state = BATTERY_UNKNOWN \/ Band(c) < cur_bat_state)
               /\ Band(c) # BATTERY_NORMAL
          THEN {ActOf(Band(c))} ELSE {}
    BY <2>1, TableIsComplete DEF IInv, TypeOK
  <2>7. act' = IF Descends THEN ActOf(cur_bat_state') ELSE "none"
    <3>1. ActOf(BATTERY_NORMAL) = "none"
      BY DEF ActOf, BATTERY_NORMAL, BATTERY_REAL_POWER_OFF, BATTERY_POWER_OFF,
             BATTERY_CRITICAL_LOW, BATTERY_WARNING_LOW
    <3>2. \/ act' = "none" /\ cur_bat_state = Band(c)
          \/ act' \in Called(cur_bat_state, Band(c))
          \/ act' = "none" /\ Called(cur_bat_state, Band(c)) = {}
      BY <1>5 DEF StatusPublished
    <3>3. /\ cur_bat_state \in Bands \union {BATTERY_UNKNOWN}
          /\ \A b \in Bands : b \in Int /\ b # BATTERY_UNKNOWN
      BY DEF IInv, TypeOK, Bands, BATTERY_UNKNOWN, BATTERY_NORMAL,
             BATTERY_WARNING_LOW, BATTERY_CRITICAL_LOW, BATTERY_POWER_OFF,
             BATTERY_REAL_POWER_OFF
    <3>4. Descends <=> (cur_bat_state = BATTERY_UNKNOWN \/ Band(c) < cur_bat_state)
      BY <2>1, <2>3, <3>3 DEF Descends
    <3> QED
      BY <2>3, <2>6, <3>1, <3>2, <3>4, <2>1, <3>3
  <2> QED
    BY <1>1, <1>2, <1>3, <2>1, <2>2, <2>3, <2>4, <2>5, <2>7
<1> QED
  BY <1>4, <1>5 DEF LowbatProcess

(* A poll keeps the invariant, whether the gauge and the keys answer or fail. *)
LEMMA MonitorStep ==
    ASSUME IInv, Monitor, UNCHANGED <<level>>,
           healthy' \in BOOLEAN, lowbat_timer' \in {"running", "deleted"}
    PROVE  IInv' /\ act' = IF Descends THEN ActOf(cur_bat_state') ELSE "none"
<1>1. PICK r \in IF healthy THEN {level} ELSE Readings :
          \/ r < 0 /\ ReadFails
          \/ /\ r >= 0
             /\ last' = Capped(r)
             /\ LowbatProcess(Capped(r))
             /\ UNCHANGED bat_err_count
  BY Zenon DEF Monitor
<1>2. r \in Readings /\ level' \in Charge
  BY <1>1 DEF IInv, TypeOK, Charge
<1>3. CASE ReadFails
  <2>1. /\ last' = NoReading /\ interval' = BAT_MON_INTERVAL_MIN /\ act' = "none"
        /\ cur_bat_state' = cur_bat_state /\ cur_bat_capacity' = cur_bat_capacity
        /\ capacity' = capacity /\ status' = status
        /\ handled' = handled
    BY <1>3, Zenon DEF ReadFails
  <2>2. bat_err_count' \in 0..(MAX_BATTERY_ERROR + 1)
    BY <1>3, LowBatAssumption DEF ReadFails, IInv, TypeOK
  <2>3. last' \in -1..BATTERY_FULL
    BY <2>1 DEF NoReading, BATTERY_FULL
  <2>4. TypeOK'
    BY <1>2, <2>1, <2>2, <2>3, Zenon DEF IInv, TypeOK
  <2>5. StatusAgrees' /\ CapacityAgrees'
    BY <2>1, Zenon DEF IInv, StatusAgrees, CapacityAgrees, NoReading
  <2>6. SlowOnlyWhenHandled'
    BY <2>1 DEF SlowOnlyWhenHandled, BAT_MON_INTERVAL, BAT_MON_INTERVAL_MIN
  <2> QED
    BY <2>1, <2>4, <2>5, <2>6 DEF IInv, Descends
<1>4. CASE r >= 0 /\ last' = Capped(r) /\ LowbatProcess(Capped(r)) /\ UNCHANGED bat_err_count
  <2>1. Capped(r) \in 0..BATTERY_FULL
    BY <1>2, <1>4, CappedInRange
  <2>2. last' \in -1..BATTERY_FULL
    BY <1>4, <2>1 DEF BATTERY_FULL
  <2>3. /\ cur_bat_capacity' \in -1..BATTERY_FULL /\ capacity' \in -1..BATTERY_FULL
        /\ status' \in Statuses
        /\ cur_bat_state' \in Bands \union {BATTERY_UNKNOWN}
        /\ handled' \in -1..BATTERY_FULL
        /\ interval' \in {BAT_MON_INTERVAL, BAT_MON_INTERVAL_MIN}
        /\ act' = IF Descends THEN ActOf(cur_bat_state') ELSE "none"
        /\ StatusAgrees' /\ CapacityAgrees' /\ SlowOnlyWhenHandled'
    BY <1>4, <2>1, ReadingStep
  <2>4. act' \in Acts \union {"none"}
    BY <2>3 DEF ActOf, Acts
  <2>5. bat_err_count' \in 0..(MAX_BATTERY_ERROR + 1)
    BY <1>4 DEF IInv, TypeOK
  <2>6. TypeOK'
    BY <1>2, <2>2, <2>3, <2>4, <2>5, Zenon DEF TypeOK
  <2> QED
    BY <2>3, <2>6 DEF IInv
<1> QED
  BY <1>1, <1>3, <1>4

(* What a reading leaves behind while nothing fails (lowbat_process). *)
LEMMA HealthyMonitorStep ==
    ASSUME IInv, Monitor, healthy
    PROVE  /\ capacity' = level
           /\ cur_bat_state' = Band(level)
           /\ status' \in {StatusOf(level, full) : full \in BOOLEAN}
<1>1. level \in 0..BATTERY_FULL
  BY DEF IInv, TypeOK, Charge
<1>2. Capped(level) = level /\ ~(level < 0)
  BY <1>1 DEF Capped, BATTERY_FULL
<1>3. LowbatProcess(level)
  <2>1. PICK r \in IF healthy THEN {level} ELSE Readings :
          \/ r < 0 /\ ReadFails
          \/ /\ r >= 0
             /\ last' = Capped(r)
             /\ LowbatProcess(Capped(r))
             /\ UNCHANGED bat_err_count
    BY Zenon DEF Monitor
  <2>2. r = level
    BY <2>1
  <2> QED
    BY <1>2, <2>1, <2>2
<1>4. StatusPublished(level)
  BY <1>3 DEF LowbatProcess, StatusFails
<1>5. capacity' = level
  BY <1>1, <1>3 DEF LowbatProcess, PublishCapacity, IInv, CapacityAgrees, BATTERY_FULL
<1> QED
  BY <1>4, <1>5, Zenon DEF StatusPublished

(* Every step keeps the invariant and calls the act its band asks for. *)
LEMMA InductiveStep ==
    IInv /\ [Next]_vars =>
        /\ IInv'
        /\ [act' = IF Descends THEN ActOf(cur_bat_state') ELSE "none"]_vars
<1> SUFFICES ASSUME IInv, [Next]_vars
             PROVE  /\ IInv'
                    /\ [act' = IF Descends THEN ActOf(cur_bat_state') ELSE "none"]_vars
  OBVIOUS
<1>1. CASE TimerFires
  <2>1. /\ Monitor /\ level' = level /\ healthy' \in BOOLEAN
        /\ lowbat_timer' \in {"running", "deleted"}
    BY <1>1, Zenon DEF TimerFires, IInv, TypeOK
  <2> QED
    BY <2>1, MonitorStep
<1>2. CASE Poll
  <2>1. /\ Monitor /\ level' = level /\ healthy' \in BOOLEAN
        /\ lowbat_timer' \in {"running", "deleted"}
    BY <1>2, Zenon DEF Poll, IInv, TypeOK
  <2> QED
    BY <2>1, MonitorStep
<1>3. CASE BatteryChanges \/ HealthChanges
  <2>1. /\ level' \in Charge /\ healthy' \in BOOLEAN /\ act' = "none"
        /\ UNCHANGED <<lowbat_timer, interval, bat_err_count, cur_bat_state,
                       cur_bat_capacity, capacity, status, last, handled>>
    BY <1>3, Zenon DEF BatteryChanges, HealthChanges, IInv, TypeOK
  <2>2. TypeOK'
    BY <2>1, Zenon DEF IInv, TypeOK
  <2>3. StatusAgrees' /\ CapacityAgrees' /\ SlowOnlyWhenHandled'
    BY <2>1, Zenon DEF IInv, StatusAgrees, CapacityAgrees, SlowOnlyWhenHandled, NoReading
  <2> QED
    BY <2>1, <2>2, <2>3 DEF IInv, Descends
<1>4. CASE UNCHANGED vars
  <2>1. TypeOK'
    BY <1>4, Zenon DEF IInv, TypeOK, vars
  <2>2. StatusAgrees' /\ CapacityAgrees' /\ SlowOnlyWhenHandled'
    BY <1>4, Zenon DEF IInv, StatusAgrees, CapacityAgrees, SlowOnlyWhenHandled,
                        NoReading, vars
  <2> QED
    BY <1>4, <2>1, <2>2 DEF IInv
<1> QED
  BY <1>1, <1>2, <1>3, <1>4 DEF Next

(* The monitor starts with nothing published and no band. *)
LEMMA InitIInv == Init => IInv
<1> SUFFICES ASSUME Init PROVE IInv
  OBVIOUS
<1>1. /\ level \in Charge /\ healthy \in BOOLEAN
      /\ status \in Statuses
  BY Zenon DEF Init
<1>2. /\ bat_err_count \in 0..(MAX_BATTERY_ERROR + 1)
      /\ cur_bat_capacity \in -1..BATTERY_FULL /\ capacity \in -1..BATTERY_FULL
      /\ last \in -1..BATTERY_FULL /\ handled \in -1..BATTERY_FULL
  BY LowBatAssumption DEF Init, BATTERY_FULL, NoReading
<1>3. /\ lowbat_timer \in {"running", "deleted"}
      /\ interval \in {BAT_MON_INTERVAL, BAT_MON_INTERVAL_MIN}
      /\ cur_bat_state \in Bands \union {BATTERY_UNKNOWN}
      /\ act \in Acts \union {"none"}
  BY Zenon DEF Init
<1>4. TypeOK
  BY <1>1, <1>2, <1>3, Zenon DEF TypeOK
<1>5. StatusAgrees /\ CapacityAgrees
  BY Zenon DEF Init, StatusAgrees, CapacityAgrees
<1>6. SlowOnlyWhenHandled
  BY DEF Init, SlowOnlyWhenHandled, BAT_MON_INTERVAL, BAT_MON_INTERVAL_MIN
<1> QED
  BY <1>4, <1>5, <1>6 DEF IInv

(* The inductive invariant of ss_lowbat_monitor and its timer: capacity,    *)
(* status, band and interval agree after every poll and failed write.       *)
THEOREM Invariance == Spec => []IInv
BY InitIInv, InductiveStep, PTL DEF Spec

(* However reading the gauge and setting the keys fails in between, the      *)
(* published status and the monitor's band are of one reading.              *)
THEOREM StatusIsOfOneReading == Spec => []StatusAgrees
BY Invariance, PTL DEF IInv

(* Clients read the capacity the monitor compares with. *)
THEOREM CapacityIsPublished == Spec => []CapacityAgrees
BY Invariance, PTL DEF IInv

(* The long interval is only for a reading whose status and band are set;    *)
(* a capacity that could not be set is not taken for published (lines 157,  *)
(* 264).                                                                   *)
THEOREM SlowMeansHandled == Spec => []SlowOnlyWhenHandled
BY Invariance, PTL DEF IInv

(* Whatever readings and keys failed before, a reading of which nothing fails *)
(* leaves capacity, status and band of the charge (lowbat_process).         *)
THEOREM OneHealthyReadingRepairs == Spec => HealthyReadingRepairs
<1>1. IInv /\ [Next]_vars =>
        [(TimerFires \/ Poll) /\ healthy =>
            /\ capacity' = level
            /\ cur_bat_state' = Band(level)
            /\ status' \in {StatusOf(level, full) : full \in BOOLEAN}]_vars
  BY HealthyMonitorStep, Zenon DEF TimerFires, Poll
<1> QED
  BY <1>1, Invariance, PTL DEF Spec, HealthyReadingRepairs

(* The ten rows of the table call the right act for every way down.          *)
THEOREM EveryDescentCalls == Spec => DescentCalls
BY Invariance, InductiveStep, PTL DEF Spec, DescentCalls
----------------------------------------------------------------------------
(* The invariant of the popup and its timer. *)
LEMMA PopupInvariance == PopupSpec => []PopupIInv
<1> USE LowBatPopupAssumption DEF PopupIInv, PopupTypeOK, LatestRunIsShown, OnScreen,
              TimerHasContent, Contents, Acted
<1>1. PopupInit => PopupIInv
  <2> SUFFICES ASSUME PopupInit PROVE PopupIInv
    OBVIOUS
  <2>1. calls \in Seq(Acted) /\ Len(calls) = 0 /\ MaxCalls \in Nat
    BY DEF PopupInit
  <2>2. /\ {option, popup, last_run} \subseteq Contents \union {"none"}
        /\ sweeping \in BOOLEAN /\ popup_timer \in BOOLEAN /\ booting \in BOOLEAN
        /\ launch_failed \in BOOLEAN /\ warned \in BOOLEAN
    BY DEF PopupInit
  <2>3. Len(calls) <= MaxCalls
    BY <2>1
  <2>4. last_run = "none" /\ ~popup_timer
    BY DEF PopupInit
  <2> QED
    BY <2>1, <2>2, <2>3, <2>4
<1>2. PopupIInv /\ [PopupNext]_popupVars => PopupIInv'
  <2> SUFFICES ASSUME PopupIInv, [PopupNext]_popupVars PROVE PopupIInv'
    OBVIOUS
  <2>1. CASE RunNewest
    <3>1. /\ Last(calls) \in Acted
          /\ Front(calls) \in Seq(Acted) /\ Len(Front(calls)) <= MaxCalls
      BY <2>1 DEF RunNewest, RunAct, RunUsbcon, Last, Front
    <3>2. CASE RunAct
      BY <3>1, <3>2 DEF RunAct
    <3>3. CASE RunUsbcon
      <4>1. /\ UNCHANGED <<popup_timer, option, booting, last_run, launch_failed>>
            /\ calls' = Front(calls) /\ sweeping' \in BOOLEAN
            /\ \/ popup' = "warning" /\ warned' = TRUE
               \/ popup' = popup /\ warned' = warned
        BY <3>3 DEF RunUsbcon
      <4>2. CASE popup' = "warning" /\ warned' = TRUE
        BY <3>1, <4>1, <4>2
      <4>3. CASE popup' = popup /\ warned' = warned
        BY <3>1, <4>1, <4>3
      <4> QED
        BY <4>1, <4>2, <4>3
    <3> QED
      BY <2>1, <3>2, <3>3 DEF RunNewest
  <2>2. CASE LowbatPopup
    BY <2>2 DEF LowbatPopup
  <2>3. ASSUME NEW content \in Acted, Call(content) PROVE PopupIInv'
    BY <2>3 DEF Call
  <2>4. CASE BootEnds
    BY <2>4 DEF BootEnds
  <2>5. CASE TaUnplugged
    BY <2>5 DEF TaUnplugged
  <2>6. CASE UNCHANGED popupVars
    BY <2>6 DEF popupVars
  <2> QED
    BY <2>1, <2>2, <2>3, <2>4, <2>5, <2>6 DEF PopupNext
<1> QED
  BY <1>1, <1>2, PTL DEF PopupSpec

(* The act of a low battery that ran last is on the screen, or on its way  *)
(* there, or has failed; only an unplugging puts its warning in its place.  *)
THEOREM PopupOfTheLastAct == PopupSpec => []LatestRunIsShown
BY PopupInvariance, PTL DEF PopupIInv

(* The timer of a popup never fires with nothing to show. *)
THEOREM TimersHaveContent == PopupSpec => []TimerHasContent
BY PopupInvariance, PTL DEF PopupIInv
=============================================================================
