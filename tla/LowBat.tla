------------------------------- MODULE LowBat -------------------------------
(***************************************************************************)
(* The battery monitor (ss_lowbat_handler.c).  A timer, the display going   *)
(* off and the notifications of the USB port, the charger and the gauge     *)
(* all read the gauge; a reading publishes the capacity and a status in     *)
(* vconf keys, moves the monitor to the band the capacity lies in, and      *)
(* calls a lowbat act of the run queue when the band is a lower one.        *)
(*                                                                         *)
(* act is what the last step called; LowBatPopup says what becomes of it.   *)
(***************************************************************************)
EXTENDS Integers

CONSTANTS
    Readings,           \* what the gauge may answer, garbage included
    MAX_BATTERY_ERROR   \* readings below 0 the timer survives: 10

ASSUME LowBatAssumption ==
    /\ Readings \subseteq Int
    /\ MAX_BATTERY_ERROR \in Nat

BATTERY_UNKNOWN        == -1
BATTERY_FULL           == 100
BATTERY_NORMAL         == 100
BATTERY_WARNING_LOW    == 15
BATTERY_CRITICAL_LOW   == 5
BATTERY_POWER_OFF      == 1
BATTERY_REAL_POWER_OFF == 0

BAT_MON_INTERVAL     == 30
BAT_MON_INTERVAL_MIN == 2

Bands == {BATTERY_NORMAL, BATTERY_WARNING_LOW, BATTERY_CRITICAL_LOW,
          BATTERY_POWER_OFF, BATTERY_REAL_POWER_OFF}
Statuses == {"FULL", "NORMAL", "WARNING_LOW", "CRITICAL_LOW", "POWER_OFF"}
Acts == {"warning", "critical", "poweroff"}

(* History: no reading yet. *)
NoReading == -1

VARIABLES
    level,             \* the charge of the battery
    healthy,           \* the gauge and vconf work; otherwise they may fail
    lowbat_timer,      \* "running", or "deleted" after too many errors
    interval,          \* the interval last set on the timer
    bat_err_count,     \* readings below 0 so far; past the limit they are one
    cur_bat_state,     \* the band the monitor is in
    cur_bat_capacity,  \* the capacity it published last
    capacity,          \* vconf: battery capacity
    status,            \* vconf: battery status
    act,               \* the lowbat act the last step called, or "none"
    last,              \* history: the last reading, capped at 100
    handled            \* history: the last reading handled to the end

vars == <<level, healthy, lowbat_timer, interval, bat_err_count, cur_bat_state,
          cur_bat_capacity, capacity, status, act, last, handled>>

Charge == Readings \cap 0..BATTERY_FULL

TypeOK ==
    /\ level \in Charge
    /\ healthy \in BOOLEAN
    /\ lowbat_timer \in {"running", "deleted"}
    /\ interval \in {BAT_MON_INTERVAL, BAT_MON_INTERVAL_MIN}
    /\ bat_err_count \in 0..(MAX_BATTERY_ERROR + 1)
    /\ cur_bat_state \in Bands \union {BATTERY_UNKNOWN}
    /\ cur_bat_capacity \in -1..BATTERY_FULL
    /\ capacity \in -1..BATTERY_FULL
    /\ status \in Statuses
    /\ act \in Acts \union {"none"}
    /\ last \in -1..BATTERY_FULL
    /\ handled \in -1..BATTERY_FULL

(* The keys hold what the last run of the daemon left in them. *)
Init ==
    /\ level \in Charge
    /\ healthy \in BOOLEAN
    /\ lowbat_timer = "running"
    /\ interval = BAT_MON_INTERVAL_MIN
    /\ bat_err_count = 0
    /\ cur_bat_state = BATTERY_UNKNOWN
    /\ cur_bat_capacity = -1
    /\ capacity = -1
    /\ status \in Statuses
    /\ act = "none"
    /\ last = NoReading
    /\ handled = NoReading
----------------------------------------------------------------------------
(* lpe[]: the changes of the band that call an act. *)
lpe == {
    <<BATTERY_NORMAL,       BATTERY_WARNING_LOW,    "warning">>,
    <<BATTERY_WARNING_LOW,  BATTERY_CRITICAL_LOW,   "critical">>,
    <<BATTERY_CRITICAL_LOW, BATTERY_POWER_OFF,      "critical">>,
    <<BATTERY_POWER_OFF,    BATTERY_REAL_POWER_OFF, "poweroff">>,
    <<BATTERY_NORMAL,       BATTERY_CRITICAL_LOW,   "critical">>,
    <<BATTERY_WARNING_LOW,  BATTERY_POWER_OFF,      "critical">>,
    <<BATTERY_CRITICAL_LOW, BATTERY_REAL_POWER_OFF, "poweroff">>,
    <<BATTERY_NORMAL,       BATTERY_POWER_OFF,      "critical">>,
    <<BATTERY_WARNING_LOW,  BATTERY_REAL_POWER_OFF, "poweroff">>,
    <<BATTERY_NORMAL,       BATTERY_REAL_POWER_OFF, "poweroff">> }

(* Mutant: from the normal band only the next one is looked for. *)
CalledByNeighbour(old, new) ==
    {row[3] : row \in {r \in lpe : /\ old = BATTERY_UNKNOWN \/ r[1] = old
                                   /\ r[2] = new
                                   /\ r[1] # BATTERY_NORMAL \/ r[2] = BATTERY_WARNING_LOW}}

(* The acts of the rows that match; from the unknown band only the new one  *)
(* is compared.                                                            *)
Called(old, new) ==
    {row[3] : row \in {r \in lpe : /\ old = BATTERY_UNKNOWN \/ r[1] = old
                                   /\ r[2] = new}}

Band(c) ==
    CASE c <= BATTERY_REAL_POWER_OFF -> BATTERY_REAL_POWER_OFF
      [] c > BATTERY_REAL_POWER_OFF /\ c <= BATTERY_POWER_OFF -> BATTERY_POWER_OFF
      [] c > BATTERY_POWER_OFF /\ c <= BATTERY_CRITICAL_LOW -> BATTERY_CRITICAL_LOW
      [] c > BATTERY_CRITICAL_LOW /\ c <= BATTERY_WARNING_LOW -> BATTERY_WARNING_LOW
      [] OTHER -> BATTERY_NORMAL

(* The status of a capacity, with what the gauge says of a full battery. *)
StatusOf(c, full) ==
    CASE Band(c) \in {BATTERY_REAL_POWER_OFF, BATTERY_POWER_OFF} -> "POWER_OFF"
      [] Band(c) = BATTERY_CRITICAL_LOW -> "CRITICAL_LOW"
      [] Band(c) = BATTERY_WARNING_LOW  -> "WARNING_LOW"
      [] OTHER -> IF c = BATTERY_FULL /\ full THEN "FULL" ELSE "NORMAL"

(* Mutant: the capacity is remembered although its key could not be set. *)
PublishCapacityAlways(c) ==
    /\ cur_bat_capacity' = c
    /\ \/ c # cur_bat_capacity /\ capacity' = c
       \/ (c = cur_bat_capacity \/ ~healthy) /\ UNCHANGED capacity

(* The key is set when it has to change, and remembered when that worked. *)
PublishCapacity(c) ==
    \/ c = cur_bat_capacity /\ UNCHANGED <<cur_bat_capacity, capacity>>
    \/ c # cur_bat_capacity /\ cur_bat_capacity' = c /\ capacity' = c
    \/ c # cur_bat_capacity /\ ~healthy /\ UNCHANGED <<cur_bat_capacity, capacity>>

(* Mutant: the result of setting the status is ignored. *)
StatusFailsUnseen(c) ==
    /\ ~healthy
    /\ UNCHANGED status
    /\ cur_bat_state' = Band(c)
    /\ handled' = c
    /\ act' = "none"
    /\ interval' = BAT_MON_INTERVAL

(* The status cannot be read or set: the reading is tried again soon. *)
StatusFails(c) ==
    /\ ~healthy
    /\ UNCHANGED <<status, cur_bat_state, handled>>
    /\ act' = "none"
    /\ interval' = BAT_MON_INTERVAL_MIN

(* The status is published (so is whether the battery charges, which is left *)
(* out), then the band changes.  A band that stays, but the one before       *)
(* power-off, is a success; so is one with a row in lpe[].                 *)
StatusPublished(c) ==
    /\ \E full \in BOOLEAN : status' = StatusOf(c, full)
    /\ cur_bat_state' = Band(c)
    /\ handled' = c
    /\ \/ /\ cur_bat_state = Band(c) /\ Band(c) # BATTERY_POWER_OFF
          /\ act' = "none" /\ interval' = BAT_MON_INTERVAL
       \/ /\ cur_bat_state # Band(c) \/ Band(c) = BATTERY_POWER_OFF
          /\ act' \in Called(cur_bat_state, Band(c))
          /\ interval' = BAT_MON_INTERVAL
       \/ /\ cur_bat_state # Band(c) \/ Band(c) = BATTERY_POWER_OFF
          /\ Called(cur_bat_state, Band(c)) = {}
          /\ act' = "none" /\ interval' = BAT_MON_INTERVAL_MIN

LowbatProcess(c) ==
    /\ PublishCapacity(c)
    /\ StatusFails(c) \/ StatusPublished(c)

(* Mutant: a failed reading leaves the interval as it is. *)
ReadFailsSlowly ==
    /\ last' = NoReading
    /\ bat_err_count' = IF bat_err_count > MAX_BATTERY_ERROR THEN bat_err_count
                        ELSE bat_err_count + 1
    /\ act' = "none"
    /\ UNCHANGED <<interval, cur_bat_state, cur_bat_capacity, capacity, status,
                   handled>>

(* A reading below 0. *)
ReadFails ==
    /\ last' = NoReading
    /\ interval' = BAT_MON_INTERVAL_MIN
    /\ bat_err_count' = IF bat_err_count > MAX_BATTERY_ERROR THEN bat_err_count
                        ELSE bat_err_count + 1
    /\ act' = "none"
    /\ UNCHANGED <<cur_bat_state, cur_bat_capacity, capacity, status,
                   handled>>

Capped(r) == IF r > BATTERY_FULL THEN BATTERY_FULL ELSE r

(* ss_lowbat_monitor: a gauge that fails leaves the reading uninitialized. *)
Monitor ==
    \E r \in IF healthy THEN {level} ELSE Readings :
        \/ r < 0 /\ ReadFails
        \/ /\ r >= 0
           /\ last' = Capped(r)
           /\ LowbatProcess(Capped(r))
           /\ UNCHANGED bat_err_count

(* lowbat_timer fires, and is deleted when the monitor returns 0. *)
TimerFires ==
    /\ lowbat_timer = "running"
    /\ Monitor
    /\ lowbat_timer' = IF last' = NoReading /\ bat_err_count' > MAX_BATTERY_ERROR
                       THEN "deleted" ELSE "running"
    /\ UNCHANGED <<level, healthy>>

(* wakeup_cb, usb_chgdet_cb, ta_chgdet_cb and charge_cb: what the monitor   *)
(* returns is ignored.                                                     *)
Poll == Monitor /\ UNCHANGED <<lowbat_timer, level, healthy>>
----------------------------------------------------------------------------
(* The battery is charged and discharged. *)
BatteryChanges ==
    /\ level' \in Charge \ {level}
    /\ act' = "none"
    /\ UNCHANGED <<healthy, lowbat_timer, interval, bat_err_count, cur_bat_state,
                   cur_bat_capacity, capacity, status, last, handled>>

HealthChanges ==
    /\ healthy' = ~healthy
    /\ act' = "none"
    /\ UNCHANGED <<level, lowbat_timer, interval, bat_err_count, cur_bat_state,
                   cur_bat_capacity, capacity, status, last, handled>>

Next == TimerFires \/ Poll \/ BatteryChanges \/ HealthChanges

Spec == Init /\ [][Next]_vars

(* The main loop serves its timers. *)
FairSpec == Spec /\ WF_vars(TimerFires)
----------------------------------------------------------------------------
(* The published status and the band of the monitor are of one reading,     *)
(* the last one handled to the end, however keys fail in between.           *)
StatusAgrees ==
    handled # NoReading =>
        /\ cur_bat_state = Band(handled)
        /\ status \in {StatusOf(handled, full) : full \in BOOLEAN}

(* The capacity the monitor compares with is the one clients read. *)
CapacityAgrees == cur_bat_capacity # -1 => capacity = cur_bat_capacity

(* The monitor waits the long interval only when its last reading did not   *)
(* fail and its status and band are set; a capacity whose key could not be  *)
(* set does not make it hurry (ss_lowbat_handler.c:157), but is then not    *)
(* taken for published either.                                             *)
SlowOnlyWhenHandled ==
    interval = BAT_MON_INTERVAL =>
        /\ last # NoReading /\ handled = last
        /\ capacity = last \/ cur_bat_capacity # last

(* Whatever failed before -- readings, keys, the capacity alone -- one      *)
(* reading of which nothing fails makes up for: all that clients read and   *)
(* the band are those of the charge.                                       *)
HealthyReadingRepairs ==
    [][(TimerFires \/ Poll) /\ healthy =>
          /\ capacity' = level
          /\ cur_bat_state' = Band(level)
          /\ status' \in {StatusOf(level, full) : full \in BOOLEAN}]_vars

(* The inductive invariant. *)
IInv == TypeOK /\ StatusAgrees /\ CapacityAgrees /\ SlowOnlyWhenHandled

(* The act of a low band: the table agrees with it for every way down. *)
ActOf(band) ==
    CASE band = BATTERY_REAL_POWER_OFF -> "poweroff"
      [] band \in {BATTERY_POWER_OFF, BATTERY_CRITICAL_LOW} -> "critical"
      [] band = BATTERY_WARNING_LOW -> "warning"
      [] OTHER -> "none"

(* Every way into a lower band, and the first band when it is a low one,    *)
(* calls the act of that band; no other step calls one.                     *)
Descends ==
    /\ cur_bat_state' # cur_bat_state
    /\ cur_bat_state = BATTERY_UNKNOWN \/ cur_bat_state' < cur_bat_state

DescentCalls ==
    [][act' = IF Descends THEN ActOf(cur_bat_state') ELSE "none"]_vars

(* Unless the monitor gives up, a level that stays while nothing fails ends  *)
(* up as the band and the published capacity.                               *)
LevelIsHandled ==
    \A c \in Charge :
        <>[](healthy /\ level = c) =>
            \/ <>[](cur_bat_state = Band(c) /\ capacity = c)
            \/ <>(lowbat_timer = "deleted")
=============================================================================
