------------------------------ MODULE CpuFreq ------------------------------
(***************************************************************************)
(* The CPU frequency handler (ss_cpu_handler.c).  Processes ask for an     *)
(* upper or a lower limit of the frequency, power saving asks for an upper *)
(* one in the daemon's own name, and the strictest limit is written to the *)
(* kernel.  An entry whose process is gone is dropped at the next request  *)
(* for the same list.                                                      *)
(***************************************************************************)
EXTENDS Integers, FiniteSetsExt

CONSTANTS
    Pids,                  \* the processes that ask
    Freqs,                 \* the frequencies they ask for
    POWER_SAVING_CPUFREQ,  \* what power saving asks for
    max_cpu_freq_limit,    \* the limits of the hardware
    min_cpu_freq_limit,
    INT_MAX, INT_MIN       \* "no entry", in the code's integers

Self == "system_server"
NoFreq == INT_MIN - 1  \* outside the integers of the code
Owners == Pids \union {Self}
AllFreqs == Freqs \union {POWER_SAVING_CPUFREQ}

ASSUME CpuFreqAssumption ==
    /\ AllFreqs \union {max_cpu_freq_limit, min_cpu_freq_limit, INT_MIN, INT_MAX} \subseteq Int
    /\ \A f \in AllFreqs \union {max_cpu_freq_limit, min_cpu_freq_limit} :
          INT_MIN < f /\ f < INT_MAX
    /\ Self \notin Pids

VARIABLES
    alive,                           \* the processes that run
    max_cpu_freq_list,               \* [Owners -> frequency or NoFreq]
    min_cpu_freq_list,
    cur_max_cpu_freq, cur_min_cpu_freq,
    scaling_max, scaling_min,        \* what the kernel was told last
    max_written, min_written,        \* history: the last write worked
    sysmode, custmode,               \* vconf: power saving, and that of the CPU
    sysmode_changed, custmode_changed, \* their callbacks that have to come
    watched,  \* the settings whose changes are reported
    stale,    \* history: since a callback last set or removed the daemon's own
              \* limit, a change of a setting has gone unseen: it was made before
              \* it was watched, or twice before its callback came, or a callback
              \* could not read the other setting
    served    \* history: the list the last step was a request for, and the
              \* processes that had gone by then

maxvars == <<max_cpu_freq_list, cur_max_cpu_freq, scaling_max, max_written>>
minvars == <<min_cpu_freq_list, cur_min_cpu_freq, scaling_min, min_written>>
modes   == <<sysmode, custmode, sysmode_changed, custmode_changed, watched, stale>>
vars    == <<alive, maxvars, minvars, modes, served>>

Settings == {"sysmode", "custmode"}
NoRequest == [list |-> "none", gone |-> {}]

TypeOK ==
    /\ alive \in SUBSET Pids
    /\ max_cpu_freq_list \in [Owners -> AllFreqs \union {NoFreq}]
    /\ min_cpu_freq_list \in [Owners -> AllFreqs \union {NoFreq}]
    /\ cur_max_cpu_freq \in AllFreqs \union {INT_MAX, max_cpu_freq_limit}
    /\ cur_min_cpu_freq \in AllFreqs \union {INT_MIN, min_cpu_freq_limit}
    /\ scaling_max \in AllFreqs \union {INT_MAX, max_cpu_freq_limit}
    /\ scaling_min \in AllFreqs \union {INT_MIN, min_cpu_freq_limit}
    /\ {max_written, min_written, sysmode, custmode,
        sysmode_changed, custmode_changed, stale} \subseteq BOOLEAN
    /\ watched \subseteq Settings
    /\ served \in [list : {"max", "min", "none"}, gone : SUBSET Pids]
----------------------------------------------------------------------------
Asked(list) == {o \in DOMAIN list : list[o] # NoFreq}
FreqsOf(list) == {list[o] : o \in Asked(list)}

(* Mutant: only the entry of the caller is dropped. *)
WithoutCaller(list, owner) ==
    [o \in Owners |-> IF o = owner THEN NoFreq ELSE list[o]]

(* The entries that are left when those of owner and of processes that are *)
(* gone are removed.                                                       *)
Without(list, owner) ==
    [o \in Owners |-> IF o = owner \/ o \notin alive \union {Self}
                      THEN NoFreq ELSE list[o]]

Lowest(list)  == IF Asked(list) = {} THEN INT_MAX ELSE Min(FreqsOf(list))
Highest(list) == IF Asked(list) = {} THEN INT_MIN ELSE Max(FreqsOf(list))

WriteMax ==
    \/ scaling_max' = cur_max_cpu_freq' /\ max_written' = TRUE
    \/ UNCHANGED scaling_max /\ max_written' = FALSE

WriteMin ==
    \/ scaling_min' = cur_min_cpu_freq' /\ min_written' = TRUE
    \/ UNCHANGED scaling_min /\ min_written' = FALSE

(* A pass over a list, for owner. *)
Serve(list, owner) == served' = [list |-> list, gone |-> (Pids \ alive) \ {owner}]

(* Mutant: the new entry is compared with the limit there was before. *)
AddMaxKeepsOld(owner, freq) ==
    LET left == Without(max_cpu_freq_list, owner) IN
    /\ max_cpu_freq_list' = [left EXCEPT ![owner] = freq]
    /\ cur_max_cpu_freq' = IF freq < cur_max_cpu_freq THEN freq ELSE cur_max_cpu_freq
    /\ Serve("max", owner)

(* __add_entry_to_max_cpu_freq_list *)
AddMax(owner, freq) ==
    LET left == Without(max_cpu_freq_list, owner) IN
    /\ max_cpu_freq_list' = [left EXCEPT ![owner] = freq]
    /\ cur_max_cpu_freq' = IF freq < Lowest(left) THEN freq ELSE Lowest(left)
    /\ Serve("max", owner)

(* __remove_entry_from_max_cpu_freq_list; the caller passes what stands for *)
(* an empty list.                                                           *)
RemoveMax(owner, empty) ==
    LET left == Without(max_cpu_freq_list, owner) IN
    /\ max_cpu_freq_list' = left
    /\ cur_max_cpu_freq' = IF Lowest(left) = INT_MAX THEN empty ELSE Lowest(left)
    /\ Serve("max", owner)

AddMin(owner, freq) ==
    LET left == Without(min_cpu_freq_list, owner) IN
    /\ min_cpu_freq_list' = [left EXCEPT ![owner] = freq]
    /\ cur_min_cpu_freq' = IF freq > Highest(left) THEN freq ELSE Highest(left)
    /\ Serve("min", owner)

RemoveMin(owner, empty) ==
    LET left == Without(min_cpu_freq_list, owner) IN
    /\ min_cpu_freq_list' = left
    /\ cur_min_cpu_freq' = IF Highest(left) = INT_MIN THEN empty ELSE Highest(left)
    /\ Serve("min", owner)

(* What the settings ask for is not what the list says. *)
Unsettled == (sysmode /\ custmode) # (max_cpu_freq_list[Self] # NoFreq)

(* ss_cpu_handler_init up to __set_freq_limit, with the power saving it      *)
(* finds: a setting that cannot be read counts as off, and writing the limit *)
(* may fail.                                                               *)
Init ==
    /\ alive = Pids
    /\ sysmode \in BOOLEAN /\ custmode \in BOOLEAN
    /\ sysmode_changed = FALSE /\ custmode_changed = FALSE
    /\ watched = {}
    /\ \E read \in BOOLEAN :
          max_cpu_freq_list = [o \in Owners |-> IF o = Self /\ sysmode /\ custmode /\ read
                                                THEN POWER_SAVING_CPUFREQ ELSE NoFreq]
    /\ stale = Unsettled
    /\ served = NoRequest
    /\ cur_max_cpu_freq = Lowest(max_cpu_freq_list)
    /\ min_cpu_freq_list = [o \in Owners |-> NoFreq]
    /\ cur_min_cpu_freq = INT_MIN
    /\ \/ /\ max_cpu_freq_list[Self] # NoFreq
          /\ scaling_max = POWER_SAVING_CPUFREQ /\ max_written = TRUE
       \/ scaling_max = max_cpu_freq_limit /\ max_written = FALSE
    /\ scaling_min = min_cpu_freq_limit
    /\ min_written = FALSE
----------------------------------------------------------------------------
(* set_max_frequency_action, set_min_frequency_action: the four actions run *)
(* from the queue, when the process that asked may be gone.                 *)
SetMax(p, freq) == AddMax(p, freq) /\ WriteMax /\ UNCHANGED <<alive, minvars, modes>>
SetMin(p, freq) == AddMin(p, freq) /\ WriteMin /\ UNCHANGED <<alive, maxvars, modes>>

(* release_max_frequency_action, release_min_frequency_action *)
ReleaseMax(p) ==
    RemoveMax(p, max_cpu_freq_limit) /\ WriteMax /\ UNCHANGED <<alive, minvars, modes>>
ReleaseMin(p) ==
    RemoveMin(p, min_cpu_freq_limit) /\ WriteMin /\ UNCHANGED <<alive, maxvars, modes>>

(* power_saving_cb.  A setting of the CPU that cannot be read counts as off. *)
(* An empty list is looked for as INT_MIN, which it never is: INT_MAX is     *)
(* written.                                                                 *)
PowerSavingCb ==
    /\ sysmode_changed
    /\ sysmode_changed' = FALSE
    /\ \/ sysmode /\ custmode /\ AddMax(Self, POWER_SAVING_CPUFREQ) /\ stale' = FALSE
       \/ /\ sysmode
          /\ stale' = (stale \/ custmode)
          /\ UNCHANGED <<max_cpu_freq_list, cur_max_cpu_freq>> /\ served' = NoRequest
       \/ ~sysmode /\ RemoveMax(Self, INT_MAX) /\ stale' = FALSE
    /\ WriteMax
    /\ UNCHANGED <<alive, minvars, sysmode, custmode, custmode_changed, watched>>

(* Mutant: the CPU setting is obeyed when power saving is off. *)
PowerSavingCpuCbAlone ==
    /\ custmode_changed
    /\ custmode_changed' = FALSE
    /\ \/ custmode /\ AddMax(Self, POWER_SAVING_CPUFREQ)
       \/ ~custmode /\ RemoveMax(Self, max_cpu_freq_limit)
    /\ WriteMax
    /\ stale' = (stale /\ ~sysmode)
    /\ UNCHANGED <<alive, minvars, sysmode, custmode, sysmode_changed, watched>>

(* power_saving_cpu_cb: nothing is done while power saving is off, or cannot *)
(* be read.                                                                 *)
PowerSavingCpuCb ==
    /\ custmode_changed
    /\ custmode_changed' = FALSE
    /\ \/ /\ sysmode /\ stale' = FALSE
          /\ \/ custmode /\ AddMax(Self, POWER_SAVING_CPUFREQ)
             \/ ~custmode /\ RemoveMax(Self, max_cpu_freq_limit)
          /\ WriteMax
       \/ stale' = (stale \/ sysmode) /\ UNCHANGED maxvars /\ served' = NoRequest
    /\ UNCHANGED <<alive, minvars, sysmode, custmode, sysmode_changed, watched>>
----------------------------------------------------------------------------
(* The rest of ss_cpu_handler_init: power saving is watched first.           *)
Register ==
    /\ watched # Settings
    /\ watched' = IF watched = {} THEN {"sysmode"} ELSE Settings
    /\ served' = NoRequest
    /\ UNCHANGED <<alive, maxvars, minvars, sysmode, custmode, sysmode_changed,
                   custmode_changed, stale>>

(* The user turns power saving, or that of the CPU, on or off; the callback, *)
(* if it is registered by now, comes later and reads the keys as they are    *)
(* then.                                                                    *)
TurnSysmode ==
    /\ sysmode' = ~sysmode
    /\ sysmode_changed' = ("sysmode" \in watched)
    /\ served' = NoRequest
    /\ UNCHANGED <<alive, maxvars, minvars, custmode, custmode_changed, watched>>
    /\ stale' = (stale \/ IF "sysmode" \in watched THEN sysmode_changed ELSE Unsettled')

TurnCustmode ==
    /\ custmode' = ~custmode
    /\ custmode_changed' = ("custmode" \in watched)
    /\ served' = NoRequest
    /\ UNCHANGED <<alive, maxvars, minvars, sysmode, sysmode_changed, watched>>
    /\ stale' = (stale \/ ("custmode" \notin watched /\ Unsettled'))

(* A process ends; later its pid may be that of another one. *)
Exit(p) ==
    /\ p \in alive /\ alive' = alive \ {p}
    /\ served' = NoRequest
    /\ UNCHANGED <<maxvars, minvars, modes>>

Start(p) ==
    /\ p \notin alive /\ alive' = alive \union {p}
    /\ served' = NoRequest
    /\ UNCHANGED <<maxvars, minvars, modes>>

(* The main loop serves requests and callbacks once the daemon has started.  *)
MainLoop ==
    /\ watched = Settings
    /\ \/ \E p \in Pids, f \in Freqs : SetMax(p, f) \/ SetMin(p, f)
       \/ \E p \in Pids : ReleaseMax(p) \/ ReleaseMin(p)
       \/ PowerSavingCb \/ PowerSavingCpuCb

Next ==
    \/ MainLoop \/ Register \/ TurnSysmode \/ TurnCustmode
    \/ \E p \in Pids : Exit(p) \/ Start(p)

Spec == Init /\ [][Next]_vars
----------------------------------------------------------------------------
(* The current limits are the strictest of the entries, so that an entry is *)
(* neither forgotten nor obeyed after it is gone.                           *)
StrictestCounts ==
    /\ IF Asked(max_cpu_freq_list) = {}
       THEN cur_max_cpu_freq \in {INT_MAX, max_cpu_freq_limit}
       ELSE cur_max_cpu_freq = Min(FreqsOf(max_cpu_freq_list))
    /\ IF Asked(min_cpu_freq_list) = {}
       THEN cur_min_cpu_freq \in {INT_MIN, min_cpu_freq_limit}
       ELSE cur_min_cpu_freq = Max(FreqsOf(min_cpu_freq_list))

(* The kernel works with the current limits, unless the last write failed; *)
(* the lower one is always a frequency.  With StrictestCounts, what is      *)
(* behind KernelObeysStrictest.                                            *)
KernelIsTold ==
    /\ max_written => scaling_max = cur_max_cpu_freq
    /\ min_written => scaling_min = cur_min_cpu_freq
    /\ scaling_min # INT_MIN

(* The kernel works with the strictest of the entries there are, and with no *)
(* other once a request has written it, whoever asked, released or exited in *)
(* between: with the limit of the hardware while a list is empty, or, for    *)
(* power saving that ends, with INT_MAX, an upper limit that limits nothing. *)
(* INT_MIN, which stands for an empty list of lower limits, is never written.*)
(* After a write that failed nothing is said until the next one.            *)
KernelObeysStrictest ==
    /\ max_written =>
          IF Asked(max_cpu_freq_list) = {}
          THEN scaling_max \in {INT_MAX, max_cpu_freq_limit}
          ELSE scaling_max = Min(FreqsOf(max_cpu_freq_list))
    /\ min_written =>
          IF Asked(min_cpu_freq_list) = {}
          THEN scaling_min = min_cpu_freq_limit
          ELSE scaling_min = Max(FreqsOf(min_cpu_freq_list))

(* Whatever the order of the two settings and of their callbacks, once both *)
(* callbacks have come the daemon's own limit is there exactly when power   *)
(* saving is on and covers the CPU -- unless a change has gone unseen (see   *)
(* stale) and no callback has looked at the list since.                     *)
PowerSavingSettles ==
    ~sysmode_changed /\ ~custmode_changed /\ ~stale =>
        max_cpu_freq_list[Self] = IF sysmode /\ custmode
                                  THEN POWER_SAVING_CPUFREQ ELSE NoFreq

(* Every request for a list, also one that changes nothing else in it, drops *)
(* the entries of all processes that have gone, but that of the caller.      *)
GoneAreDropped ==
    /\ served.list = "max" => Asked(max_cpu_freq_list) \cap served.gone = {}
    /\ served.list = "min" => Asked(min_cpu_freq_list) \cap served.gone = {}

(* What makes PowerSavingSettles inductive: the daemon's own limit, if any, *)
(* is that of power saving; it is gone once the one callback that can tell  *)
(* has come, and there once both have.                                      *)
OwnLimit ==
    /\ {max_cpu_freq_list, min_cpu_freq_list} \subseteq [Owners -> AllFreqs \union {NoFreq}]
    /\ {sysmode, custmode, sysmode_changed, custmode_changed, stale} \subseteq BOOLEAN
    /\ max_cpu_freq_list[Self] \in {POWER_SAVING_CPUFREQ, NoFreq}
    /\ ~stale /\ (IF sysmode THEN ~custmode /\ ~custmode_changed
                              ELSE ~sysmode_changed) =>
          max_cpu_freq_list[Self] = NoFreq
    /\ PowerSavingSettles
=============================================================================
