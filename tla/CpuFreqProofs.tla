---------------------------- MODULE CpuFreqProofs ----------------------------
(* Theorems about CpuFreq, for any processes and frequencies and any limits  *)
(* of the hardware.                                                        *)
EXTENDS CpuFreq, WellFoundedInduction, TLAPS

(* A set of natural numbers has a least element: < is well-founded on Nat. *)
LEMMA LeastNatural ==
    ASSUME NEW T \in SUBSET Nat, T # {}
    PROVE  \E t \in T : \A u \in T : ~(u < t)
<1> DEFINE R == {ss \in Nat \X Nat : ss[1] < ss[2]}
<1>1. IsWellFoundedOn(R, Nat)
  BY NatLessThanWellFounded DEF OpToRel
<1>2. PICK t \in T : \A u \in T : ~(<<u, t>> \in R)
  <2> HIDE DEF R
  <2> QED
    BY <1>1, WFMin
<1> QED
  BY <1>2

(* A set of integers above some integer has a least element, and Min is it. *)
LEMMA LeastOf ==
    ASSUME NEW S \in SUBSET Int, S # {}, NEW b \in Int, \A x \in S : b < x
    PROVE  Min(S) \in S /\ \A x \in S : Min(S) <= x
<1> DEFINE T == {x - b : x \in S}
<1>1. T \subseteq Nat /\ T # {}
  <2>1. PICK x \in S : TRUE
    OBVIOUS
  <2>2. x - b \in T
    OBVIOUS
  <2>3. \A n \in T : n \in Nat
    OBVIOUS
  <2> QED
    BY <2>2, <2>3
<1>2. PICK t \in T : \A u \in T : ~(u < t)
  BY <1>1, LeastNatural
<1>3. PICK x \in S : t = x - b
  OBVIOUS
<1>4. \A u \in T : t <= u
  BY <1>1, <1>2
<1>5. ASSUME NEW y \in S PROVE x <= y
  <2>1. y - b \in T
    OBVIOUS
  <2>2. x - b <= y - b
    BY <1>3, <1>4, <2>1
  <2> QED
    BY ONLY <2>2, x \in Int, y \in Int, b \in Int
<1> QED
  BY <1>5 DEF Min

(* The same for a greatest element and Max. *)
LEMMA GreatestOf ==
    ASSUME NEW S \in SUBSET Int, S # {}, NEW b \in Int, \A x \in S : x < b
    PROVE  Max(S) \in S /\ \A x \in S : x <= Max(S)
<1> DEFINE T == {b - x : x \in S}
<1>1. T \subseteq Nat /\ T # {}
  <2>1. PICK x \in S : TRUE
    OBVIOUS
  <2>2. b - x \in T
    OBVIOUS
  <2>3. \A n \in T : n \in Nat
    OBVIOUS
  <2> QED
    BY <2>2, <2>3
<1>2. PICK t \in T : \A u \in T : ~(u < t)
  BY <1>1, LeastNatural
<1>3. PICK x \in S : t = b - x
  OBVIOUS
<1>4. \A u \in T : t <= u
  BY <1>1, <1>2
<1>5. ASSUME NEW y \in S PROVE y <= x
  <2>1. b - y \in T
    OBVIOUS
  <2>2. b - x <= b - y
    BY <1>3, <1>4, <2>1
  <2> QED
    BY ONLY <2>2, x \in Int, y \in Int, b \in Int
<1> QED
  BY <1>5 DEF Max

----------------------------------------------------------------------------
(* The kernel is told the current limits, and never INT_MIN. *)
THEOREM KernelKnowsTheLimits == Spec => []KernelIsTold
<1> USE CpuFreqAssumption DEF KernelIsTold, maxvars, minvars, modes, WriteMax, WriteMin
<1>1. Init => KernelIsTold
  <2> SUFFICES ASSUME Init PROVE KernelIsTold
    OBVIOUS
  <2>1. scaling_min # INT_MIN /\ min_written = FALSE
    BY DEF Init
  <2>2. ASSUME max_cpu_freq_list[Self] # NoFreq, scaling_max = POWER_SAVING_CPUFREQ
        PROVE  cur_max_cpu_freq = POWER_SAVING_CPUFREQ
    <3>1. POWER_SAVING_CPUFREQ \in Int /\ POWER_SAVING_CPUFREQ # NoFreq
      BY CpuFreqAssumption DEF AllFreqs, NoFreq
    <3>2. /\ Asked(max_cpu_freq_list) = {Self}
          /\ max_cpu_freq_list[Self] = POWER_SAVING_CPUFREQ
      BY <2>2, <3>1 DEF Init, Asked, Owners
    <3>3. FreqsOf(max_cpu_freq_list) = {POWER_SAVING_CPUFREQ}
      BY <3>2 DEF FreqsOf
    <3>4. Min({POWER_SAVING_CPUFREQ}) = POWER_SAVING_CPUFREQ
      BY <3>1 DEF Min
    <3> QED
      BY <3>2, <3>3, <3>4 DEF Init, Lowest
  <2> QED
    BY <2>1, <2>2 DEF Init
<1>2. KernelIsTold /\ [Next]_vars => KernelIsTold'
  <2> SUFFICES ASSUME KernelIsTold, [Next]_vars PROVE KernelIsTold'
    OBVIOUS
  <2>1. ASSUME NEW p \in Pids, NEW f \in Freqs, SetMax(p, f) PROVE KernelIsTold'
    BY <2>1 DEF SetMax
  <2>2. ASSUME NEW p \in Pids, NEW f \in Freqs, SetMin(p, f) PROVE KernelIsTold'
    <3>1. cur_min_cpu_freq' # INT_MIN
      BY <2>2 DEF SetMin, AddMin, AllFreqs
    <3> QED
      BY <2>2, <3>1 DEF SetMin
  <2>3. ASSUME NEW p \in Pids, ReleaseMax(p) PROVE KernelIsTold'
    BY <2>3 DEF ReleaseMax
  <2>4. ASSUME NEW p \in Pids, ReleaseMin(p) PROVE KernelIsTold'
    <3>1. cur_min_cpu_freq' # INT_MIN
      BY <2>4 DEF ReleaseMin, RemoveMin
    <3> QED
      BY <2>4, <3>1 DEF ReleaseMin
  <2>5. CASE PowerSavingCb
    BY <2>5 DEF PowerSavingCb
  <2>6. CASE PowerSavingCpuCb
    BY <2>6 DEF PowerSavingCpuCb
  <2>7. ASSUME UNCHANGED <<max_written, min_written, scaling_max, scaling_min,
                          cur_max_cpu_freq, cur_min_cpu_freq>>
        PROVE  KernelIsTold'
    BY <2>7
  <2> QED
    BY <2>1, <2>2, <2>3, <2>4, <2>5, <2>6, <2>7
       DEF Next, MainLoop, vars, Exit, Start, Register, TurnSysmode, TurnCustmode
<1> QED
  BY <1>1, <1>2, PTL DEF Spec

(* What a request of another process, and one of the daemon, does to the   *)
(* daemon's own limit.                                                     *)
LEMMA OwnEntry ==
    ASSUME OwnLimit, NEW p \in Owners
    PROVE  /\ \A f \in AllFreqs : AddMax(p, f) =>
                 /\ max_cpu_freq_list' \in [Owners -> AllFreqs \union {NoFreq}]
                 /\ max_cpu_freq_list'[Self] =
                       IF p = Self THEN f ELSE max_cpu_freq_list[Self]
           /\ \A empty : RemoveMax(p, empty) =>
                 /\ max_cpu_freq_list' \in [Owners -> AllFreqs \union {NoFreq}]
                 /\ max_cpu_freq_list'[Self] =
                       IF p = Self THEN NoFreq ELSE max_cpu_freq_list[Self]
           /\ \A f \in AllFreqs : AddMin(p, f) =>
                 min_cpu_freq_list' \in [Owners -> AllFreqs \union {NoFreq}]
           /\ \A empty : RemoveMin(p, empty) =>
                 min_cpu_freq_list' \in [Owners -> AllFreqs \union {NoFreq}]
<1>1. Self \in Owners
  BY DEF Owners
<1>2. ASSUME NEW list \in [Owners -> AllFreqs \union {NoFreq}]
      PROVE  /\ Without(list, p) \in [Owners -> AllFreqs \union {NoFreq}]
             /\ Without(list, p)[Self] = IF p = Self THEN NoFreq ELSE list[Self]
  BY <1>1 DEF Without
<1> QED
  BY <1>1, <1>2 DEF OwnLimit, AddMax, RemoveMax, AddMin, RemoveMin

(* The invariant of the daemon's own limit. *)
LEMMA OwnLimitInvariance == Spec => []OwnLimit
<1> USE DEF maxvars, minvars, modes
<1>0. /\ Self \in Owners /\ Pids \subseteq Owners /\ Self \notin Pids
      /\ Freqs \subseteq AllFreqs /\ POWER_SAVING_CPUFREQ \in AllFreqs
      /\ POWER_SAVING_CPUFREQ # NoFreq
  BY CpuFreqAssumption DEF Owners, AllFreqs, NoFreq
<1>1. Init => OwnLimit
  BY <1>0 DEF Init, OwnLimit, PowerSavingSettles, Unsettled
<1>2. OwnLimit /\ [Next]_vars => OwnLimit'
  <2> SUFFICES ASSUME OwnLimit, [Next]_vars PROVE OwnLimit'
    OBVIOUS
  <2> USE DEF PowerSavingSettles
  <2>1. ASSUME NEW p \in Pids, NEW f \in Freqs, SetMax(p, f) PROVE OwnLimit'
    BY <1>0, <2>1, OwnEntry DEF SetMax, OwnLimit
  <2>2. ASSUME NEW p \in Pids, NEW f \in Freqs, SetMin(p, f) PROVE OwnLimit'
    BY <1>0, <2>2, OwnEntry DEF SetMin, OwnLimit
  <2>3. ASSUME NEW p \in Pids, ReleaseMax(p) PROVE OwnLimit'
    BY <1>0, <2>3, OwnEntry DEF ReleaseMax, OwnLimit
  <2>4. ASSUME NEW p \in Pids, ReleaseMin(p) PROVE OwnLimit'
    BY <1>0, <2>4, OwnEntry DEF ReleaseMin, OwnLimit
  <2>5. CASE PowerSavingCb
    BY <1>0, <2>5, OwnEntry DEF PowerSavingCb, OwnLimit
  <2>6. CASE PowerSavingCpuCb
    BY <1>0, <2>6, OwnEntry DEF PowerSavingCpuCb, OwnLimit
  <2>7. CASE TurnSysmode \/ TurnCustmode
    <3>1. CASE TurnSysmode
      BY <1>0, <3>1 DEF TurnSysmode, OwnLimit, Unsettled
    <3>2. CASE TurnCustmode
      BY <1>0, <3>2 DEF TurnCustmode, OwnLimit, Unsettled
    <3> QED
      BY <2>7, <3>1, <3>2
  <2>8. ASSUME UNCHANGED <<maxvars, minvars, sysmode, custmode, sysmode_changed,
                          custmode_changed, stale>>
        PROVE  OwnLimit'
    BY <2>8 DEF OwnLimit
  <2> QED
    BY <2>1, <2>2, <2>3, <2>4, <2>5, <2>6, <2>7, <2>8
       DEF Next, MainLoop, Register, vars, Exit, Start
<1> QED
  BY <1>1, <1>2, PTL DEF Spec

(* The daemon's own limit settles, for any frequencies and processes. *)
THEOREM OwnLimitSettles == Spec => []PowerSavingSettles
<1>1. OwnLimit => PowerSavingSettles
  BY DEF OwnLimit
<1> QED
  BY <1>1, OwnLimitInvariance, PTL

(* What a request for a list leaves of it, and of the strictest entry. *)
Lists == [Owners -> AllFreqs \union {NoFreq}]

(* The entries of a list are frequencies. *)
LEMMA EntriesAreFreqs ==
    ASSUME NEW list \in Lists
    PROVE  /\ FreqsOf(list) \in SUBSET Int
           /\ FreqsOf(list) = {} <=> Asked(list) = {}
           /\ \A f \in FreqsOf(list) : INT_MIN < f /\ f < INT_MAX
           /\ {INT_MIN, INT_MAX} \subseteq Int
<1>1. \A o \in Asked(list) : list[o] \in AllFreqs
  BY DEF Asked, Lists
<1>2. FreqsOf(list) \subseteq AllFreqs
  BY <1>1 DEF FreqsOf
<1>3. FreqsOf(list) = {} <=> Asked(list) = {}
  BY DEF FreqsOf
<1> QED
  BY <1>2, <1>3, CpuFreqAssumption

(* Lowest and Highest are the strictest entries, if there are any. *)
LEMMA StrictestIs ==
    ASSUME NEW list \in Lists
    PROVE  /\ Asked(list) = {} => Lowest(list) = INT_MAX /\ Highest(list) = INT_MIN
           /\ Asked(list) # {} =>
                 /\ Lowest(list) = Min(FreqsOf(list)) /\ Lowest(list) \in FreqsOf(list)
                 /\ \A f \in FreqsOf(list) : Lowest(list) <= f
                 /\ Highest(list) = Max(FreqsOf(list)) /\ Highest(list) \in FreqsOf(list)
                 /\ \A f \in FreqsOf(list) : f <= Highest(list)
<1>1. CASE Asked(list) = {}
  BY <1>1 DEF Lowest, Highest
<1>2. CASE Asked(list) # {}
  BY <1>2, EntriesAreFreqs, LeastOf, GreatestOf DEF Lowest, Highest
<1> QED
  BY <1>1, <1>2

(* A new entry beside those that are left. *)
LEMMA StrictestWith ==
    ASSUME NEW left \in Lists, NEW o \in Owners, left[o] = NoFreq, NEW f \in AllFreqs
    PROVE  LET list == [left EXCEPT ![o] = f] IN
           /\ list \in Lists /\ Asked(list) # {}
           /\ Min(FreqsOf(list)) = IF f < Lowest(left) THEN f ELSE Lowest(left)
           /\ Max(FreqsOf(list)) = IF f > Highest(left) THEN f ELSE Highest(left)
<1> DEFINE list == [left EXCEPT ![o] = f]
<1>1. f \in Int /\ INT_MIN < f /\ f < INT_MAX /\ f # NoFreq
  BY CpuFreqAssumption DEF NoFreq
<1>2. list \in Lists
  BY DEF Lists
<1>3. Asked(list) = Asked(left) \union {o} /\ o \notin Asked(left)
  BY <1>1 DEF Asked, Lists
<1>4. FreqsOf(list) = FreqsOf(left) \union {f}
  <2>1. \A p \in Asked(left) : list[p] = left[p]
    BY <1>3 DEF Asked, Lists
  <2>2. list[o] = f
    BY DEF Lists
  <2> HIDE DEF list
  <2> QED
    BY <1>3, <2>1, <2>2 DEF FreqsOf
<1> HIDE DEF list
<1>5. /\ Lowest(list) = Min(FreqsOf(list)) /\ Lowest(list) \in FreqsOf(list)
      /\ \A g \in FreqsOf(list) : Lowest(list) <= g
      /\ Highest(list) = Max(FreqsOf(list)) /\ Highest(list) \in FreqsOf(list)
      /\ \A g \in FreqsOf(list) : g <= Highest(list)
  BY <1>2, <1>3, StrictestIs
<1>6. CASE Asked(left) = {}
  <2>1. FreqsOf(left) = {} /\ Lowest(left) = INT_MAX /\ Highest(left) = INT_MIN
    BY <1>6, EntriesAreFreqs, StrictestIs
  <2> QED
    BY <1>1, <1>2, <1>3, <1>4, <1>5, <2>1 DEF list
<1>7. CASE Asked(left) # {}
  <2>1. /\ Lowest(left) \in FreqsOf(left) /\ \A g \in FreqsOf(left) : Lowest(left) <= g
        /\ Highest(left) \in FreqsOf(left) /\ \A g \in FreqsOf(left) : g <= Highest(left)
        /\ FreqsOf(list) \in SUBSET Int
    BY <1>2, <1>7, StrictestIs, EntriesAreFreqs
  <2>2. Lowest(list) = IF f < Lowest(left) THEN f ELSE Lowest(left)
    BY <1>1, <1>4, <1>5, <2>1
  <2>3. Highest(list) = IF f > Highest(left) THEN f ELSE Highest(left)
    BY <1>1, <1>4, <1>5, <2>1
  <2> QED
    BY <1>2, <1>3, <1>5, <2>2, <2>3 DEF list
<1> QED
  BY <1>6, <1>7

(* The invariant of each list and its current limit. *)
MaxCounts(list, cur) == IF Asked(list) = {} THEN cur \in {INT_MAX, max_cpu_freq_limit}
                                            ELSE cur = Min(FreqsOf(list))
MinCounts(list, cur) == IF Asked(list) = {} THEN cur \in {INT_MIN, min_cpu_freq_limit}
                                            ELSE cur = Max(FreqsOf(list))

(* Every request leaves the strictest of the entries that are left. *)
LEMMA RequestsCount ==
    ASSUME OwnLimit, NEW p \in Owners
    PROVE  /\ \A f \in AllFreqs : AddMax(p, f) =>
                 MaxCounts(max_cpu_freq_list', cur_max_cpu_freq')
           /\ \A f \in AllFreqs : AddMin(p, f) =>
                 MinCounts(min_cpu_freq_list', cur_min_cpu_freq')
           /\ \A empty \in {INT_MAX, max_cpu_freq_limit} : RemoveMax(p, empty) =>
                 MaxCounts(max_cpu_freq_list', cur_max_cpu_freq')
           /\ RemoveMin(p, min_cpu_freq_limit) =>
                 MinCounts(min_cpu_freq_list', cur_min_cpu_freq')
<1>1. ASSUME NEW list \in Lists
      PROVE  Without(list, p) \in Lists /\ Without(list, p)[p] = NoFreq
  BY DEF Without, Lists
<1>2. max_cpu_freq_list \in Lists /\ min_cpu_freq_list \in Lists
  BY DEF OwnLimit, Lists
<1>3. ASSUME NEW f \in AllFreqs, AddMax(p, f)
      PROVE  MaxCounts(max_cpu_freq_list', cur_max_cpu_freq')
  BY <1>1, <1>2, <1>3, StrictestWith DEF AddMax, MaxCounts
<1>4. ASSUME NEW f \in AllFreqs, AddMin(p, f)
      PROVE  MinCounts(min_cpu_freq_list', cur_min_cpu_freq')
  BY <1>1, <1>2, <1>4, StrictestWith DEF AddMin, MinCounts
<1>5. ASSUME NEW list \in Lists
      PROVE  /\ Lowest(list) = INT_MAX <=> Asked(list) = {}
             /\ Highest(list) = INT_MIN <=> Asked(list) = {}
             /\ Asked(list) # {} =>
                   Lowest(list) = Min(FreqsOf(list)) /\ Highest(list) = Max(FreqsOf(list))
  BY StrictestIs, EntriesAreFreqs
<1>6. ASSUME NEW empty \in {INT_MAX, max_cpu_freq_limit}, RemoveMax(p, empty)
      PROVE  MaxCounts(max_cpu_freq_list', cur_max_cpu_freq')
  BY <1>1, <1>2, <1>5, <1>6 DEF RemoveMax, MaxCounts
<1>7. ASSUME RemoveMin(p, min_cpu_freq_limit)
      PROVE  MinCounts(min_cpu_freq_list', cur_min_cpu_freq')
  BY <1>1, <1>2, <1>5, <1>7 DEF RemoveMin, MinCounts
<1> QED
  BY <1>3, <1>4, <1>6, <1>7

(* The current limits are the strictest of the entries, for any frequencies *)
(* and processes.                                                          *)
THEOREM StrictestRequestCounts == Spec => []StrictestCounts
<1> USE DEF maxvars, minvars, modes
<1>0. /\ Self \in Owners /\ Pids \subseteq Owners
      /\ Freqs \subseteq AllFreqs /\ POWER_SAVING_CPUFREQ \in AllFreqs
  BY DEF Owners, AllFreqs
<1>1. StrictestCounts <=> /\ MaxCounts(max_cpu_freq_list, cur_max_cpu_freq)
                          /\ MinCounts(min_cpu_freq_list, cur_min_cpu_freq)
  BY DEF StrictestCounts, MaxCounts, MinCounts
<1>2. Init => StrictestCounts
  <2> SUFFICES ASSUME Init PROVE StrictestCounts
    OBVIOUS
  <2>1. Asked(min_cpu_freq_list) = {} /\ cur_min_cpu_freq = INT_MIN
    BY DEF Init, Asked
  <2>2. cur_max_cpu_freq = Lowest(max_cpu_freq_list)
    BY DEF Init
  <2> QED
    BY <2>1, <2>2 DEF StrictestCounts, Lowest
<1>3. OwnLimit /\ StrictestCounts /\ [Next]_vars => StrictestCounts'
  <2> SUFFICES ASSUME OwnLimit, StrictestCounts, [Next]_vars PROVE StrictestCounts'
    OBVIOUS
  <2>1. StrictestCounts' <=> /\ MaxCounts(max_cpu_freq_list', cur_max_cpu_freq')
                             /\ MinCounts(min_cpu_freq_list', cur_min_cpu_freq')
    BY DEF StrictestCounts, MaxCounts, MinCounts
  <2>2. UNCHANGED <<max_cpu_freq_list, cur_max_cpu_freq>> =>
            MaxCounts(max_cpu_freq_list', cur_max_cpu_freq')
    BY <1>1
  <2>3. UNCHANGED <<min_cpu_freq_list, cur_min_cpu_freq>> =>
            MinCounts(min_cpu_freq_list', cur_min_cpu_freq')
    BY <1>1
  <2>4. ASSUME NEW p \in Pids, NEW f \in Freqs, SetMax(p, f) \/ SetMin(p, f)
        PROVE  StrictestCounts'
    BY <1>0, <2>1, <2>2, <2>3, <2>4, RequestsCount DEF SetMax, SetMin
  <2>5. ASSUME NEW p \in Pids, ReleaseMax(p) \/ ReleaseMin(p)
        PROVE  StrictestCounts'
    BY <1>0, <2>1, <2>2, <2>3, <2>5, RequestsCount DEF ReleaseMax, ReleaseMin
  <2>6. CASE PowerSavingCb
    BY <1>0, <2>1, <2>2, <2>3, <2>6, RequestsCount DEF PowerSavingCb
  <2>7. CASE PowerSavingCpuCb
    BY <1>0, <2>1, <2>2, <2>3, <2>7, RequestsCount DEF PowerSavingCpuCb
  <2>8. CASE UNCHANGED <<maxvars, minvars>>
    BY <2>1, <2>2, <2>3, <2>8
  <2> QED
    BY <2>4, <2>5, <2>6, <2>7, <2>8
       DEF Next, MainLoop, vars, Exit, Start, Register, TurnSysmode, TurnCustmode
<1> QED
  BY <1>2, <1>3, OwnLimitInvariance, PTL DEF Spec

(* The frequencies the kernel works with are the strictest of the lists, for *)
(* any frequencies, processes, requests and failing writes.                 *)
THEOREM KernelFollowsTheLists == Spec => []KernelObeysStrictest
<1>1. StrictestCounts /\ KernelIsTold => KernelObeysStrictest
  BY DEF StrictestCounts, KernelIsTold, KernelObeysStrictest
<1> QED
  BY <1>1, StrictestRequestCounts, KernelKnowsTheLimits, PTL
----------------------------------------------------------------------------
(* A list as a request of p leaves it: of the processes that have gone, only *)
(* p has an entry.                                                           *)
LEMMA OnlyTheCallerStays ==
    ASSUME NEW list, NEW p \in Owners, NEW freq
    PROVE  LET left == Without(list, p) IN
           /\ Asked(left) \cap ((Pids \ alive) \ {p}) = {}
           /\ Asked([left EXCEPT ![p] = freq]) \cap ((Pids \ alive) \ {p}) = {}
  BY CpuFreqAssumption DEF Asked, Without

(* Every request for a list drops the entries of all processes that have     *)
(* gone by then, but that of the caller.                                     *)
THEOREM NoEntryOutlivesARequest == Spec => []GoneAreDropped
<1> USE DEF maxvars, minvars, modes
<1>0. Self \in Owners /\ Pids \subseteq Owners
  BY DEF Owners
<1>1. Init => GoneAreDropped
  BY DEF Init, NoRequest, GoneAreDropped
<1>2. GoneAreDropped /\ [Next]_vars => GoneAreDropped'
  <2> SUFFICES ASSUME GoneAreDropped, [Next]_vars PROVE GoneAreDropped'
    OBVIOUS
  <2>1. ASSUME NEW p \in Owners, NEW f, AddMax(p, f) PROVE GoneAreDropped'
    BY <2>1, OnlyTheCallerStays DEF AddMax, Serve, GoneAreDropped
  <2>2. ASSUME NEW p \in Owners, NEW empty, RemoveMax(p, empty) PROVE GoneAreDropped'
    BY <2>2, OnlyTheCallerStays DEF RemoveMax, Serve, GoneAreDropped
  <2>3. ASSUME NEW p \in Owners, NEW f, AddMin(p, f) PROVE GoneAreDropped'
    BY <2>3, OnlyTheCallerStays DEF AddMin, Serve, GoneAreDropped
  <2>4. ASSUME NEW p \in Owners, NEW empty, RemoveMin(p, empty) PROVE GoneAreDropped'
    BY <2>4, OnlyTheCallerStays DEF RemoveMin, Serve, GoneAreDropped
  <2>5. ASSUME served' = NoRequest PROVE GoneAreDropped'
    BY <2>5 DEF NoRequest, GoneAreDropped
  <2>6. CASE MainLoop
    <3>1. ASSUME NEW p \in Pids, NEW f \in Freqs, SetMax(p, f) \/ SetMin(p, f)
          PROVE  GoneAreDropped'
      BY <1>0, <2>1, <2>3, <3>1 DEF SetMax, SetMin
    <3>2. ASSUME NEW p \in Pids, ReleaseMax(p) \/ ReleaseMin(p)
          PROVE  GoneAreDropped'
      BY <1>0, <2>2, <2>4, <3>2 DEF ReleaseMax, ReleaseMin
    <3>3. CASE PowerSavingCb
      BY <1>0, <2>1, <2>2, <2>5, <3>3 DEF PowerSavingCb
    <3>4. CASE PowerSavingCpuCb
      BY <1>0, <2>1, <2>2, <2>5, <3>4 DEF PowerSavingCpuCb
    <3> QED
      BY <2>6, <3>1, <3>2, <3>3, <3>4 DEF MainLoop
  <2>7. CASE UNCHANGED vars
    BY <2>7 DEF vars, GoneAreDropped
  <2> QED
    BY <2>5, <2>6, <2>7 DEF Next, Register, TurnSysmode, TurnCustmode, Exit, Start
<1> QED
  BY <1>1, <1>2, PTL DEF Spec
=============================================================================
