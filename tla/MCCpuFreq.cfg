\* Small numbers stand for the frequencies: 1 and 5 are the limits of the
\* hardware, 3 is that of power saving, 0 and 9 are INT_MIN and INT_MAX.
SPECIFICATION Spec
CONSTANTS
    Pids = {p1, p2}
    Freqs = {2, 4}
    POWER_SAVING_CPUFREQ = 3
    max_cpu_freq_limit = 5
    min_cpu_freq_limit = 1
    INT_MAX = 9
    INT_MIN = 0
SYMMETRY AnyPid
INVARIANTS KernelObeysStrictest PowerSavingSettles GoneAreDropped
