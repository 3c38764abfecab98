\* A pipe so short that a burst of calls fills it; the daemon then stops.
SPECIFICATION PipeSpec
CONSTANTS
    MaxCalls = 4
    Pids = {101, 102}
    PipeCap = 4
    MayStop = FALSE
INVARIANTS BlockedOnlyByBurst
CHECK_DEADLOCK FALSE
