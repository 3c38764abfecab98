\* Three calls, two children that may stop and exit at any time; fairness of
\* the thread and its handler only.
SPECIFICATION FairSpec
CONSTANTS
    MaxCalls = 3
    Pids = {101, 102}
    PipeCap = 7
    MayStop = TRUE
INVARIANTS NoLostWakeup DeadChildWillBeCleared
PROPERTIES FreedOnlyWhenOver ImplementsService EveryCallStarts EveryEndedCallIsFreed
CHECK_DEADLOCK FALSE
