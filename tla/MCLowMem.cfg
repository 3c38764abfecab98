\* The intervals are those of the code.
SPECIFICATION FairSpec
CONSTANTS
    Levels = {"NORMAL", "LOW", "CRITICAL", "REBOOT"}
    OOM_TIMER_INTERVAL = 5
    CLEANUP_INTERVAL = 15
INVARIANTS TimerFollowsLevel CleanupNotStarved
PROPERTIES CriticalKeepsActing CriticalIsPublished
