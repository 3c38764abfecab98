\* The components may stop: deadlock is not an error.
SPECIFICATION FairSpec
CONSTANTS
    Clients = {c1, c2}
    Models <- MCModels
    MaxCalls = 2
    Lines = {l1, l2, l3}
    Pids = {1, 2, 3}
    Programs = {"a", "b"}
    MaxDeaths = 2
    Zones = {"Seoul", "Paris"}
INVARIANTS OnlyBadRequestsGoWrong KeysSettle LockFollowsPlug FullNoticeSettles
    NothingLostQuietly PermanentStays
PROPERTIES OnlyAStalledClientBlocks EveryCrashIsRead RequestTakesEffect
CHECK_DEADLOCK FALSE
