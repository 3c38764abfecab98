\* Three requests meet while the modem is silent; a device that is down stops.
SPECIFICATION FairSpec
CONSTANTS
    MaxRequests = 3
    TIMEOUT = 15
    DURATION = 2
INVARIANTS DownAsAsked DeadlineKept
PROPERTY GoesDown
CHECK_DEADLOCK FALSE
