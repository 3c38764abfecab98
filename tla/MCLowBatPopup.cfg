\* Three acts waiting at a time, launches that fail.
SPECIFICATION PopupFairSpec
CONSTANTS
    MaxCalls = 3
    MayFail = TRUE
INVARIANTS LatestRunIsShown
PROPERTY LastIsShown
