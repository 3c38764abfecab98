\* MAX_BATTERY_ERROR is 10 in the code; 1 tells few from too many.
SPECIFICATION FairSpec
CONSTANTS
    Readings <- MCReadings
    MAX_BATTERY_ERROR = 1
INVARIANTS StatusAgrees SlowOnlyWhenHandled
PROPERTIES HealthyReadingRepairs DescentCalls LevelIsHandled
