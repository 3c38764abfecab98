\* The disk itself has no file system; its partition has.
SPECIFICATION Spec
CONSTANTS
    Devs <- MCDevs
    NameIn <- MCNameIn
    INT_MAX = 3
INVARIANT AnnouncedIsMounted
