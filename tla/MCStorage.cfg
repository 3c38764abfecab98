\* Three announcements wrap the counters.  Four events on their way: one card
\* goes and comes twice meanwhile.
SPECIFICATION StorageSpec
CONSTANTS
    Devs <- MCDevs
    NameIn <- MCNameIn
    INT_MAX = 3
    Cards <- MCCards
    MaxEvents = 4
INVARIANTS NothingHidden EventsSettle RepliesAreTrue
PROPERTY AnnouncementsAreSeen
