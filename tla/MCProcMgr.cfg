\* Scans of /proc may fail, clients set any kind of value.
SPECIFICATION Spec
CONSTANTS
    Procs = {p1, p2, p3, p4}
    LIMITED_PROCESS_OOMADJ = 4
    SetValues = {1, 4, 5}
    ScanMayFail = TRUE
SYMMETRY Symmetry
INVARIANTS LruOrder NoTies
PROPERTY OldestKilledFirst
