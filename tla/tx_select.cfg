\* Two TCP clients, two databases of one key.
SPECIFICATION TxSpec
CONSTANTS
    DBs = {d0, d1}
    Keys = {k1}
    Strings = {v1}
    Elems = {e1}
    Absent = Absent
    MemoryLimited = FALSE
    Policy = "noeviction"
    TargetEvictions = 10
    MaxTime = 1
    Clients = {c1, c2}
    Bridged = {}
    FirstDb = d0
    Requests <- SelectRequests
    MaxQueue = 1
\* Every client may leave, and then nothing is left to happen.
CHECK_DEADLOCK FALSE
SYMMETRY Symmetry
INVARIANTS
    TxTypeOK
    WatchTableExact
PROPERTIES
    CommitMeansUnchanged
