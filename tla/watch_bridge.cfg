\* WATCH of a TCP client against a client of the WebSocket bridge.
SPECIFICATION TxSpec
CONSTANTS
    DBs = {d0}
    Keys = {k1}
    Strings = {v1}
    Elems = {e1}
    Absent = Absent
    MemoryLimited = FALSE
    Policy = "noeviction"
    TargetEvictions = 10
    MaxTime = 2
    Clients = {c1, c2}
    Bridged = {c2}
    FirstDb = d0
    Requests <- SetRequests
    MaxQueue = 1
\* Every client may leave, and then nothing is left to happen.
CHECK_DEADLOCK FALSE
PROPERTY
    WatchDetectsModifications
