\* One client, two keys with strings, sets and deadlines.
SPECIFICATION TxSpec
CONSTANTS
    DBs = {d0}
    Keys = {k1, k2}
    Strings = {v1}
    Elems = {e1, e2}
    Absent = Absent
    MemoryLimited = FALSE
    Policy = "noeviction"
    TargetEvictions = 10
    MaxTime = 3
    Clients = {c1}
    Bridged = {}
    FirstDb = d0
    Requests <- CommandRequests
    MaxQueue = 1
\* Every client may leave, and then nothing is left to happen.
CHECK_DEADLOCK FALSE
PROPERTIES
    CommitMeansUnchanged
