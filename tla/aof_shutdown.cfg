SPECIFICATION PSpec
CONSTANTS
    db0 = db0
    db1 = db1
    k1 = k1
    k2 = k2
    DBs = {db0, db1}
    Keys = {k1, k2}
    Strings = {v}
    Elems = {e}
    Absent = Absent
    MemoryLimited = FALSE
    Policy = "noeviction"
    TargetEvictions = 10
    MaxTime = 2
    FirstDb = db0
    Requests <- MCRequests
    Queues <- MCQueues
    Configs <- AofConfigs
    MaxCommands = 4
PROPERTY ShutdownKeepsData
