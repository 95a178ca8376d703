\* RENAME against the test that says it preserves expiry.
SPECIFICATION Spec
CONSTANTS
    DBs = {d0}
    Keys = {k1, k2}
    Strings = {v1}
    Elems = {e1}
    Absent = Absent
    MemoryLimited = FALSE
    Policy = "noeviction"
    TargetEvictions = 10
    MaxTime = 2
PROPERTY
    RenameCarriesDeadline
