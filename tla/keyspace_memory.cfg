\* A memory limit under volatile-lru; one call of evict removes one key, and a
\* write may be refused, which leaves deadlines without a value behind.
\* No symmetry: ExpiredEventuallyPurged is a liveness property.
SPECIFICATION FairSpec
CONSTANTS
    DBs = {d0}
    Keys = {k1, k2}
    Strings = {v1}
    Elems = {e1, e2}
    Absent = Absent
    MemoryLimited = TRUE
    Policy = "volatile-lru"
    TargetEvictions = 1
    MaxTime = 3
PROPERTIES
    SilentChangesAreRefusedSadds
    PersistentKeysSurviveWrites
    VanishedKeysBumped
    ExpiredEventuallyPurged
