\* Two databases of two keys, one string, sets over one member, no memory limit.
SPECIFICATION Spec
CONSTANTS
    DBs = {d0, d1}
    Keys = {k1, k2}
    Strings = {v1}
    Elems = {e1}
    Absent = Absent
    MemoryLimited = FALSE
    Policy = "noeviction"
    TargetEvictions = 10
    MaxTime = 2
SYMMETRY Symmetry
INVARIANTS
    TypeOK
    MapsAgree
    TimersOwned
PROPERTIES
    VisibleChangeBumped
    ImplementsAbstract
