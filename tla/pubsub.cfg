SPECIFICATION Spec
CONSTANTS
    c1 = c1
    c2 = c2
    ch1 = ch1
    p1 = p1
    Clients = {c1, c2, w1}
    Bridged = {w1}
    Channels = {ch1, ch2}
    Patterns = {p1}
    Matches <- MCMatches
SYMMETRY Symmetry
INVARIANTS
    TypeOK
    SubscribersKnown
    NoStaleSubscriber
PROPERTY PublishReachesSubscribers
\* The process may have died, or every connection be gone.
CHECK_DEADLOCK FALSE
