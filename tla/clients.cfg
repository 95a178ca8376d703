SPECIFICATION MCSpec
CONSTANTS
    x = x
    y = y
    k1 = k1
    k2 = k2
    k3 = k3
    k4 = k4
    ZNames = {1, 2, 3}
    Infinity = 2
    ZGiven <- MCZGiven
    ZFlags = {{}, {"NX"}, {"XX"}, {"GT"}, {"LT"}}
    ZMaxArgs = 2
    ZMayRefuse = TRUE
    LValues = {x, y}
    LMaxLen = 3
    LMayRefuse = TRUE
    HFields = {x, y}
    HGiven <- MCHGiven
    Text = Text
    NoField = NoField
    IntMax = 3
    FloatMax = 8
    HMayRefuse = TRUE
    ScanKeys = {k1, k2, k3, k4}
    Buckets = 4
    Bucket <- MCBucket
    MatchedKeys = {k1, k2, k4}
    Counts = {1, 2}
    Chars = {x, y}
    Items <- MCItems
    Star = Star
    Unclosed = Unclosed
    GMaxPattern = 4
    GMaxString = 3
    Asterisk = Asterisk
    Dollar = Dollar
    Plus = Plus
    CR = CR
    LF = LF
    Letters <- MCLetters
    Quit = Quit
    Streams <- MCStreams
    WChunk = 5
    Base = 3
    SmallMax = 2
    Mask <- MCMask
    Dialogues <- MCDialogues
    Replies <- MCReplies
    FChunk = 14
    MaxSockets = 2
    MaxRequests = 4
    MaxUnderWay = 2
    Dbs = {0, 1}
INVARIANTS
    IndexExact
    SortedUnlessNaN
    OptionsHonoured
    RangesExact
    LremExact
    ListRepliesExact
    FullScanComplete
    NoKeyTwice
    GlobExact
    CommandsAsWritten
    TextsAsSent
    AnswersReadBack
    RepliesReachCallbacks
    DashboardInStep
    DatabaseInStep
PROPERTIES
    ListChangesBumped
    HashRepliesTrue
    ScanEnds
    RequestsAnswered
CHECK_DEADLOCK FALSE
