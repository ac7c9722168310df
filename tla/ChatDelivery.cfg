SPECIFICATION FairSpec
CONSTANTS
    Keys = {"k"}
    Public = "open"
    Block = 2
    End = 4
    Convs = {0, 1}
    Peers = {1, 2}
    LogMax = 2
    DedupMax = 1
    Timeout = 2
    CleanupEvery = 1
    Packets <- MCPackets
    ChannelKey <- MCChannelKey
    RecentMax = 1
    QueueMax = 2
    ShownMax = 1
    TickSteps = {2, 3}
    Budgets <- MCBudgets
INVARIANTS
    ChatTypeOK
    NonceOnce
    StoredOnce
    ReceivedStaysReceived
    UnreadCounts
    QueuedHasReason
    SameVerdict
    ShownVerdict
    PassedOnce
PROPERTIES
    VerdictKept
    ResultsArrive
    IdSpec
CHECK_DEADLOCK FALSE
