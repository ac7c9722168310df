SPECIFICATION Spec
CONSTANTS
    Programs = {"Arduino"}
    QueueMax = 12
    ReadMax = 13
    MaxFrames = 1
    MaxPlugs = 1
    MaxNews = 1
    MaxStarts = 1
INVARIANTS
    HostKnowsTeamState
CHECK_DEADLOCK FALSE
