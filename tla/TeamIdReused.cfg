SPECIFICATION Spec
CONSTANTS
    ann = ann
    bob = bob
    NoNode = NoNode
    Self = Self
    Node = {ann, bob}
    MaxDraws = 2
    Commands = {"Create", "Join", "Back", "Leave"}
    QueueMax = 4
    AirMax = 1
    MaxActs = 4
CHECK_DEADLOCK FALSE
SYMMETRY TwoDevices
INVARIANTS
    TeamsHaveTheirOwnIds
