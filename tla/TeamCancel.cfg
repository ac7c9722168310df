SPECIFICATION Spec
CONSTANTS
    ann = ann
    bob = bob
    NoNode = NoNode
    Self = Self
    Node = {ann, bob}
    MaxDraws = 1
    Commands = {"Create", "Join", "Cancel"}
    QueueMax = 4
    AirMax = 1
    MaxActs = 3
CHECK_DEADLOCK FALSE
SYMMETRY TwoDevices
PROPERTIES
    CancelledStaysOut
