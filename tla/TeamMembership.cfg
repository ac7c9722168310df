SPECIFICATION Spec
CONSTANTS
    ann = ann
    bob = bob
    NoNode = NoNode
    Self = Self
    Node = {ann, bob}
    MaxDraws = 2
    Commands = {"Create", "Join", "Invite", "Retry", "Cancel", "Leave", "Transfer", "Back", "Close", "Restart"}
    QueueMax = 2
    AirMax = 1
    MaxActs = 3
CHECK_DEADLOCK FALSE
SYMMETRY TwoDevices
INVARIANTS
    TypeOK
    OneKeyInDevice
    NeverTwoKeys
    KeyInv
    MInv
PROPERTIES
    NobodyJoinsUnasked
    KeepsTeamPromise
