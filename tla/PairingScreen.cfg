SPECIFICATION FairSpec
CONSTANTS
    ann = ann
    bob = bob
    NoNode = NoNode
    Self = Self
    Node = {ann, bob}
    MaxDraws = 1
    Commands = {"Create", "Join", "Invite", "Retry", "Cancel", "Back", "Close", "Restart"}
    QueueMax = 2
    AirMax = 0
    MaxActs = 3
CHECK_DEADLOCK FALSE
PROPERTIES
    PairingScreenEnds
