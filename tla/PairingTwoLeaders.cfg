SPECIFICATION Spec
CONSTANTS
    ann = ann
    bob = bob
    cat = cat
    red = red
    blue = blue
    red1 = red1
    red2 = red2
    blue1 = blue1
    theReds = theReds
    NoNode = NoNode
    NoTeam = NoTeam
    NoPsk = NoPsk
    NoName = NoName
    Broadcast = Broadcast
    NoPacket = NoPacket
    Node = {ann, bob, cat}
    Team = {red, blue}
    Psk = {red1, red2, blue1}
    Name = {theReds}
    Offers <- CrossedOffers
    Joiners <- OnlyCat
    KeepFirst = FALSE
    LeaderWindow = 1
    MemberTimeout = 1
    BeaconInterval = 1
    JoinRetry = 1
    JoinRetryMax = 2
    JoinSentHold = 1
    ClockMod = 64
    MaxTime = 2
    LastStart = 1
    MaxNonce = 3
CHECK_DEADLOCK FALSE
INVARIANTS
    IInv
    KeyOfNamedLeader
PROPERTIES
    DeadlineStands
    KeepsPromise
