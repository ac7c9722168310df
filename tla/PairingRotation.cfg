SPECIFICATION FairSpec
CONSTANTS
    ann = ann
    bob = bob
    cat = cat
    red = red
    blue = blue
    red1 = red1
    red2 = red2
    blue1 = blue1
    theReds = theReds
    NoNode = NoNode
    NoTeam = NoTeam
    NoPsk = NoPsk
    NoName = NoName
    Broadcast = Broadcast
    NoPacket = NoPacket
    Node = {ann, cat}
    Team = {red, blue}
    Psk = {red1, red2, blue1}
    Name = {theReds}
    Offers <- RotatedOffers
    Joiners <- OnlyCat
    KeepFirst = TRUE
    LeaderWindow = 1
    MemberTimeout = 2
    BeaconInterval = 1
    JoinRetry = 1
    JoinRetryMax = 1
    JoinSentHold = 1
    ClockMod = 64
    MaxTime = 3
    LastStart = 1
    MaxNonce = 4
CHECK_DEADLOCK FALSE
INVARIANTS
    TypeOK
    OneKeyPerRound
    TransportFollowsSession
PROPERTIES
    SessionEnds
    NoKeyFromBeforeTheBeacon
    MemberScansItsWindow
