SPECIFICATION FairSpec
CONSTANTS
    Programs = {"Arduino", "IDF"}
    QueueMax = 2
    ReadMax = 3
    MaxFrames = 3
    MaxPlugs = 2
    MaxNews = 1
    MaxStarts = 1
INVARIANTS
    TypeOK
    GreetingInOrder
PROPERTIES
    CommandsOfThisLink
    KeepsCommandPromise
    CommandsLeave
CHECK_DEADLOCK FALSE
