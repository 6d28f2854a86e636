SPECIFICATION FairSpec
CONSTANTS
    p1 = p1
    p2 = p2
    Kind <- MCKind
    Flows <- MCFlows
    Inner <- MCInner
    Body <- MCBody
    StartEvent = "start"
    Requests = {p1, p2}
    MaxFaults = 2
INVARIANTS
    TypeOK
    NothingLeft
    BranchesAccounted
PROPERTIES
    ConsumedForGood
    EveryWalkEnds
CHECK_DEADLOCK FALSE
