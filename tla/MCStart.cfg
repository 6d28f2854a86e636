SPECIFICATION FairSpec
CONSTANTS
    Requests = {p1, p2, p3}
    Keys = {k1}
    MaxFaults = 2
INVARIANTS
    TypeOK
    OneStarter
    LiveAnswerReplayed
PROPERTY
    EveryKeyAnswered
