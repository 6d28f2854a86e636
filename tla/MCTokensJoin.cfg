SPECIFICATION Spec
CONSTANTS
    p1 = p1
    Kind <- MCPairKind
    Flows <- MCPairFlows
    Inner = {}
    Body <- MCNoBody
    StartEvent = "start"
    Requests = {p1}
    MaxFaults = 0
INVARIANT JoinPasses
CHECK_DEADLOCK FALSE
