SPECIFICATION Spec
CONSTANTS
    Requests = {p1, p2}
    Keys = {k1}
    MaxFaults = 0
INVARIANT StartedOnce
