SPECIFICATION Spec
CONSTANTS
    p1 = p1
    p2 = p2
    Nobody = Nobody
    Requests = {p1, p2}
    NumAccounts = 2
    Amounts = {1, 2}
    Ops = {"OUT", "TRANSFER", "REVERSE", "UPDATE"}
    Opening <- MCOpening
    MaxSerial = 5
    MaxFaults = 1
SYMMETRY MCRequests
INVARIANTS
    TypeOK
    IInv
    NoOverdraft
    CreditFollowsDebit
    ReversedOnce
    NoWaitCycle
PROPERTY
    ImplementsBook
CHECK_DEADLOCK FALSE
