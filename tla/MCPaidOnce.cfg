SPECIFICATION Spec
CONSTANTS
    Accounts = {"cash"}
    Donations = {}
    Expenses = {"e1"}
    Earnings = {}
    Requests = {p1, p2}
    Amounts <- MCAmounts
    Opening <- MCOpening
    MaxSerial = 4
    MaxFaults = 0
INVARIANT PaidOnce
CHECK_DEADLOCK FALSE
