SPECIFICATION Spec
CONSTANTS
    Accounts = {"cash"}
    Donations = {"d1"}
    Expenses = {"e1"}
    Earnings = {"g1"}
    Requests = {p1, p2}
    Amounts <- MCAmounts
    Opening <- MCOpening
    MaxSerial = 3
    MaxFaults = 1
INVARIANTS
    TypeOK
    PaidIsMoved
    BooksAgree
SYMMETRY Symmetry
