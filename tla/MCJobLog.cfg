SPECIFICATION LogSpec
CONSTANTS
    Jobs = {j1}
    Workers = {w1, w2}
    MaxAttempts = 2
    MaxStalls = 1
    MaxRetries = 1
INVARIANTS
    LogTypeOK
    BudgetKept
    LogTruthful
CHECK_DEADLOCK FALSE
