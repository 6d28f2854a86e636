SPECIFICATION FairSpec
CONSTANTS
    Jobs = {j1}
    Workers = {w1, w2}
    Mailed = {j1}
    Pushed = {j1}
    Recipients = {u1}
    Sample = u1
    Clients = {c1}
    MaxAttempts = 2
    MaxStalls = 1
    MaxRetries = 1
    MaxCommands = 1
INVARIANTS
    TypeOK
    MailsBounded
    CompletedIsDelivered
PROPERTY
    EveryDispatchSettles
CHECK_DEADLOCK FALSE
