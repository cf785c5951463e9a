SPECIFICATION Spec
CONSTANTS
    Sid = {1, 2, 3}
    Stores = {"redis", "memory"}
    Retention = 1
    Slack = 2
    Call = {p, q}
    Ticket = {1}
    RefreshTTL = 2
    MaxLifetime = 3
    TicketTTL = 1
    CallTime = 1
    MaxTime = 5
    MaxFailures = 1
    MaxCalls = 4
SYMMETRY Symmetry
CHECK_DEADLOCK FALSE
INVARIANTS
    UsedOnce
    LoggedOutStaysOut
