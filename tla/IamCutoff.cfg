SPECIFICATION Spec
CONSTANTS
    Sid = {1, 2}
    Stores = {"redis"}
    Retention = 1
    Slack = 2
    Call = {p, q, r}
    Ticket = {1}
    RefreshTTL = 2
    MaxLifetime = 3
    TicketTTL = 1
    CallTime = 1
    MaxTime = 2
    MaxFailures = 0
    MaxCalls = 5
SYMMETRY Symmetry
CHECK_DEADLOCK FALSE
INVARIANT CutoffRejects
