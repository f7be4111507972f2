\* The demonstration set: up to three runs, one stop, the site used between them.
SPECIFICATION MCSpec
CONSTANTS
    Null = Null
    Host = host
    Visitor = visitor
    HostOrder = hostOrder
    REVIEW_WINDOW_DAYS = 14
    CANCEL_REPLY_DAYS = 3
    MaxRuns = 3
    MaxStops = 1
INVARIANTS
    SetOnce
    SeededDeals
    SeededCounters
PROPERTY RealKept
CHECK_DEADLOCK FALSE
