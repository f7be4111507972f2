\* Reviews of completed orders: handlers, the timer and a stop at once, or one
\* handler at a time.
SPECIFICATION MCSpec
CONSTANTS
    o1 = o1
    a = a
    b = b
    p = p
    r1 = r1
    t1 = t1
    None = None
    Order = {o1, o2}
    User = {a, b, p}
    Customer <- TwoCustomers
    Performer <- OnePerformer
    Request = {r1, r2, r3}
    Text = {t1, t2}
    MaxStops = 1
INVARIANTS
    NothingLeaks
    OpenTogether
    SoloRating
PROPERTIES
    NoRetort
    EveryReviewOpens
CHECK_DEADLOCK FALSE
