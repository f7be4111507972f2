\* Work handed in while the other offers of the order are still being closed.
SPECIFICATION MCSpec
CONSTANTS
    User = {u1, u2}
    RaceUser = {u1, u2}
    None = None
    Order = {o1}
    Card = {c1, c2}
    RaceCard = {c1, c2}
    d1 = c1
    d2 = c1
    d3 = c1
    d4 = c1
    Request = {r1, r2}
    RaceRequest = {r1, r2}
    Ops <- LateOps
INVARIANT ReviewAnswerable
CHECK_DEADLOCK FALSE
