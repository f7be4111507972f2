\* Deleting an order while its performer is being assigned.
SPECIFICATION MCSpec
CONSTANTS
    User = {u1, u2}
    City = {kazan}
    None = None
    Null = Null
    Order = {o1}
    First = o1
    Response = {}
    FirstResponse = p1
    Request = {r1, r2}
    FormatInputs <- RemoteOnly
    ActiveInputs <- OnOnly
    Ops <- DeleteOps
PROPERTY DealNeverDeleted
CHECK_DEADLOCK FALSE
