\* An edit that sends is_active: null.
SPECIFICATION MCSpec
CONSTANTS
    User = {u1}
    City = {kazan}
    None = None
    Null = Null
    Order = {o1}
    First = o1
    Response = {}
    FirstResponse = p1
    Request = {r1}
    FormatInputs <- RemoteOnly
    ActiveInputs <- OnOffNull
    Ops <- PublishOps
INVARIANT ListedIsAssignable
CHECK_DEADLOCK FALSE
