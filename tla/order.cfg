\* Orders and responses: handlers that overlap, or one handler at a time.
SPECIFICATION MCSpec
CONSTANTS
    User = {u1, u2, u3}
    City = {kazan}
    None = None
    Null = Null
    Order = {o1, o2}
    First = o1
    Response = {p1, p2}
    FirstResponse = p1
    Request = {r1, r2}
    FormatInputs <- Formats
    ActiveInputs <- OnOffNull
    Ops <- AllOps
SYMMETRY Symmetry
INVARIANTS
    StatusMatchesPerformer
    VisibleAsDue
    PartiesQualify
    SoloCounters
    SoloRules
PROPERTIES
    FollowsDeal
    SoloDelete
CHECK_DEADLOCK FALSE
