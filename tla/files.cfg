\* Projects, avatars and attachments: two handlers, or one at a time.
SPECIFICATION MCSpec
CONSTANTS
    User = {u1, u2}
    Project = {p1, p2}
    None = None
    Picture = {f1, f2, f3}
    Video = {v1}
    Request = {r1, r2}
    MAX_PORTFOLIO_IMAGES = 2
    MaxStops = 1
    MaxChat = 1
    Second = p2
SYMMETRY Names
INVARIANTS
    OthersKept
    NoOrphans
    PicturesOnDiskSolo
CHECK_DEADLOCK FALSE
