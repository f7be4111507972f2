\* A dialogue under overlapping handlers, one at a time, and with a reader;
\* three connections of two users.
SPECIFICATION MCSpec
CONSTANTS
    User = {a, b, c}
    Text = {t1, t2}
    None = None
    Request = {r1, r2}
    MAX_HISTORY_PAGE_SIZE = 2
    Limit = {0, 9}
    MaxMessages = 3
    MaxTime = 1
    Person = {u1, u2}
    Socket = {s1, s2, s3}
    Pair = {a, b}
    Foreign = 2
    OneText = t1
    MaxShort = 2
SYMMETRY Alike
INVARIANTS
    PagesComplete
    ListAgrees
    TabsTrueSolo
    PresenceTrueSolo
PROPERTIES
    ReadStays
    OfflineAtLast
CHECK_DEADLOCK FALSE
