\* Codes and passwords of an account: handlers at once, or one at a time.
SPECIFICATION MCSpec
CONSTANTS
    Code = {k1, k2}
    Password = {p1, p2}
    None = None
    Request = {r1, r2}
    Ops <- AllOps
    MaxAttempts = 2
    LockTime = 2
    CodeTime = 1
    Cooldown = 1
    Patience = 1
    MaxTime = 3
SYMMETRY Symmetry
INVARIANTS
    GuessLimit
    RefusedWhileLocked
    SoloReset
PROPERTIES
    LockLasts
    SoloSaves
CHECK_DEADLOCK FALSE
