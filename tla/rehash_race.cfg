\* A password is changed while a login hashes the old one anew.
SPECIFICATION MCSpec
CONSTANTS
    Code = {k1}
    Password = {p1, p2}
    None = None
    Request = {r1, r2}
    Ops <- PasswordOps
    MaxAttempts = 2
    LockTime = 2
    CodeTime = 1
    Cooldown = 1
    Patience = 1
    MaxTime = 1
SYMMETRY Symmetry
PROPERTY RehashKeeps
CHECK_DEADLOCK FALSE
