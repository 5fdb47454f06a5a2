CONSTANTS
    p = p
    q = q
    d = d
    e = e
    one = one
    two = two
    Callers = {one}
    Passwords = {p, q}
    Databases = {d, e}
    Statuses = {TRUE, FALSE}
    Faults = {"setFails", "deleteFails", "crash"}
    None = None
    MaxSalts = 3
SPECIFICATION Spec
SYMMETRY Symmetry
INVARIANTS
    TypeOK
    NeverLockedOut
    EveryDatabaseListed
    EncryptedStaysEncrypted
CHECK_DEADLOCK FALSE
