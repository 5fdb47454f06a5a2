CONSTANTS
    p = p
    q = q
    d = d
    e = e
    one = one
    two = two
    Callers = {one, two}
    Passwords = {p}
    Databases = {d}
    Statuses = {TRUE, FALSE}
    Faults = {"crash"}
    None = None
    MaxSalts = 1
SPECIFICATION Spec
SYMMETRY Symmetry
PROPERTIES
    SealUntilPurge
CHECK_DEADLOCK FALSE
