CONSTANTS
    p = p
    q = q
    d = d
    e = e
    one = one
    two = two
    Callers = {one, two}
    Passwords = {p, q}
    Databases = {}
    Statuses = {}
    Faults = {"crash"}
    None = None
    MaxSalts = 3
SPECIFICATION Spec
SYMMETRY Symmetry
PROPERTIES
    SetUpUntilPurge
CHECK_DEADLOCK FALSE
