CONSTANTS
    p = p
    q = q
    d = d
    e = e
    one = one
    two = two
    Callers = {one, two}
    Passwords = {p}
    Databases = {d, e}
    Statuses = {TRUE}
    Faults = {}
    None = None
    MaxSalts = 1
SPECIFICATION Spec
SYMMETRY Symmetry
PROPERTIES
    EntryUntilPurge
CHECK_DEADLOCK FALSE
