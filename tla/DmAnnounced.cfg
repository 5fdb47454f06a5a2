CONSTANTS
    a = a
    m = m
    n = n
    x = x
    y = y
    sent = sent
    Inbox <- TwoMessages
    Handlers = {g}
    MessageIDs = {m, n}
    Users = {a}
    Me = me
    Names = {x, y}
    Statuses = {sent}
    MaxUuid = 2
    None = None
    Faults = {}
SPECIFICATION Spec
CONSTRAINTS
    OnlyReceives
INVARIANTS
    ChangesAnnounced
CHECK_DEADLOCK FALSE
