CONSTANTS
    a = a
    m = m
    n = n
    x = x
    y = y
    sent = sent
    Inbox <- AnyMessage
    Handlers = {g, h}
    MessageIDs = {m, n}
    Users = {a, b}
    Me = me
    Names = {x, y}
    Statuses = {sent, failed}
    MaxUuid = 2
    None = None
    Faults = {"fails", "timeout", "crash"}
SPECIFICATION Spec
SYMMETRY Interchangeable
INVARIANTS
    TypeOK
    MessagesHaveConversation
PROPERTIES
    OnlySenderDeletes
    ImplementsDmStore
