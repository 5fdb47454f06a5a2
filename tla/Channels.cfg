CONSTANTS
    m = m
    n = n
    sent = sent
    failed = failed
    Handlers = {g, h}
    MessageIDs = {m, n}
    ChannelIDs = {c, d}
    Statuses = {sent, failed}
    Flags = {TRUE}
    Changes <- AllChanges
    MaxUuid = 2
    None = None
    Faults = {"fails", "timeout", "crash"}
SPECIFICATION FairSpec
INVARIANTS
    TypeOK
    OneRecordPerMessage
PROPERTIES
    DeletedStaysDeleted
    ImplementsStore
    CallsReturn
CHECK_DEADLOCK FALSE
