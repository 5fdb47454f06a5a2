CONSTANTS
    call1 = call1
    call2 = call2
    call3 = call3
    Events <- MCEvents
    MaxID = 2
    MaxDepth = 5
    None = None
SPECIFICATION Spec
INVARIANTS
    TypeOK
    OwnEventIsHandled
    TimeoutWillFire
PROPERTIES
    ReturnsItsResult
    ExitIsTheEnd
    TimeoutIsNoticed
CHECK_DEADLOCK FALSE
