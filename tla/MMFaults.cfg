CONSTANTS
    main = main
    worker = worker
    a = a
    b = b
    c = c
    Main = main
    Remote = worker
    Threads <- OneSided
    Home <- OneSidedHome
    CallTags = {"rpc"}
    CastTags = {"cast"}
    Faults = {"timeout", "postError", "crash", "stop", "silence", "errorEvent"}
    NoMessage = NoMessage
    MaxReplies = 1
    MaxPosts <- TwoAndNone
SPECIFICATION FairSpec
INVARIANTS
    TypeOK
    WaitingHasCallback
PROPERTIES
    StoppedIsSilent
    SendReturns
CHECK_DEADLOCK FALSE
