CONSTANTS
    main = main
    worker = worker
    a = a
    b = b
    c = c
    Main = main
    Remote = worker
    Threads <- OneSided
    Home <- OneSidedHome
    CallTags = {"rpc"}
    CastTags = {"cast"}
    Faults = {"stop", "crash"}
    NoMessage = NoMessage
    MaxReplies = 2
    MaxPosts <- TwoAndNone
SPECIFICATION FairSpec
INVARIANTS
    ReceptionNeverBlocked
PROPERTIES
    StopCompletes
    ReachedIsAnswered
CHECK_DEADLOCK FALSE
