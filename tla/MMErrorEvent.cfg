CONSTANTS
    main = main
    worker = worker
    a = a
    b = b
    c = c
    Main = main
    Remote = worker
    Threads <- OneSided
    Home <- OneSidedHome
    CallTags = {"rpc"}
    CastTags = {"cast"}
    Faults = {"stop", "errorEvent"}
    NoMessage = NoMessage
    MaxReplies = 1
    MaxPosts <- TwoAndNone
SPECIFICATION FairSpec
PROPERTIES
    StopCompletes
CHECK_DEADLOCK FALSE
