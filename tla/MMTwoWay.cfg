CONSTANTS
    main = main
    worker = worker
    a = a
    b = b
    c = c
    Main = main
    Remote = worker
    Threads <- Alternating
    Home <- AlternatingHome
    CallTags = {"rpc"}
    CastTags = {"cast"}
    Faults = {"timeout", "crash"}
    NoMessage = NoMessage
    MaxReplies = 1
    MaxPosts <- ThreeAndOne
SPECIFICATION Spec
INVARIANTS
    AnswerMatchesRequest
PROPERTIES
    ImplementsPromise
CHECK_DEADLOCK FALSE
