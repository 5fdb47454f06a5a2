CONSTANTS
    call1 = call1
    call2 = call2
    database = database
    release1 = release1
    release2 = release2
    Calls <- MCCalls
    Databases <- MCDatabases
    Releases <- MCReleases
    Default = release1
    None = None
SPECIFICATION Spec
INVARIANTS
    TypeOK
    ApiIsOfAStartedProgram
    ManagersHaveWorkers
    WorkersMatch
PROPERTIES
    LastCallResolves
    ManagersConnect
CHECK_DEADLOCK FALSE
