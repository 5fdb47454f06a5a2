CONSTANTS
    Names = {"DmReceived", "DmDeleted"}
    Content <- MCContent
    Entries <- MCEntries
    MaxEvents = 2
SPECIFICATION Spec
INVARIANTS
    EventsAreOfTheirType
CHECK_DEADLOCK FALSE
