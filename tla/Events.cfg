CONSTANTS
    Names <- MCNames
    Content <- MCContent
    Entries <- MCEntries
    MaxEvents = 2
SPECIFICATION Spec
INVARIANTS
    HeardAsRaised
PROPERTIES
    RaisedIsHeard
CHECK_DEADLOCK FALSE
