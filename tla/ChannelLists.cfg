CONSTANTS
    Names = {"ChannelNotifications", "ChannelListLeftOut"}
    Content <- MCContent
    Entries <- MCEntries
    MaxEvents = 2
SPECIFICATION Spec
INVARIANTS
    DeclaredTypesDecode
CHECK_DEADLOCK FALSE
