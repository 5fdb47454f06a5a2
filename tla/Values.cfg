CONSTANTS
    h1 = h1
    h2 = h2
    h3 = h3
    obj1 = obj1
    obj2 = obj2
    bigint = bigint
    undefined = undefined
    Handles <- MCHandles
    Objects <- MCObjects
    Untyped <- MCUntyped
    Immediates <- MCImmediates
    Infinity = Infinity
    Free = Free
    MaxUntyped = 2
SPECIFICATION Spec
INVARIANTS
    TypeOK
    HandleDenotesItsValue
    SlotsAreUsedOrFree
PROPERTIES
    ImplementsHandles
