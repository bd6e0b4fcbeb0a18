CONSTANTS
    Ids = {"i1"}
    Free = Free
    Procc = Procc
    TIMEOUT = 1
    TickMod = 3
    MaxStall = 2
    MaxRequests = 4
    MaxUnasked = 1
    NoId = NoId
SPECIFICATION Spec
INVARIANTS FreshIsOwn UntimedOnlyByErase
PROPERTIES FreshIsNotEarly AnsweredUnlessErased
