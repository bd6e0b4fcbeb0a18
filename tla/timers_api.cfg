CONSTANTS
    Ids = {"i1"}
    Names <- AllNames
    Request <- RequestOf
    Dispatch <- DispatchOf
    Cases <- TimerCases
    Unasked <- OwnIds
    None = "none"
    Free = Free
    Procc = Procc
    TIMEOUT = 2
    TickMod = 4
    MaxStall = 3
    MaxUnasked = 1
SPECIFICATION FairSpec
INVARIANTS AnswerMatchesRequest
PROPERTIES EventuallyAnswered
