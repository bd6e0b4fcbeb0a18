CONSTANTS
    Ids = {"i1", "i2"}
    Names <- SomeNames
    Request <- RequestOf
    Dispatch <- DispatchOf
    Cases <- TimerCases
    Unasked <- Colliding
    None = "none"
    Free = Free
    Procc = Procc
    TIMEOUT = 2
    TickMod = 4
    MaxStall = 3
    MaxUnasked = 1
SPECIFICATION Spec
INVARIANTS PendingIsTimed TwiceOnlyByRace
PROPERTIES SettledForGood NoEarlyTimeout ScanIsComplete
