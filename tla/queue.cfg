CONSTANTS
    Writers = {w1, w2}
    Values = {"a", "b"}
    None = None
    Free = Free
    Reader = Reader
    MaxInFlight = 3
    MaxPolls = 2
SPECIFICATION FairSpec
INVARIANTS ReadyIsUnread
PROPERTIES DeliversAll RefinesFifo
