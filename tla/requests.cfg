SPECIFICATION BuildSpec
CONSTANTS
    Base = 256
    Unset = Unset
    Own = Own
    Handlers <- MCHandlers
    Operations <- MCOperations
    Members <- MCMembers
    TextWidth <- MCTextWidth
    FilledWidth <- MCFilledWidth
    ArrayWidth <- MCArrayWidth
    SomeWidth <- MCSomeWidth
    Lengths = {0, 120, 121, 360, 40000, 65540}
    MaxElements = 2
    TxMax = 30000
    RxMax = 60000
    ShortMax = 120
INVARIANTS LostOnlyIfFull TablesAgree
CHECK_DEADLOCK FALSE
