SPECIFICATION Spec
CONSTANTS
    Base = 5
    Size = 23
    HeaderLen = 2
    Tags = {1, 6}
    Values <- MCValues
    Depth = 3
    MaxCalls = 9
    Unset = Unset
INVARIANTS InBounds NothingUnset NestedIsWhole RoundTrip
CHECK_DEADLOCK FALSE
