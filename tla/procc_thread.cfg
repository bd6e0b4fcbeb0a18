CONSTANTS
    Cap = 6
SPECIFICATION ProccSpec
PROPERTIES DeadOnlyBeforeNull StarvedOnlyByFlood LeavesWhenAsked
CHECK_DEADLOCK FALSE
