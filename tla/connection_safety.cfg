CONSTANTS
    MaxCmds = 4
    MaxTroubles = 2
SPECIFICATION Spec
INVARIANTS OnlineIsRegistered CodeKept NeedReqIsAsked StuckOnlyByRace StatusAgrees
