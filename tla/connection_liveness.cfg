CONSTANTS
    MaxCmds = 3
    MaxTroubles = 2
SPECIFICATION FairSpec
PROPERTY GoesOnline
