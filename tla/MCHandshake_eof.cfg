CONSTANTS
    Channel = {c1, c2}
    NoChannel = NoChannel
    MaxPty = 1
SPECIFICATION FairSpec
PROPERTY EofEnds
CHECK_DEADLOCK FALSE
