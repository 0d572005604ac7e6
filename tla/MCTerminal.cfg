CONSTANTS
    MaxServers = 1
    MaxProviders = 2
    Keys = {"zero", "one", "blank", "other", "no_utf8", "enter", "rubout", "cancel"}
    MaxTyped = 4
    MaxPrinted = 2
    MaxAttempts = 2
    Chunk = 2
    PtySize = 1
SPECIFICATION FairSpec
INVARIANTS TypeOK EveryByteOnce LastLook SelectionsAreRead
PROPERTIES ExitNoticed TypedArrives
CHECK_DEADLOCK FALSE
