CONSTANTS
    Channel = {c1, c2}
    NoChannel = NoChannel
    MaxPty = 2
SPECIFICATION FairSpec
INVARIANTS TypeOK ProxyHasPty PtyWaitIsInVain
PROPERTIES Served LostClientNoticed
CHECK_DEADLOCK FALSE
