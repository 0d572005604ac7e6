CONSTANTS
    Thread = {t1, t2}
    Provider <- Kinds
    Vagrant = {"vagrant"}
    Kind <- KindIs
    Prefix <- PrefixIs
    MaxSuffix = 2
    MaxMinute = 2
    Before = 1
    NoProvider = NoProvider
    NoName = NoName
    MaxCheck = 2
    NoThread = NoThread
    ProviderMayFail = TRUE
    ClientMayDrop = TRUE
    MaxCrashes = 1
SPECIFICATION Spec
INVARIANTS TypeOK OwnWorkspace RecordIsUsable AbandonedForAReason OwnSshConfig
PROPERTIES RecordKept CreationEnds ImplementsServerLife
SYMMETRY Symmetry
CHECK_DEADLOCK FALSE
