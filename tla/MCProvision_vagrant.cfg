CONSTANTS
    Thread = {t1}
    Provider = {"vagrant"}
    Vagrant = {"vagrant"}
    Kind <- KindIs
    Prefix <- PrefixIs
    MaxSuffix = 1
    MaxMinute = 1
    Before = 0
    NoProvider = NoProvider
    NoName = NoName
    MaxCheck = 2
    NoThread = NoThread
    ProviderMayFail = FALSE
    ClientMayDrop = FALSE
    MaxCrashes = 0
SPECIFICATION FairSpec
PROPERTY UnusedDestroyed
CHECK_DEADLOCK FALSE
