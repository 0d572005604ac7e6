CONSTANTS
    Server = {s1, u1, f1}
    Actor = {killer, t1, t2}
    Killer = killer
    NoOne = NoOne
    NoServer = NoServer
    MaxCrashes = 0
    Unmanaged = {u1}
    Foreign = {f1}
    FailureStyle = {"raise", "false"}
    ProviderMayFail = FALSE
    ClientMayDrop = FALSE
    BillingAnswers = {"destroy", "error"}
SPECIFICATION FairSpec
PROPERTIES KillerDiesForAReason Reclaimed SessionsEnd
CHECK_DEADLOCK FALSE
