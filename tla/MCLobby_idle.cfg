CONSTANTS
    Server = {s1, s2}
    Actor = {killer, t1, t2}
    Killer = killer
    NoOne = NoOne
    NoServer = NoServer
    MaxCrashes = 0
    Unmanaged = {}
    Foreign = {}
    FailureStyle = {"false"}
    ProviderMayFail = FALSE
    ClientMayDrop = FALSE
    BillingAnswers = {"destroy"}
SPECIFICATION Spec
PROPERTY DestroyOnlyIdle
CHECK_DEADLOCK FALSE
