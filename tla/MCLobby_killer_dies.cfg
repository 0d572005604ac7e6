CONSTANTS
    Server = {s1, s2}
    Actor = {killer, t1, t2}
    Killer = killer
    NoOne = NoOne
    NoServer = NoServer
    MaxCrashes = 0
    Unmanaged = {}
    Foreign = {}
    FailureStyle = {"raise"}
    ProviderMayFail = FALSE
    ClientMayDrop = FALSE
    BillingAnswers = {"destroy"}
SPECIFICATION FairSpec
PROPERTY RecordedReclaimed
CHECK_DEADLOCK FALSE
