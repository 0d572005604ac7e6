CONSTANTS
    Server = {s1, s2}
    Actor = {killer, t1, t2}
    Killer = killer
    NoOne = NoOne
    NoServer = NoServer
    MaxCrashes = 1
    Unmanaged = {}
    Foreign = {}
    FailureStyle = {"raise", "false"}
    ProviderMayFail = TRUE
    ClientMayDrop = TRUE
    BillingAnswers = {"destroy", "keep", "error"}
SPECIFICATION Spec
INVARIANTS TypeOK SessionsListed LeakNeedsDrop Tracked KillerNotTwice
PROPERTIES InUseKept NoResurrection ImplementsServerDB ImplementsRegistry ImplementsServerLife
SYMMETRY Symmetry
CHECK_DEADLOCK FALSE
