CONSTANTS
    Main = main
    Session = {t1, t2}
    Key = {k1, k2, k3, k4}
    NoKey = NoKey
    Absent = Absent
    MaxCrashes = 2
SPECIFICATION Spec
INVARIANTS TypeOK PairsMatch OneHostKey
PROPERTY KeyKept
SYMMETRY Symmetry
CHECK_DEADLOCK FALSE
