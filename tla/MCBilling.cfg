CONSTANTS
    MinLives <- Settings
    Units <- Settings
    SafeTimes <- Settings
    Intervals = {1, 2}
    MaxRound = 1
    MaxAge = 12
SPECIFICATION Spec
INVARIANTS TypeOK NoExtraUnit PaidTimeIsUsed
CHECK_DEADLOCK FALSE
