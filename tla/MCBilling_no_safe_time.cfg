CONSTANTS
    MinLives = {6}
    Units = {6}
    SafeTimes <- NoSafeTime
    Intervals = {1}
    MaxRound = 0
    MaxAge = 14
SPECIFICATION Spec
INVARIANT DestroyedBeforeNextUnit
CHECK_DEADLOCK FALSE
