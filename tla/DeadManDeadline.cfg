SPECIFICATION FairSpec
CONSTANTS
    InitClocks <- MCInitClocks
    Minutes = {1, 3, 59, 60}
    SummerTimeEnds <- MCSummerTimeEnds
    Forward = {5, 60}
    Horizon = 120
INVARIANTS
    TypeOK
    FiresOnTimeOtherwise
    NeverAGuess
PROPERTIES
    ArmedFires
    CountsDown
CHECK_DEADLOCK FALSE
