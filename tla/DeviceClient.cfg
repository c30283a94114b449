SPECIFICATION FairSpec
CONSTANTS
    Callers = {c1, c2}
    Threshold = 3
    Cooldown = 4
    Retries = 2
    Flaky = TRUE
    OutageDrops = TRUE
    CaFileVanishes = TRUE
INVARIANTS
    TypeOK
    WrittenAtMostOnce
PROPERTIES
    FailFast
    RefusedOnlyWhileCooling
    CallsEnd
    RecoversIfSessionLives
