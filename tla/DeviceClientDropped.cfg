SPECIFICATION FairSpec
CONSTANTS
    Callers = {c1}
    Threshold = 3
    Cooldown = 4
    Retries = 2
    Flaky = FALSE
    OutageDrops = TRUE
    CaFileVanishes = FALSE
PROPERTIES
    Recovers
