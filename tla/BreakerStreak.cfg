CONSTANTS
    Tasks = {t1, t2, t3}
    RatioNum = 1
    RatioDen = 2
    MinRequests = 2
    Window = 2
    Cooldown = 1
    ProbeSuccesses = 2
    PerTick = 3
    Modulus = 4
SPECIFICATION HSpec
INVARIANT StreakCloses
