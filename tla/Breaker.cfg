CONSTANTS
    Tasks = {t1, t2, t3}
    RatioNum = 1
    RatioDen = 2
    MinRequests = 2
    Window = 2
    Cooldown = 2
    ProbeSuccesses = 2
    PerTick = 2
    Modulus = 2
SPECIFICATION FairHSpec
INVARIANT NeverStuck
PROPERTIES FailFast ReopensOnFailure TripJustified Recovers
