CONSTANTS
    Tasks = {t1}
    Ops = {"get_public_key"}
    Callers = {"a"}
    NoCert = NoCert
    Permitted <- PermittedMost
    Burst = 1
    Counters = {}
    RatioNum = 1
    RatioDen = 2
    MinRequests = 1
    Window = 1
    Cooldown = 1
    ProbeSuccesses = 1
    PerTick = 2
    Modulus = 1
    CountModulus = 1
SYMMETRY Symmetry
SPECIFICATION Spec
PROPERTY TripsOnTokenFault
