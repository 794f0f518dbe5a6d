CONSTANTS
    Tasks = {t1, t2}
    Ops = {"sign", "encrypt", "decrypt", "verify", "get_public_key"}
    Callers = {"a"}
    NoCert = NoCert
    Permitted <- PermittedMost
    Burst = 1
    Counters = {"AUTHZ_DENIED", "denied_total", "UNAUTHENTICATED", "unauthenticated_total"}
    RatioNum = 1
    RatioDen = 2
    MinRequests = 1
    Window = 1
    Cooldown = 1
    ProbeSuccesses = 1
    PerTick = 1
    Modulus = 1
    CountModulus = 2
SYMMETRY Symmetry
SPECIFICATION Spec
INVARIANT DenialsCounted
PROPERTIES UsesBreaker OpensOnFailedCall OnlyPermittedSpend
