CONSTANTS
    c1 = c1
    c2 = c2
    c3 = c3
    c4 = c4
    Tasks = {t1, t2}
    Certs = {c1, c2, c3, c4}
    Content <- MCContent
    NoCert = NoCert
    Files <- MCFiles
    Keys = {"k", "l"}
    Operations = {"sign"}
    Identities = {"a", "b"}
    None = None
    MaxCached = 2
    Modulus = 1
    Buckets = {b1, b2, b3}
    NoBucket = NoBucket
    per_second = 0
    burst = 1
    max_identities = 1
    MaxEvictions = 1
    LimitedFiles <- MCLimitedFiles
SYMMETRY AdmissionSymmetry
SPECIFICATION AdmitSpec
INVARIANTS CacheTruthful CacheBounded Decisions PolicyMeansFile EvictionCost
PROPERTIES RefusedOnlyIfSpent OnlyGranteesSpend
