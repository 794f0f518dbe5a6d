CONSTANTS
    Tasks = {t1, t2, t3}
    Labels = {k1}
    Workers = {w1}
    Ttl = 2
    NegativeTtl = 1
    MaxEntries = 0
    JobTimeout = 1
    MaxVersion = 1
    Modulus = 1
SPECIFICATION FairSpec
INVARIANTS SingleFlight BoundedStaleness
PROPERTY WaitersReturn
