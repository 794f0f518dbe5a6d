CONSTANTS
    Tasks = {t1, t2}
    Labels = {k1}
    Workers = {w1}
    Ttl = 2
    NegativeTtl = 1
    MaxEntries = 1
    JobTimeout = 1
    MaxVersion = 2
    Modulus = 1
SPECIFICATION BusySpec
PROPERTY RotatedKeyServed
