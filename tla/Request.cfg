SPECIFICATION RequestFairSpec
CONSTANTS
    Threads = {w1}
    Methods = {"GET", "POST"}
    Uris <- SmallUris
    MaxHeaders = 1
    Times <- SmallTimes
    USEC = 3
    Endings = {"blank", "eof"}
    MaxRequests = 2
INVARIANTS
    StatsInv
    IntervalExact
PROPERTIES
    ReturnsIfHeadersEnd
