\* Ages of 4, a sync every 2, a retry after 1; samples that are off by 1 at most, and
\* slow ones by 2; a local clock that slips by one in 3 ticks.
CONSTANTS
    MaxOffsetAge = 4
    SyncInterval = 2
    RetryInterval = 1
    Timeout = 1
    MaxDelay = 2
    Delays = {0, 2, 5}
    Period = 3
    ValidWindow = 1
    Latency = 1
    DriftEvery = 3
    MaxSkew = 2
    None = None
SPECIFICATION Spec
INVARIANTS TypeOK NoStaleVerdict CodesJudgedRight
PROPERTIES Recovers KeepsUsable
