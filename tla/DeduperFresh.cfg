\* Calls of a key that overlap, with writes and invalidations between them;
\* workers take longer than readers join them, so that newer calls replace them.
SPECIFICATION Spec
CONSTANTS
    k1 = k1
    Keys = {k1}
    Prefixes <- MCPrefixes
    Ttl = 1
    InFlightAge = 1
    MaxWorkerTime = 2
    MaxCalls = 3
    MaxWrites = 2
    MaxTime = 4
INVARIANTS
    JoinersAreFresh
    StaleOnlyIfLostSight
CHECK_DEADLOCK FALSE
