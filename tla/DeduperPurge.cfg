\* One key, read twice and written twice, with workers that take one tick.
SPECIFICATION Spec
CONSTANTS
    k1 = k1
    Keys = {k1}
    Prefixes <- MCPrefixes
    Ttl = 2
    InFlightAge = 1
    MaxWorkerTime = 1
    MaxCalls = 2
    MaxWrites = 2
    MaxTime = 4
INVARIANT StaleNeverServed
CHECK_DEADLOCK FALSE
