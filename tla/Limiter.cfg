\* Five requests that ask again and again over three slots, with backoffs longer
\* than the longest timer.
SPECIFICATION FairSpec
CONSTANTS
    r1 = r1
    r2 = r2
    r3 = r3
    r4 = r4
    r5 = r5
    Requests = {r1, r2, r3, r4, r5}
    MaxConcurrent = 3
    Delay = 2
    ReleaseDelay = 1
    BusyDelay = 2
    MaxTimeout = 3
    Backoffs = {0, 2, 5}
INVARIANTS
    NeverStalls
PROPERTIES
    ImplementsThrottle
    EveryRequestGranted
