CONSTANTS
    g1 = g1
    g2 = g2
    r1 = r1
    r2 = r2
    r3 = r3
    t1 = t1
    t2 = t2
    a1 = a1
    Miss = Miss
    Unknown = Unknown
    Nothing = Nothing
    Groups <- MCGroups
    Releases <- MCReleases
    Tracks <- MCTracks
    Artists <- MCArtists
    GroupOf <- MCGroupOf
    Requests <- MCRequests
    Repeated <- MCRepeated
    RetryWindow = 1
    MaxTime = 1
    SubtaskItemLimit = 2
    MaxPages = 2
    MaxFailures = 1
SPECIFICATION Spec
INVARIANTS
    WhatIsKeptIsSure
    FoundIsKept
    OnlyStaleIsLeftOut
    PagesAreBounded
CONSTRAINTS OneScene FewThings ThirdAsksLate
ACTION_CONSTRAINT PlansAtOnce
SYMMETRY Symmetry
CHECK_DEADLOCK FALSE
