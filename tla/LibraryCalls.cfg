SPECIFICATION Spec
CONSTANTS
    a1 = a1
    a2 = a2
    Artists = {a1, a2}
    Releases = {1, 2}
    By <- MCBy
    Edition <- OneEdition
    Callers = {c1}
    Operations = {"follow", "unfollow", "detect", "settings"}
    MaxOverlaps = 0
    MaxFailures = 1
    MaxChanges = 2
    None = None
SYMMETRY Symmetry
CONSTRAINTS
    IsUnderWay
    IsShort
PROPERTIES
    NewsIsNews
    RemovedForAReason
INVARIANTS
    KnownWasHeard
    ShownIsKnown
