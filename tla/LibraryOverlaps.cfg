SPECIFICATION Spec
CONSTANTS
    a1 = a1
    a2 = a2
    Artists = {a1, a2}
    Releases = {1}
    By <- MCBy
    Edition <- OwnEditions
    Callers = {c1, c2}
    Operations = {"follow", "unfollow", "detect", "dismiss", "refresh", "verify", "details"}
    MaxOverlaps = 1
    MaxFailures = 0
    MaxChanges = 1
    None = None
SYMMETRY Symmetry
CONSTRAINT IsIntact
PROPERTIES
    NewsIsStored
INVARIANTS
    DismissedStaysAway
    FollowingAsWanted
