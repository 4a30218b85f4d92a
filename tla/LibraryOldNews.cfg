SPECIFICATION Spec
CONSTANTS
    a1 = a1
    a2 = a2
    Artists = {a1, a2}
    Releases = {1, 2}
    By <- MCBy
    Edition <- OwnEditions
    Callers = {c1}
    Operations = {"follow", "detect"}
    MaxOverlaps = 0
    MaxFailures = 1
    MaxChanges = 1
    None = None
SYMMETRY Symmetry
CONSTRAINT IsIntact
PROPERTIES
    ToldIsNew
