SPECIFICATION Spec
CONSTANTS
    Callers = {c1, c2}
    MaxOtpAttempts = 3
    ReEnableAttempts = 3
    MaxCodes = 2
    MaxDeletions = 2
    MaxFailures = 4
    None = None
PROPERTIES
    LiveAccountKeepsItsData
INVARIANTS
    GoneLeavesNothing
    DisabledOnlyByManyFailures
    CodeIsSpent
CONSTRAINT OneScene
SYMMETRY Symmetry
