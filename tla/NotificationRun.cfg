SPECIFICATION Spec
CONSTANTS
    Runs = {r1, r2, r3}
    Users = {u1, u2}
    Releases = {x1, x2}
    UsersAtOnce = 1
    MessagesAtOnce = 2
    ProviderRetries = 1
    MaxFailures = 2
    NoRun = NoRun
INVARIANTS
    OneRunAtATime
    ToldByOneMessage
CONSTRAINT OneScene
SYMMETRY Symmetry
CHECK_DEADLOCK FALSE
