SPECIFICATION Spec
CONSTANTS
    Users = {u1, u2}
    Devices = {d1, d2}
    Tokens = {t1, t2}
    Callers = {c1, c2}
    MaxOverlaps = 1
    MaxFailures = 1
    None = None
SYMMETRY Symmetry
CONSTRAINT FewDisturbances
INVARIANTS
    RegistrationsHold
    RevokedStaysUnreachable
    IndexesAgree
