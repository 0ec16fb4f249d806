SPECIFICATION Spec
CONSTANTS
    None = None
    p1 = p1
    p2 = p2
    p3 = p3
    Processes = {p1, p2, p3}
    Files <- MCFiles
    WithPanel = {p3}
    Clients = {a}
    Attempts = {q1, q2}
    MaxFailures = 2
    LockFor = 1
    MaxTime = 2
INVARIANTS
    ServesItsSchema
    BootsDoNotCollide
    FailuresBounded
PROPERTIES
    EveryBootEnds
