SPECIFICATION Spec
CONSTANTS
    None = None
    Clients = {a, b}
    Burst = 1
    Unit = 2
    PruneAbove = 1
    MaxTime = 2
    Requests = {r1}
    Tokens = {k1, k2}
    Flags = {"photos", "coordinates"}
    Rows = {"photo"}
    MaxSeen = 2
INVARIANTS
    TypeOK
    LinkWasLive
    EnvelopeOfOneMoment
PROPERTIES
    MapBounded
    ImplementsTokenBuckets
