SPECIFICATION Spec
CONSTANTS
    None = None
    Travellers = {t1}
    Objects = {o1}
    Declarations = {d1, d2, d3}
    Uploadable = {d1, d2}
    Requests = {r1, r2}
    MinAge = 2
    Budget = 1
    MaxTime = 3
INVARIANTS
    TypeOK
    CommittedAsStored
    MintedLeadsToBytes
PROPERTIES
    BytesTakenOnlyFromTheGone
    SweepCollects
