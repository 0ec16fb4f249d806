SPECIFICATION SplicingSpec
CONSTANTS
    None = None
    Requests = {r1, r2}
    Devices = {d1, d2}
    Tables = {1, 2}
    Emitters = {1}
    MaxVersion = 2
INVARIANTS
    CacheUnderItsOwnTag
