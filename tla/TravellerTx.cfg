SPECIFICATION Spec
CONSTANTS
    None = None
    Requests = {r1, r2}
    Devices = {d1}
    Tables = {1}
    Emitters = {1, 2}
    MaxVersion = 2
INVARIANTS
    TypeOK
    CacheUnderItsOwnTag
    AnswersAreCurrent
PROPERTIES
    DeletedIsFinal
    ImplementsVersionedLog
    EveryRequestEnds
