SPECIFICATION Spec
CONSTANTS
    Requests = {r1, r2}
    Emails = {e1}
    Travellers = {a, b}
    Sessions = {k1}
    Invites = {i1}
    MaxAttempts = 2
    CodeTTL = 2
    CodeInterval = 1
    SessionTTL = 3
    TouchInterval = 1
    Deadline = 1
    MaxCodes = 2
    Unborn = Unborn
    Deleted = Deleted
    None = None
VIEW view
SYMMETRY Symmetry
INVARIANTS
    TypeOK
    SpentCodeOpensNothing
    RevokedIsNeverThrough
    GuessesBounded
    OneAccountPerInvite
    SessionSlides
