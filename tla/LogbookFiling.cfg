SPECIFICATION Spec
CONSTANTS
    NoRow = NoRow
    None = None
    Unsent = Unsent
    Trips = {t1, t2}
    Cities = {c1}
    Places = {p1, p2}
    Visits = {1, 2}
    Photos = {h1}
    Walks = {w1}
    Media = {m1}
    Tokens = {}
    Days = {}
    Times = {1}
    Laters = {}
    Texts = {}
    Names = {}
    Covers = {}
    Flags = {}
    Presence = {TRUE}
    Moments = {1}
    MaxVisits = 2
    MaxItinerary = 0
VIEW view
SYMMETRY Symmetry
INVARIANTS
    FiledToOwnPlace
    AssetsCommitted
PROPERTIES
    ConstraintsNeverAnswer
    FilingsLostOnlyToDeletion
    RemovalKeepsItsPromise
    TripDeletionScope
    MintedOccasionsInTimeOrder
    RetryIsSafe
