SPECIFICATION Spec
CONSTANTS
    NoRow = NoRow
    None = None
    Unsent = Unsent
    Trips = {t1}
    Cities = {c1, c2}
    Places = {}
    Visits = {}
    Photos = {}
    Walks = {}
    Media = {}
    Tokens = {k1, k2}
    Days = {1, 2}
    Times = {}
    Laters = {}
    Texts = {}
    Names = {name}
    Covers = {}
    Flags = {TRUE}
    Presence = {TRUE, FALSE}
    Moments = {1, 2}
    MaxVisits = 0
    MaxItinerary = 2
VIEW view
SYMMETRY Symmetry
INVARIANTS
    ItineraryDense
PROPERTIES
    ConstraintsNeverAnswer
    RevokedStaysRevoked
