SPECIFICATION Spec
CONSTANTS
    NoRow = NoRow
    None = None
    Unsent = Unsent
    Trips = {t1}
    Cities = {c1}
    Places = {p1}
    Visits = {1, 2, 3}
    Photos = {h1}
    Walks = {}
    Media = {m1}
    Tokens = {}
    Days = {}
    Times = {1, 2}
    Laters = {later}
    Texts = {}
    Names = {}
    Covers = {}
    Flags = {}
    Presence = {TRUE}
    Moments = {1}
    MaxVisits = 3
    MaxItinerary = 0
VIEW view
SYMMETRY Symmetry
PROPERTIES
    ConstraintsNeverAnswer
    MintedOccasionsInTimeOrder
