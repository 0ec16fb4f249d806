SPECIFICATION Spec
CONSTANTS
    NoRow = NoRow
    None = None
    Unsent = Unsent
    Trips = {t1}
    Cities = {c1}
    Places = {}
    Visits = {}
    Photos = {h1}
    Walks = {w1}
    Media = {m1}
    Tokens = {}
    Days = {1, 2}
    Times = {}
    Laters = {later}
    Texts = {""}
    Names = {name}
    Covers = {}
    Flags = {TRUE}
    Presence = {TRUE, FALSE}
    Moments = {1}
    MaxVisits = 0
    MaxItinerary = 0
VIEW view
SYMMETRY Symmetry
PROPERTIES
    ConstraintsNeverAnswer
