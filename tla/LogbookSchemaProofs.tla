------------------------ MODULE LogbookSchemaProofs ------------------------
(***************************************************************************)
(* What the writes of LogbookStore do, for every choice of its constants:  *)
(* the Go rules leave the schema nothing to refuse, itineraries stay       *)
(* dense, a write changes no more than it says, and a request sent again   *)
(* changes nothing, the one that mints a link excepted.                    *)
(***************************************************************************)
EXTENDS LogbookStoreProofs, FiniteSetTheorems

-----------------------------------------------------------------------------
(***************************************************************************)
(* Ordinals.                                                               *)
(***************************************************************************)

\* A finite set of naturals that has a member has a greatest one.
LEMMA MaxExists ==
    ASSUME NEW S \in SUBSET Nat, IsFiniteSet(S), S # {}
    PROVE  Max(S) \in S /\ \A x \in S : x <= Max(S)
<1> DEFINE HasMax(U) == \E x \in U : \A y \in U : x >= y
           Bad == {U \in FiniteSubsetsOf(S) : U # {} /\ ~HasMax(U)}
           R == StrictSubsetOrdering(S)
<1>1. Bad = {}
  <2> SUFFICES ASSUME Bad # {} PROVE FALSE OBVIOUS
  <2>1. IsWellFoundedOn(R, FiniteSubsetsOf(S)) /\ Bad \subseteq FiniteSubsetsOf(S)
    BY FS_StrictSubsetOrderingWellFounded
  <2> HIDE DEF Bad, R
  <2>2. PICK U \in Bad : \A V \in Bad : ~(<<V, U>> \in R) BY <2>1, WFMin
  <2> USE DEF Bad
  <2>3. U \in SUBSET S /\ IsFiniteSet(U) /\ U # {} /\ ~HasMax(U) BY DEF FiniteSubsetsOf
  <2>4. PICK x \in U : TRUE BY <2>3
  <2> DEFINE V == U \ {x}
  <2>5. V \in FiniteSubsetsOf(S) BY <2>3, FS_RemoveElement DEF FiniteSubsetsOf
  <2>6. <<V, U>> \in R BY <2>3, <2>4 DEF R, StrictSubsetOrdering
  <2>7. V = {} \/ HasMax(V) BY <2>2, <2>5, <2>6
  <2>8. HasMax(U) BY <2>3, <2>4, <2>7
  <2> QED BY <2>3, <2>8
<1>2. HasMax(S) BY <1>1 DEF FiniteSubsetsOf
<1>3. PICK x \in S : \A y \in S : x >= y BY <1>2
<1> QED BY <1>3 DEF Max

\* The next ordinal is above every ordinal given out.
LEMMA NextIsAbove ==
    ASSUME NEW S \in SUBSET Nat, IsFiniteSet(S)
    PROVE  NextOrdinal(S) \in Nat /\ \A x \in S : x < NextOrdinal(S)
<1>1. CASE S = {}
  <2>1. NextOrdinal(S) = 0 BY <1>1 DEF NextOrdinal
  <2> QED BY <1>1, <2>1
<1>2. CASE S # {}
  <2>1. Max(S) \in S /\ \A x \in S : x <= Max(S) BY <1>2, MaxExists
  <2>2. NextOrdinal(S) = Max(S) + 1 BY <1>2 DEF NextOrdinal
  <2>3. Max(S) \in Nat BY <2>1
  <2> QED BY <2>1, <2>2, <2>3
<1> QED BY <1>1, <1>2

\* The ordinals of finitely many rows are finitely many.
LEMMA FiniteValues ==
    ASSUME NEW S, IsFiniteSet(S), NEW f
    PROVE  IsFiniteSet({f[x] : x \in S})
<1> DEFINE T == {f[x] : x \in S}
           g == [x \in S |-> f[x]]
<1>1. g \in Surjection(S, T) BY DEF Surjection
<1> QED BY <1>1, FS_Surjection

-----------------------------------------------------------------------------
(***************************************************************************)
(* Statements that write one row.                                          *)
(***************************************************************************)

\* The types of the tables the earlier lemmas did not need.
LEMMA OtherFields ==
    ASSUME NEW L \in Tables
    PROVE  /\ L.name \in Opt(Names)
           /\ L.tripCities \in [Trips -> [Cities -> Opt(Nat)]]
           /\ L.walks \in [Walks -> WalkRow \cup {NoRow}]
           /\ L.links \in [Tokens -> LinkRow \cup {NoRow}]
BY DEF Tables

\* What the rows of a log name are ids of the right kind.
LEMMA RowTypes ==
    ASSUME NEW L \in Tables
    PROVE  /\ \A p \in Places : L.places[p] # NoRow => L.places[p] \in PlaceRow /\ L.places[p].city \in Cities
           /\ \A v \in Visits : L.visits[v] # NoRow =>
                 /\ L.visits[v] \in VisitRow /\ L.visits[v].place \in Places /\ L.visits[v].trip \in Trips
                 /\ L.visits[v].ordinal \in Nat /\ L.visits[v].at \in Nat
           /\ \A h \in Photos : L.photos[h] # NoRow =>
                 /\ L.photos[h] \in PhotoRow /\ L.photos[h].trip \in Trips /\ L.photos[h].city \in Cities
                 /\ L.photos[h].place \in Opt(Places) /\ L.photos[h].visit \in Opt(Visits)
                 /\ L.photos[h].asset \in Media
           /\ \A w \in Walks : L.walks[w] # NoRow =>
                 /\ L.walks[w] \in WalkRow /\ L.walks[w].trip \in Trips /\ L.walks[w].city \in Cities
           /\ \A k \in Tokens : L.links[k] # NoRow =>
                 /\ L.links[k] \in LinkRow /\ L.links[k].trip \in Trips /\ L.links[k].created \in Moments
<1>1. \A p \in Places : L.places[p] # NoRow => L.places[p] \in PlaceRow BY TableFields
<1>2. \A v \in Visits : L.visits[v] # NoRow => L.visits[v] \in VisitRow BY TableFields
<1>3. \A h \in Photos : L.photos[h] # NoRow => L.photos[h] \in PhotoRow BY TableFields
<1>4. \A w \in Walks : L.walks[w] # NoRow => L.walks[w] \in WalkRow BY OtherFields
<1>5. \A k \in Tokens : L.links[k] # NoRow => L.links[k] \in LinkRow BY OtherFields
<1> QED BY <1>1, <1>2, <1>3, <1>4, <1>5, MomentsOrdered DEF PlaceRow, VisitRow, PhotoRow, WalkRow, LinkRow

\* The rows of a log that others refer to stand in the other log.
Stands(L, M) ==
    /\ \A t \in Trips : L.trips[t] # NoRow => M.trips[t] # NoRow
    /\ \A c \in Cities : L.cities[c] # NoRow => M.cities[c] # NoRow
    /\ \A p \in Places : L.places[p] # NoRow => M.places[p] # NoRow
    /\ \A v \in Visits : L.visits[v] # NoRow => M.visits[v] # NoRow
    /\ \A m \in Media : L.media[m] # "absent" => M.media[m] # "absent"

\* What the foreign keys ask of the rows that were written.
NewReferences(L, M) ==
    /\ \A t \in Trips : M.trips[t] \notin {NoRow, L.trips[t]} => HasObject(M, M.trips[t].cover)
    /\ \A c \in Cities : M.cities[c] \notin {NoRow, L.cities[c]} => HasObject(M, M.cities[c].cover)
    /\ \A t \in Trips : \A c \in Itinerary(M, t) \ Itinerary(L, t) : M.trips[t] # NoRow /\ M.cities[c] # NoRow
    /\ \A p \in Places : M.places[p] \notin {NoRow, L.places[p]} =>
          M.cities[M.places[p].city] # NoRow /\ HasObject(M, M.places[p].cover)
    /\ \A v \in Visits : M.visits[v] \notin {NoRow, L.visits[v]} =>
          M.places[M.visits[v].place] # NoRow /\ M.trips[M.visits[v].trip] # NoRow
    /\ \A h \in Photos : M.photos[h] \notin {NoRow, L.photos[h]} =>
          /\ M.trips[M.photos[h].trip] # NoRow
          /\ M.cities[M.photos[h].city] # NoRow
          /\ M.photos[h].place = None \/ M.places[M.photos[h].place] # NoRow
          /\ M.photos[h].visit = None \/ M.visits[M.photos[h].visit] # NoRow
          /\ HasObject(M, M.photos[h].asset)
    /\ \A w \in Walks : M.walks[w] \notin {NoRow, L.walks[w]} =>
          M.trips[M.walks[w].trip] # NoRow /\ M.cities[M.walks[w].city] # NoRow
    /\ \A k \in Tokens : M.links[k] \notin {NoRow, L.links[k]} => M.trips[M.links[k].trip] # NoRow

\* What the check constraints ask of them.
NewChecks(L, M) ==
    /\ \A t \in Trips : M.trips[t] \notin {NoRow, L.trips[t]} =>
          /\ \/ M.trips[t].start = None
             \/ M.trips[t].end = None
             \/ M.trips[t].start <= M.trips[t].end
          /\ M.trips[t].summary # ""
    /\ \A p \in Places : M.places[p] \notin {NoRow, L.places[p]} => M.places[p].plan # ""
    /\ \A v \in Visits : M.visits[v] \notin {NoRow, L.visits[v]} => M.visits[v].note # ""
    /\ \A h \in Photos : M.photos[h] \notin {NoRow, L.photos[h]} => M.photos[h].caption # ""
    /\ \A k \in Tokens : M.links[k] \notin {NoRow, L.links[k]} =>
          M.links[k].revoked = None \/ M.links[k].revoked >= M.links[k].created

\* A write that takes no row away that others refer to breaks no foreign key,
\* if the rows it wrote break none.
LEMMA ReferencesKept ==
    ASSUME NEW L, Lawful(L), NEW M \in Tables, Stands(L, M), NewReferences(L, M)
    PROVE  References(M)
<1>0. L \in Tables /\ References(L) BY DEF Lawful
<1>1. \A m \in Media \cup {None} : HasObject(L, m) => HasObject(M, m) BY DEF Stands, HasObject
<1>2. \A t \in Trips : M.trips[t] # NoRow => HasObject(M, M.trips[t].cover)
  <2> SUFFICES ASSUME NEW t \in Trips, M.trips[t] # NoRow, M.trips[t] = L.trips[t]
               PROVE  HasObject(M, M.trips[t].cover)
    BY DEF NewReferences
  <2>1. L.trips[t].cover \in Media \cup {None} BY <1>0, TableFields DEF TripRow, Opt
  <2> QED BY <1>0, <1>1, <2>1 DEF References
<1>3. \A c \in Cities : M.cities[c] # NoRow => HasObject(M, M.cities[c].cover)
  <2> SUFFICES ASSUME NEW c \in Cities, M.cities[c] # NoRow, M.cities[c] = L.cities[c]
               PROVE  HasObject(M, M.cities[c].cover)
    BY DEF NewReferences
  <2>1. L.cities[c].cover \in Media \cup {None} BY <1>0, TableFields DEF CityRow, Opt
  <2> QED BY <1>0, <1>1, <2>1 DEF References
<1>4. \A t \in Trips : \A c \in Itinerary(M, t) : M.trips[t] # NoRow /\ M.cities[c] # NoRow
  <2> SUFFICES ASSUME NEW t \in Trips, NEW c \in Itinerary(M, t), c \in Itinerary(L, t)
               PROVE  M.trips[t] # NoRow /\ M.cities[c] # NoRow
    BY DEF NewReferences
  <2>1. c \in Cities BY DEF Itinerary
  <2> QED BY <1>0, <2>1 DEF References, Stands
<1>5. \A p \in Places : M.places[p] # NoRow =>
         M.cities[M.places[p].city] # NoRow /\ HasObject(M, M.places[p].cover)
  <2> SUFFICES ASSUME NEW p \in Places, M.places[p] # NoRow, M.places[p] = L.places[p]
               PROVE  M.cities[M.places[p].city] # NoRow /\ HasObject(M, M.places[p].cover)
    BY DEF NewReferences
  <2>1. L.places[p].cover \in Media \cup {None} /\ L.places[p].city \in Cities
    BY <1>0, TableFields DEF PlaceRow, Opt
  <2> QED BY <1>0, <1>1, <2>1 DEF References, Stands
<1>6. \A v \in Visits : M.visits[v] # NoRow =>
         M.places[M.visits[v].place] # NoRow /\ M.trips[M.visits[v].trip] # NoRow
  <2> SUFFICES ASSUME NEW v \in Visits, M.visits[v] # NoRow, M.visits[v] = L.visits[v]
               PROVE  M.places[M.visits[v].place] # NoRow /\ M.trips[M.visits[v].trip] # NoRow
    BY DEF NewReferences
  <2>1. L.visits[v].place \in Places /\ L.visits[v].trip \in Trips BY <1>0, RowTypes
  <2> QED BY <1>0, <2>1 DEF References, Stands
<1>7. ASSUME NEW h \in Photos, M.photos[h] # NoRow
      PROVE  /\ M.trips[M.photos[h].trip] # NoRow
             /\ M.cities[M.photos[h].city] # NoRow
             /\ M.photos[h].place = None \/ M.places[M.photos[h].place] # NoRow
             /\ M.photos[h].visit = None \/ M.visits[M.photos[h].visit] # NoRow
             /\ HasObject(M, M.photos[h].asset)
  <2>1. CASE M.photos[h] # L.photos[h] BY <1>7, <2>1 DEF NewReferences
  <2>2. CASE M.photos[h] = L.photos[h]
    <3>1. /\ L.photos[h].trip \in Trips /\ L.photos[h].city \in Cities /\ L.photos[h].place \in Opt(Places)
          /\ L.photos[h].visit \in Opt(Visits) /\ L.photos[h].asset \in Media
      BY <1>0, <1>7, <2>2, RowTypes
    <3> QED BY <1>0, <1>1, <1>7, <2>2, <3>1 DEF References, Stands, Opt
  <2> QED BY <2>1, <2>2
<1>8. \A w \in Walks : M.walks[w] # NoRow =>
         M.trips[M.walks[w].trip] # NoRow /\ M.cities[M.walks[w].city] # NoRow
  <2> SUFFICES ASSUME NEW w \in Walks, M.walks[w] # NoRow, M.walks[w] = L.walks[w]
               PROVE  M.trips[M.walks[w].trip] # NoRow /\ M.cities[M.walks[w].city] # NoRow
    BY DEF NewReferences
  <2>1. L.walks[w].trip \in Trips /\ L.walks[w].city \in Cities BY <1>0, RowTypes
  <2> QED BY <1>0, <2>1 DEF References, Stands
<1>9. \A k \in Tokens : M.links[k] # NoRow => M.trips[M.links[k].trip] # NoRow
  <2> SUFFICES ASSUME NEW k \in Tokens, M.links[k] # NoRow, M.links[k] = L.links[k]
               PROVE  M.trips[M.links[k].trip] # NoRow
    BY DEF NewReferences
  <2>1. L.links[k].trip \in Trips BY <1>0, RowTypes
  <2> QED BY <1>0, <2>1 DEF References, Stands
<1> QED BY <1>2, <1>3, <1>4, <1>5, <1>6, <1>7, <1>8, <1>9 DEF References

\* The check constraints look at one row at a time.
LEMMA ChecksKept ==
    ASSUME NEW L, Checks(L), NEW M, NewChecks(L, M)
    PROVE  Checks(M)
BY DEF Checks, NewChecks

\* The unique indexes look at occasions, itineraries and links.
LEMMA UniquesKept ==
    ASSUME NEW L, Uniques(L), NEW M, M.visits = L.visits, M.tripCities = L.tripCities, M.links = L.links
    PROVE  Uniques(M)
<1>1. /\ \A p : OccasionsAt(M, p) = OccasionsAt(L, p)
      /\ \A t : Itinerary(M, t) = Itinerary(L, t) /\ LiveLinks(M, t) = LiveLinks(L, t)
  BY DEF OccasionsAt, Itinerary, LiveLinks
<1> QED BY <1>1 DEF Uniques

\* A trip's row, with an object for its cover, its dates in order and no empty
\* summary, is lawful.
LEMMA TripWritten ==
    ASSUME NEW L, Lawful(L), NEW t \in Trips, NEW row \in TripRow, HasObject(L, row.cover),
           row.start = None \/ row.end = None \/ row.start <= row.end, row.summary # ""
    PROVE  Lawful([L EXCEPT !.trips = [L.trips EXCEPT ![t] = row]])
<1> DEFINE M == [L EXCEPT !.trips = [L.trips EXCEPT ![t] = row]]
<1>0. L \in Tables /\ References(L) /\ Uniques(L) /\ Checks(L) BY DEF Lawful
<1>1. /\ M.tripCities = L.tripCities /\ M.cities = L.cities /\ M.places = L.places
      /\ M.visits = L.visits /\ M.photos = L.photos /\ M.walks = L.walks /\ M.links = L.links
      /\ M.media = L.media /\ M.trips = [L.trips EXCEPT ![t] = row]
  BY <1>0 DEF Tables
<1>2. M \in Tables BY <1>0 DEF Tables
<1>3. \A s \in Trips : M.trips[s] = IF s = t THEN row ELSE L.trips[s] BY <1>0, <1>1, TableFields
<1>4. row # NoRow BY MarkersAreNoRows
<1> HIDE DEF M
<1>5. Stands(L, M) BY <1>1, <1>3, <1>4 DEF Stands
<1>6. NewReferences(L, M) BY <1>1, <1>3 DEF NewReferences, HasObject, Itinerary
<1>7. NewChecks(L, M) BY <1>1, <1>3 DEF NewChecks
<1> QED BY <1>0, <1>1, <1>2, <1>5, <1>6, <1>7, ReferencesKept, UniquesKept, ChecksKept DEF Lawful, M

\* A city's row with an object for its cover is lawful.
LEMMA CityWritten ==
    ASSUME NEW L, Lawful(L), NEW c \in Cities, NEW row \in CityRow, HasObject(L, row.cover)
    PROVE  Lawful([L EXCEPT !.cities = [L.cities EXCEPT ![c] = row]])
<1> DEFINE M == [L EXCEPT !.cities = [L.cities EXCEPT ![c] = row]]
<1>0. L \in Tables /\ References(L) /\ Uniques(L) /\ Checks(L) BY DEF Lawful
<1>1. /\ M.trips = L.trips /\ M.tripCities = L.tripCities /\ M.places = L.places /\ M.visits = L.visits
      /\ M.photos = L.photos /\ M.walks = L.walks /\ M.links = L.links /\ M.media = L.media
      /\ M.cities = [L.cities EXCEPT ![c] = row]
  BY <1>0 DEF Tables
<1>2. M \in Tables BY <1>0 DEF Tables
<1>3. \A d \in Cities : M.cities[d] = IF d = c THEN row ELSE L.cities[d] BY <1>0, <1>1, TableFields
<1>4. row # NoRow BY MarkersAreNoRows
<1> HIDE DEF M
<1>5. Stands(L, M) BY <1>1, <1>3, <1>4 DEF Stands
<1>6. NewReferences(L, M) BY <1>1, <1>3 DEF NewReferences, HasObject, Itinerary
<1>7. NewChecks(L, M) BY <1>1 DEF NewChecks
<1> QED BY <1>0, <1>1, <1>2, <1>5, <1>6, <1>7, ReferencesKept, UniquesKept, ChecksKept DEF Lawful, M

\* A place's row in a city the log has, with an object for its cover and no
\* empty plan, is lawful.
LEMMA PlaceWritten ==
    ASSUME NEW L, Lawful(L), NEW p \in Places, NEW row \in PlaceRow, HasObject(L, row.cover),
           L.cities[row.city] # NoRow, row.plan # ""
    PROVE  Lawful([L EXCEPT !.places = [L.places EXCEPT ![p] = row]])
<1> DEFINE M == [L EXCEPT !.places = [L.places EXCEPT ![p] = row]]
<1>0. L \in Tables /\ References(L) /\ Uniques(L) /\ Checks(L) BY DEF Lawful
<1>1. /\ M.trips = L.trips /\ M.tripCities = L.tripCities /\ M.cities = L.cities /\ M.visits = L.visits
      /\ M.photos = L.photos /\ M.walks = L.walks /\ M.links = L.links /\ M.media = L.media
      /\ M.places = [L.places EXCEPT ![p] = row]
  BY <1>0 DEF Tables
<1>2. M \in Tables BY <1>0 DEF Tables
<1>3. \A q \in Places : M.places[q] = IF q = p THEN row ELSE L.places[q] BY <1>0, <1>1, TableFields
<1>4. row # NoRow BY MarkersAreNoRows
<1> HIDE DEF M
<1>5. Stands(L, M) BY <1>1, <1>3, <1>4 DEF Stands
<1>6. NewReferences(L, M) BY <1>1, <1>3 DEF NewReferences, HasObject, Itinerary
<1>7. NewChecks(L, M) BY <1>1, <1>3 DEF NewChecks
<1> QED BY <1>0, <1>1, <1>2, <1>5, <1>6, <1>7, ReferencesKept, UniquesKept, ChecksKept DEF Lawful, M

\* Photographs that name rows the log has, and carry no empty caption, are lawful.
LEMMA PhotosWritten ==
    ASSUME NEW L, Lawful(L), NEW f \in [Photos -> PhotoRow \cup {NoRow}],
           \A h \in Photos : f[h] \notin {NoRow, L.photos[h]} =>
              /\ L.trips[f[h].trip] # NoRow /\ L.cities[f[h].city] # NoRow
              /\ f[h].place = None \/ L.places[f[h].place] # NoRow
              /\ f[h].visit = None \/ L.visits[f[h].visit] # NoRow
              /\ HasObject(L, f[h].asset) /\ f[h].caption # ""
    PROVE  Lawful([L EXCEPT !.photos = f])
<1> DEFINE M == [L EXCEPT !.photos = f]
<1>0. L \in Tables /\ References(L) /\ Uniques(L) /\ Checks(L) BY DEF Lawful
<1>1. /\ M.trips = L.trips /\ M.tripCities = L.tripCities /\ M.cities = L.cities /\ M.places = L.places
      /\ M.visits = L.visits /\ M.walks = L.walks /\ M.links = L.links /\ M.media = L.media
      /\ M.photos = f
  BY <1>0 DEF Tables
<1>2. M \in Tables BY <1>0 DEF Tables
<1> HIDE DEF M
<1>5. Stands(L, M) BY <1>1 DEF Stands
<1>6. NewReferences(L, M) BY <1>1 DEF NewReferences, HasObject, Itinerary
<1>7. NewChecks(L, M) BY <1>1 DEF NewChecks
<1> QED BY <1>0, <1>1, <1>2, <1>5, <1>6, <1>7, ReferencesKept, UniquesKept, ChecksKept DEF Lawful, M

\* A walk on a trip and in a city the log has is lawful.
LEMMA WalkWritten ==
    ASSUME NEW L, Lawful(L), NEW k \in Walks, NEW row \in WalkRow,
           L.trips[row.trip] # NoRow, L.cities[row.city] # NoRow
    PROVE  Lawful([L EXCEPT !.walks = [L.walks EXCEPT ![k] = row]])
<1> DEFINE M == [L EXCEPT !.walks = [L.walks EXCEPT ![k] = row]]
<1>0. L \in Tables /\ References(L) /\ Uniques(L) /\ Checks(L) BY DEF Lawful
<1>1. /\ M.trips = L.trips /\ M.tripCities = L.tripCities /\ M.cities = L.cities /\ M.places = L.places
      /\ M.visits = L.visits /\ M.photos = L.photos /\ M.links = L.links /\ M.media = L.media
      /\ M.walks = [L.walks EXCEPT ![k] = row]
  BY <1>0 DEF Tables
<1>2. M \in Tables BY <1>0 DEF Tables
<1>3. \A w \in Walks : M.walks[w] = IF w = k THEN row ELSE L.walks[w] BY <1>0, <1>1, OtherFields
<1> HIDE DEF M
<1>5. Stands(L, M) BY <1>1 DEF Stands
<1>6. NewReferences(L, M) BY <1>1, <1>3 DEF NewReferences, HasObject, Itinerary
<1>7. NewChecks(L, M) BY <1>1 DEF NewChecks
<1> QED BY <1>0, <1>1, <1>2, <1>5, <1>6, <1>7, ReferencesKept, UniquesKept, ChecksKept DEF Lawful, M

\* An object that is begun or committed is lawful.
LEMMA ObjectWritten ==
    ASSUME NEW L, Lawful(L), NEW m \in Media, NEW state \in {"begun", "committed"}
    PROVE  Lawful([L EXCEPT !.media = [L.media EXCEPT ![m] = state]])
<1> DEFINE M == [L EXCEPT !.media = [L.media EXCEPT ![m] = state]]
<1>0. L \in Tables /\ References(L) /\ Uniques(L) /\ Checks(L) BY DEF Lawful
<1>1. /\ M.trips = L.trips /\ M.tripCities = L.tripCities /\ M.cities = L.cities /\ M.places = L.places
      /\ M.visits = L.visits /\ M.photos = L.photos /\ M.walks = L.walks /\ M.links = L.links
      /\ M.media = [L.media EXCEPT ![m] = state]
  BY <1>0 DEF Tables
<1>2. M \in Tables BY <1>0 DEF Tables
<1>3. \A n \in Media : M.media[n] = IF n = m THEN state ELSE L.media[n] BY <1>0, <1>1, TableFields
<1> HIDE DEF M
<1>5. Stands(L, M) BY <1>1, <1>3 DEF Stands
<1>6. NewReferences(L, M) BY <1>1 DEF NewReferences, HasObject, Itinerary
<1>7. NewChecks(L, M) BY <1>1 DEF NewChecks
<1> QED BY <1>0, <1>1, <1>2, <1>5, <1>6, <1>7, ReferencesKept, UniquesKept, ChecksKept DEF Lawful, M

\* A traveller's name is lawful.
LEMMA NameWritten ==
    ASSUME NEW L, Lawful(L), NEW name \in Names
    PROVE  Lawful([L EXCEPT !.name = name])
<1> DEFINE M == [L EXCEPT !.name = name]
<1>0. L \in Tables /\ References(L) /\ Uniques(L) /\ Checks(L) BY DEF Lawful
<1>1. /\ M.trips = L.trips /\ M.tripCities = L.tripCities /\ M.cities = L.cities /\ M.places = L.places
      /\ M.visits = L.visits /\ M.photos = L.photos /\ M.walks = L.walks
      /\ M.links = L.links /\ M.media = L.media
  BY <1>0 DEF Tables
<1>2. M \in Tables BY <1>0 DEF Tables, Opt
<1> HIDE DEF M
<1>5. Stands(L, M) BY <1>1 DEF Stands
<1>6. NewReferences(L, M) BY <1>1 DEF NewReferences, HasObject, Itinerary
<1>7. NewChecks(L, M) BY <1>1 DEF NewChecks
<1> QED BY <1>0, <1>1, <1>2, <1>5, <1>6, <1>7, ReferencesKept, UniquesKept, ChecksKept DEF Lawful, M

\* Links to trips the log has, one of each trip live at most and none revoked
\* before it was created, are lawful.
LEMMA LinksWritten ==
    ASSUME NEW L, Lawful(L), NEW f \in [Tokens -> LinkRow \cup {NoRow}],
           \A k \in Tokens : f[k] \notin {NoRow, L.links[k]} => L.trips[f[k].trip] # NoRow,
           \A k \in Tokens : f[k] \notin {NoRow, L.links[k]} =>
              f[k].revoked = None \/ f[k].revoked >= f[k].created,
           \A j, k \in Tokens : f[j] # NoRow /\ f[k] # NoRow /\ f[j].revoked = None /\ f[k].revoked = None
                               /\ f[j].trip = f[k].trip => j = k
    PROVE  Lawful([L EXCEPT !.links = f])
<1> DEFINE M == [L EXCEPT !.links = f]
<1>0. L \in Tables /\ References(L) /\ Uniques(L) /\ Checks(L) BY DEF Lawful
<1>1. /\ M.trips = L.trips /\ M.tripCities = L.tripCities /\ M.cities = L.cities /\ M.places = L.places
      /\ M.visits = L.visits /\ M.photos = L.photos /\ M.walks = L.walks /\ M.media = L.media
      /\ M.links = f
  BY <1>0 DEF Tables
<1>2. M \in Tables BY <1>0 DEF Tables
<1> HIDE DEF M
<1>5. Stands(L, M) BY <1>1 DEF Stands
<1>6. NewReferences(L, M) BY <1>1 DEF NewReferences, HasObject, Itinerary
<1>7. NewChecks(L, M) BY <1>1 DEF NewChecks
<1>8. Uniques(M)
  <2>1. /\ \A p : OccasionsAt(M, p) = OccasionsAt(L, p)
        /\ \A t : Itinerary(M, t) = Itinerary(L, t)
    BY <1>1 DEF OccasionsAt, Itinerary
  <2>2. \A t \in Trips : \A j, k \in LiveLinks(M, t) : j = k BY <1>1 DEF LiveLinks
  <2> QED BY <1>0, <1>1, <2>1, <2>2 DEF Uniques
<1> QED BY <1>0, <1>2, <1>5, <1>6, <1>7, <1>8, ReferencesKept, ChecksKept DEF Lawful, M

\* An itinerary of a trip and cities the log has, no two under one ordinal, is
\* lawful.
LEMMA ItineraryWritten ==
    ASSUME NEW L, Lawful(L), NEW t \in Trips, L.trips[t] # NoRow, NEW f \in [Cities -> Opt(Nat)],
           \A c \in Cities : f[c] # None => L.cities[c] # NoRow,
           \A c, d \in Cities : f[c] # None /\ f[c] = f[d] => c = d
    PROVE  Lawful([L EXCEPT !.tripCities = [L.tripCities EXCEPT ![t] = f]])
<1> DEFINE M == [L EXCEPT !.tripCities = [L.tripCities EXCEPT ![t] = f]]
<1>0. L \in Tables /\ References(L) /\ Uniques(L) /\ Checks(L) BY DEF Lawful
<1>1. /\ M.trips = L.trips /\ M.cities = L.cities /\ M.places = L.places /\ M.visits = L.visits
      /\ M.photos = L.photos /\ M.walks = L.walks /\ M.links = L.links /\ M.media = L.media
      /\ M.tripCities = [L.tripCities EXCEPT ![t] = f]
  BY <1>0 DEF Tables
<1>2. M \in Tables BY <1>0 DEF Tables
<1>3. \A s \in Trips : M.tripCities[s] = IF s = t THEN f ELSE L.tripCities[s]
  BY <1>0, <1>1, OtherFields
<1> HIDE DEF M
<1>5. Stands(L, M) BY <1>1 DEF Stands
<1>6. NewReferences(L, M) BY <1>1, <1>3 DEF NewReferences, HasObject, Itinerary
<1>7. NewChecks(L, M) BY <1>1 DEF NewChecks
<1>8. Uniques(M)
  <2>1. /\ \A p : OccasionsAt(M, p) = OccasionsAt(L, p)
        /\ \A s : LiveLinks(M, s) = LiveLinks(L, s)
    BY <1>1 DEF OccasionsAt, LiveLinks
  <2>2. \A s \in Trips : \A c, d \in Itinerary(M, s) : M.tripCities[s][c] = M.tripCities[s][d] => c = d
    BY <1>0, <1>3 DEF Itinerary, Uniques
  <2> QED BY <1>0, <1>1, <2>1, <2>2 DEF Uniques
<1> QED BY <1>0, <1>2, <1>5, <1>6, <1>7, <1>8, ReferencesKept, ChecksKept DEF Lawful, M

\* Occasions of trips and at places the log has, no two of one place under one
\* ordinal and none with an empty note, are lawful.
LEMMA VisitsWritten ==
    ASSUME NEW L, Lawful(L), NEW f \in [Visits -> VisitRow \cup {NoRow}],
           \A v \in Visits : L.visits[v] # NoRow => f[v] # NoRow,
           \A v \in Visits : f[v] \notin {NoRow, L.visits[v]} =>
              L.places[f[v].place] # NoRow /\ L.trips[f[v].trip] # NoRow /\ f[v].note # "",
           \A u, v \in Visits : f[u] # NoRow /\ f[v] # NoRow /\ f[u].place = f[v].place
                               /\ f[u].ordinal = f[v].ordinal => u = v
    PROVE  Lawful([L EXCEPT !.visits = f])
<1> DEFINE M == [L EXCEPT !.visits = f]
<1>0. L \in Tables /\ References(L) /\ Uniques(L) /\ Checks(L) BY DEF Lawful
<1>1. /\ M.trips = L.trips /\ M.tripCities = L.tripCities /\ M.cities = L.cities /\ M.places = L.places
      /\ M.photos = L.photos /\ M.walks = L.walks /\ M.links = L.links /\ M.media = L.media
      /\ M.visits = f
  BY <1>0 DEF Tables
<1>2. M \in Tables BY <1>0 DEF Tables
<1> HIDE DEF M
<1>5. Stands(L, M) BY <1>1 DEF Stands
<1>6. NewReferences(L, M) BY <1>1 DEF NewReferences, HasObject, Itinerary
<1>7. NewChecks(L, M) BY <1>1 DEF NewChecks
<1>8. Uniques(M)
  <2>1. \A t : Itinerary(M, t) = Itinerary(L, t) /\ LiveLinks(M, t) = LiveLinks(L, t)
    BY <1>1 DEF Itinerary, LiveLinks
  <2>2. ASSUME NEW p \in Places, NEW u \in OccasionsAt(M, p), NEW v \in OccasionsAt(M, p),
               M.visits[u].ordinal = M.visits[v].ordinal
        PROVE  u = v
    <3>1. /\ u \in Visits /\ v \in Visits /\ f[u] # NoRow /\ f[v] # NoRow
          /\ f[u].place = p /\ f[v].place = p /\ f[u].ordinal = f[v].ordinal
      BY <1>1, <2>2 DEF OccasionsAt
    <3> QED BY <3>1
  <2> QED BY <1>0, <1>1, <2>1, <2>2 DEF Uniques
<1> QED BY <1>0, <1>2, <1>5, <1>6, <1>7, <1>8, ReferencesKept, ChecksKept DEF Lawful, M

-----------------------------------------------------------------------------
(***************************************************************************)
(* Statements that delete rows, with what they set off.                    *)
(***************************************************************************)

\* A log whose rows another log has breaks no unique index either.
LEMMA UniquesShrink ==
    ASSUME NEW L, Uniques(L), NEW M,
           \A v \in Visits : M.visits[v] \in {NoRow, L.visits[v]},
           \A t \in Trips, c \in Cities : M.tripCities[t][c] \in {None, L.tripCities[t][c]},
           \A k \in Tokens : M.links[k] \in {NoRow, L.links[k]}
    PROVE  Uniques(M)
<1>1. \A v \in Visits : M.visits[v] # NoRow => M.visits[v] = L.visits[v] OBVIOUS
<1>2. \A p \in Places : \A u, v \in OccasionsAt(M, p) : M.visits[u].ordinal = M.visits[v].ordinal => u = v
  <2>1. \A p : OccasionsAt(M, p) \subseteq OccasionsAt(L, p) BY <1>1 DEF OccasionsAt
  <2>2. \A p : \A u \in OccasionsAt(M, p) : M.visits[u] = L.visits[u] BY <1>1 DEF OccasionsAt
  <2> QED BY <2>1, <2>2 DEF Uniques
<1>3. \A t \in Trips : \A c, d \in Itinerary(M, t) : M.tripCities[t][c] = M.tripCities[t][d] => c = d
  BY DEF Itinerary, Uniques
<1>4. \A t \in Trips : LiveLinks(M, t) \subseteq LiveLinks(L, t) BY DEF LiveLinks
<1> QED BY <1>2, <1>3, <1>4 DEF Uniques

\* Deleting photographs breaks nothing.
LEMMA DeletePhotosLawful ==
    ASSUME NEW L, Lawful(L), NEW S
    PROVE  Lawful(DeletePhotos(L, S))
<1> DEFINE f == [h \in Photos |-> IF h \in S THEN NoRow ELSE L.photos[h]]
<1>1. f \in [Photos -> PhotoRow \cup {NoRow}] BY TableFields DEF Lawful
<1>2. \A h \in Photos : f[h] \in {NoRow, L.photos[h]} OBVIOUS
<1> HIDE DEF f
<1>3. Lawful([L EXCEPT !.photos = f]) BY <1>1, <1>2, PhotosWritten
<1> QED BY <1>3 DEF DeletePhotos, f

\* Every photograph stays, and nothing of it but its filing may differ.
FilingAside(L, M) ==
    \A h \in Photos :
        /\ L.photos[h] = NoRow => M.photos[h] = NoRow
        /\ L.photos[h] # NoRow =>
              /\ M.photos[h] \in PhotoRow
              /\ M.photos[h].trip = L.photos[h].trip /\ M.photos[h].city = L.photos[h].city
              /\ M.photos[h].asset = L.photos[h].asset /\ M.photos[h].caption = L.photos[h].caption
              /\ M.photos[h].filedLater = L.photos[h].filedLater

\* What is left after occasions are deleted: every photograph, without them.
VisitsGone(L, M, S) ==
    /\ \A v \in Visits : M.visits[v] = IF v \in S THEN NoRow ELSE L.visits[v]
    /\ \A h \in Photos : L.photos[h] # NoRow =>
          /\ M.photos[h].place = L.photos[h].place
          /\ M.photos[h].visit = IF L.photos[h].visit \in S THEN None ELSE L.photos[h].visit

\* That is what deleting them does.
LEMMA VisitsDeleted ==
    ASSUME NEW L \in Tables, NEW S
    PROVE  LET M == DeleteVisits(L, S)
           IN  /\ M \in Tables /\ M.name = L.name
               /\ M.trips = L.trips /\ M.tripCities = L.tripCities /\ M.cities = L.cities
               /\ M.places = L.places /\ M.walks = L.walks /\ M.links = L.links /\ M.media = L.media
               /\ FilingAside(L, M) /\ VisitsGone(L, M, S)
<1> DEFINE M == DeleteVisits(L, S)
<1>1. /\ M.trips = L.trips /\ M.tripCities = L.tripCities /\ M.cities = L.cities /\ M.name = L.name
      /\ M.places = L.places /\ M.walks = L.walks /\ M.links = L.links /\ M.media = L.media
  BY DEF DeleteVisits, Tables
<1>2. /\ M.visits = [v \in Visits |-> IF v \in S THEN NoRow ELSE L.visits[v]]
      /\ M.photos = [h \in Photos |-> IF L.photos[h] # NoRow /\ L.photos[h].visit \in S
                                      THEN Unfile(L.photos[h]) ELSE L.photos[h]]
  BY DEF DeleteVisits, Tables
<1>3. M = [L EXCEPT !.visits = M.visits, !.photos = M.photos] BY <1>2 DEF DeleteVisits
<1> HIDE DEF M
<1>4. ASSUME NEW h \in Photos, L.photos[h] # NoRow
      PROVE  /\ M.photos[h] \in PhotoRow
             /\ M.photos[h].trip = L.photos[h].trip /\ M.photos[h].city = L.photos[h].city
             /\ M.photos[h].asset = L.photos[h].asset /\ M.photos[h].caption = L.photos[h].caption
             /\ M.photos[h].filedLater = L.photos[h].filedLater /\ M.photos[h].place = L.photos[h].place
             /\ M.photos[h].visit = IF L.photos[h].visit \in S THEN None ELSE L.photos[h].visit
  <2>1. L.photos[h] \in PhotoRow BY <1>4, RowTypes
  <2>2. CASE L.photos[h].visit \in S
    <3>1. M.photos[h] = [L.photos[h] EXCEPT !.visit = None] BY <1>2, <1>4, <2>2 DEF Unfile
    <3> QED BY <2>1, <2>2, <3>1 DEF PhotoRow, Opt
  <2>3. CASE L.photos[h].visit \notin S
    <3>1. M.photos[h] = L.photos[h] BY <1>2, <2>3
    <3> QED BY <2>1, <2>3, <3>1
  <2> QED BY <2>2, <2>3
<1>5. \A h \in Photos : L.photos[h] = NoRow => M.photos[h] = NoRow BY <1>2
<1>6. M.photos \in [Photos -> PhotoRow \cup {NoRow}]
  <2>1. M.photos = [h \in Photos |-> M.photos[h]] BY <1>2
  <2> QED BY <1>4, <1>5, <2>1
<1>7. M.visits \in [Visits -> VisitRow \cup {NoRow}] BY <1>2, TableFields
<1>8. M \in Tables BY <1>3, <1>6, <1>7 DEF Tables
<1>9. FilingAside(L, M) BY <1>4, <1>5 DEF FilingAside
<1>10. VisitsGone(L, M, S) BY <1>2, <1>4 DEF VisitsGone
<1> QED BY <1>1, <1>8, <1>9, <1>10 DEF M

\* A log that has lost occasions or places, and whose photographs were let go
\* of them, is lawful.
LEMMA FilingsLetGo ==
    ASSUME NEW L, Lawful(L), NEW M \in Tables, FilingAside(L, M),
           M.trips = L.trips, M.tripCities = L.tripCities, M.cities = L.cities,
           M.walks = L.walks, M.links = L.links, M.media = L.media,
           \A p \in Places : M.places[p] \in {NoRow, L.places[p]},
           \A v \in Visits : M.visits[v] # NoRow =>
              M.visits[v] = L.visits[v] /\ M.places[L.visits[v].place] # NoRow,
           \A h \in Photos : L.photos[h] # NoRow =>
              /\ M.photos[h].place = None \/ M.places[M.photos[h].place] # NoRow
              /\ M.photos[h].visit = None \/ M.visits[M.photos[h].visit] # NoRow
    PROVE  Lawful(M)
<1>0. L \in Tables /\ References(L) /\ Uniques(L) /\ Checks(L) BY DEF Lawful
<1>1. \A m : HasObject(M, m) <=> HasObject(L, m) BY DEF HasObject
<1>2. \A t : Itinerary(M, t) = Itinerary(L, t) BY DEF Itinerary
<1>3. /\ \A t \in Trips : M.trips[t] # NoRow => HasObject(M, M.trips[t].cover)
      /\ \A c \in Cities : M.cities[c] # NoRow => HasObject(M, M.cities[c].cover)
      /\ \A t \in Trips : \A c \in Itinerary(M, t) : M.trips[t] # NoRow /\ M.cities[c] # NoRow
  BY <1>0, <1>1, <1>2 DEF References
<1>4. \A p \in Places : M.places[p] # NoRow =>
         M.cities[M.places[p].city] # NoRow /\ HasObject(M, M.places[p].cover)
  BY <1>0, <1>1 DEF References
<1>5. \A v \in Visits : M.visits[v] # NoRow =>
         M.places[M.visits[v].place] # NoRow /\ M.trips[M.visits[v].trip] # NoRow
  BY <1>0 DEF References
<1>6. ASSUME NEW h \in Photos, M.photos[h] # NoRow
      PROVE  /\ M.trips[M.photos[h].trip] # NoRow
             /\ M.cities[M.photos[h].city] # NoRow
             /\ M.photos[h].place = None \/ M.places[M.photos[h].place] # NoRow
             /\ M.photos[h].visit = None \/ M.visits[M.photos[h].visit] # NoRow
             /\ HasObject(M, M.photos[h].asset) /\ M.photos[h].caption # ""
  <2>1. L.photos[h] # NoRow BY <1>6 DEF FilingAside
  <2>2. /\ M.photos[h].trip = L.photos[h].trip /\ M.photos[h].city = L.photos[h].city
        /\ M.photos[h].asset = L.photos[h].asset /\ M.photos[h].caption = L.photos[h].caption
    BY <2>1 DEF FilingAside
  <2>3. /\ L.trips[L.photos[h].trip] # NoRow /\ L.cities[L.photos[h].city] # NoRow
        /\ HasObject(L, L.photos[h].asset)
    BY <1>0, <2>1 DEF References
  <2>4. L.photos[h].caption # "" BY <1>0, <2>1 DEF Checks
  <2> QED BY <1>1, <2>1, <2>2, <2>3, <2>4
<1>7. /\ \A w \in Walks : M.walks[w] # NoRow =>
            M.trips[M.walks[w].trip] # NoRow /\ M.cities[M.walks[w].city] # NoRow
      /\ \A k \in Tokens : M.links[k] # NoRow => M.trips[M.links[k].trip] # NoRow
  BY <1>0 DEF References
<1>8. References(M) BY <1>3, <1>4, <1>5, <1>6, <1>7 DEF References
<1>9. Uniques(M) BY <1>0, UniquesShrink
<1>10. Checks(M)
  <2>1. \A p \in Places : M.places[p] # NoRow => M.places[p].plan # "" BY <1>0 DEF Checks
  <2>2. \A v \in Visits : M.visits[v] # NoRow => M.visits[v].note # "" BY <1>0 DEF Checks
  <2>3. \A k \in Tokens : M.links[k] # NoRow =>
           M.links[k].revoked = None \/ M.links[k].revoked >= M.links[k].created
    BY <1>0 DEF Checks
  <2> QED BY <1>0, <1>6, <2>1, <2>2, <2>3 DEF Checks
<1> QED BY <1>8, <1>9, <1>10 DEF Lawful

\* Deleting occasions breaks nothing: photographs let go of them.
LEMMA DeleteVisitsLawful ==
    ASSUME NEW L, Lawful(L), NEW S
    PROVE  Lawful(DeleteVisits(L, S))
<1> DEFINE M == DeleteVisits(L, S)
<1>0. L \in Tables /\ References(L) BY DEF Lawful
<1>1. /\ M \in Tables /\ FilingAside(L, M) /\ VisitsGone(L, M, S)
      /\ M.trips = L.trips /\ M.tripCities = L.tripCities /\ M.cities = L.cities
      /\ M.places = L.places /\ M.walks = L.walks /\ M.links = L.links /\ M.media = L.media
  BY <1>0, VisitsDeleted
<1> HIDE DEF M
<1>2. \A v \in Visits : M.visits[v] # NoRow =>
         M.visits[v] = L.visits[v] /\ M.places[L.visits[v].place] # NoRow
  BY <1>0, <1>1 DEF VisitsGone, References
<1>3. ASSUME NEW h \in Photos, L.photos[h] # NoRow
      PROVE  /\ M.photos[h].place = None \/ M.places[M.photos[h].place] # NoRow
             /\ M.photos[h].visit = None \/ M.visits[M.photos[h].visit] # NoRow
  <2>1. M.photos[h].place = None \/ M.places[M.photos[h].place] # NoRow
    BY <1>0, <1>1, <1>3 DEF VisitsGone, References
  <2>2. ASSUME M.photos[h].visit # None PROVE M.visits[M.photos[h].visit] # NoRow
    <3>1. M.photos[h].visit = L.photos[h].visit /\ L.photos[h].visit \notin S
      BY <1>1, <1>3, <2>2 DEF VisitsGone
    <3>2. L.photos[h].visit \in Visits /\ L.visits[L.photos[h].visit] # NoRow
      BY <1>0, <1>3, <2>2, <3>1, RowTypes DEF References, Opt
    <3> QED BY <1>1, <3>1, <3>2 DEF VisitsGone
  <2> QED BY <2>1, <2>2
<1> QED BY <1>1, <1>2, <1>3, FilingsLetGo DEF M

\* What is left after a place is deleted: its occasions go, its photographs
\* stay, filed nowhere.
PlaceGone(L, N, p) ==
    /\ \A q \in Places : N.places[q] = IF q = p THEN NoRow ELSE L.places[q]
    /\ \A v \in Visits : N.visits[v] = IF v \in OccasionsAt(L, p) THEN NoRow ELSE L.visits[v]
    /\ \A h \in Photos : L.photos[h] # NoRow =>
          /\ N.photos[h].place = IF L.photos[h].place = p THEN None ELSE L.photos[h].place
          /\ N.photos[h].visit = IF L.photos[h].visit \in OccasionsAt(L, p) THEN None
                                 ELSE L.photos[h].visit

\* That is what deleting it does.
LEMMA PlaceDeleted ==
    ASSUME NEW L \in Tables, NEW p \in Places
    PROVE  LET N == DeletePlaceRow(L, p)
           IN  /\ N \in Tables
               /\ N.trips = L.trips /\ N.tripCities = L.tripCities /\ N.cities = L.cities
               /\ N.walks = L.walks /\ N.links = L.links /\ N.media = L.media
               /\ FilingAside(L, N) /\ PlaceGone(L, N, p)
<1> DEFINE S == OccasionsAt(L, p)
           M == DeleteVisits(L, S)
           N == DeletePlaceRow(L, p)
<1>0. /\ M \in Tables /\ M.trips = L.trips /\ M.tripCities = L.tripCities /\ M.cities = L.cities
      /\ M.places = L.places /\ M.walks = L.walks /\ M.links = L.links /\ M.media = L.media
  BY VisitsDeleted
<1>1. FilingAside(L, M) /\ VisitsGone(L, M, S) BY VisitsDeleted
<1> HIDE DEF M
<1>2. N = [M EXCEPT !.places = [M.places EXCEPT ![p] = NoRow],
                    !.photos = [h \in Photos |-> IF h \in PhotosAt(L, p) THEN Unplace(M.photos[h])
                                                 ELSE M.photos[h]]]
  BY DEF DeletePlaceRow, M
<1> HIDE DEF N, S
<1>3. /\ N.trips = M.trips /\ N.tripCities = M.tripCities /\ N.cities = M.cities
      /\ N.walks = M.walks /\ N.links = M.links /\ N.media = M.media /\ N.visits = M.visits
  BY <1>0, <1>2 DEF Tables
<1>4. /\ N.places = [M.places EXCEPT ![p] = NoRow]
      /\ N.photos = [h \in Photos |-> IF h \in PhotosAt(L, p) THEN Unplace(M.photos[h]) ELSE M.photos[h]]
  BY <1>0, <1>2 DEF Tables
<1>5. N = [M EXCEPT !.places = N.places, !.photos = N.photos] BY <1>2, <1>4
<1>6. ASSUME NEW h \in Photos, L.photos[h] # NoRow
      PROVE  /\ N.photos[h] \in PhotoRow
             /\ N.photos[h].trip = L.photos[h].trip /\ N.photos[h].city = L.photos[h].city
             /\ N.photos[h].asset = L.photos[h].asset /\ N.photos[h].caption = L.photos[h].caption
             /\ N.photos[h].filedLater = L.photos[h].filedLater
             /\ N.photos[h].place = IF L.photos[h].place = p THEN None ELSE L.photos[h].place
             /\ N.photos[h].visit = IF L.photos[h].visit \in S THEN None ELSE L.photos[h].visit
  <2>1. /\ M.photos[h] \in PhotoRow
        /\ M.photos[h].trip = L.photos[h].trip /\ M.photos[h].city = L.photos[h].city
        /\ M.photos[h].asset = L.photos[h].asset /\ M.photos[h].caption = L.photos[h].caption
        /\ M.photos[h].filedLater = L.photos[h].filedLater
    BY <1>1, <1>6 DEF FilingAside
  <2>2. /\ M.photos[h].place = L.photos[h].place
        /\ M.photos[h].visit = IF L.photos[h].visit \in S THEN None ELSE L.photos[h].visit
    BY <1>1, <1>6 DEF VisitsGone
  <2>3. CASE L.photos[h].place = p
    <3>1. N.photos[h] = [M.photos[h] EXCEPT !.place = None]
      BY <1>4, <1>6, <2>3 DEF PhotosAt, Unplace
    <3> QED BY <2>1, <2>2, <2>3, <3>1 DEF PhotoRow, Opt
  <2>4. CASE L.photos[h].place # p
    <3>1. N.photos[h] = M.photos[h] BY <1>4, <2>4 DEF PhotosAt
    <3> QED BY <2>1, <2>2, <2>4, <3>1
  <2> QED BY <2>3, <2>4
<1>7. \A h \in Photos : L.photos[h] = NoRow => N.photos[h] = NoRow
  BY <1>1, <1>4 DEF FilingAside, PhotosAt
<1>8. N.photos \in [Photos -> PhotoRow \cup {NoRow}]
  <2>1. N.photos = [h \in Photos |-> N.photos[h]] BY <1>4
  <2> QED BY <1>6, <1>7, <2>1
<1>9. N.places \in [Places -> PlaceRow \cup {NoRow}] BY <1>0, <1>4, TableFields
<1>10. N \in Tables BY <1>0, <1>5, <1>8, <1>9 DEF Tables
<1>11. FilingAside(L, N) BY <1>6, <1>7 DEF FilingAside
<1>12. PlaceGone(L, N, p)
  <2>1. \A q \in Places : N.places[q] = IF q = p THEN NoRow ELSE L.places[q]
    BY <1>0, <1>4, TableFields
  <2>2. \A v \in Visits : N.visits[v] = IF v \in S THEN NoRow ELSE L.visits[v]
    BY <1>1, <1>3 DEF VisitsGone
  <2> QED BY <1>6, <2>1, <2>2 DEF PlaceGone, S
<1> QED BY <1>0, <1>3, <1>10, <1>11, <1>12 DEF N

\* Deleting a place breaks nothing.
LEMMA DeletePlaceLawful ==
    ASSUME NEW L, Lawful(L), NEW p \in Places
    PROVE  Lawful(DeletePlaceRow(L, p))
<1> DEFINE N == DeletePlaceRow(L, p)
<1>0. L \in Tables /\ References(L) BY DEF Lawful
<1>1. /\ N \in Tables /\ FilingAside(L, N) /\ PlaceGone(L, N, p)
      /\ N.trips = L.trips /\ N.tripCities = L.tripCities /\ N.cities = L.cities
      /\ N.walks = L.walks /\ N.links = L.links /\ N.media = L.media
  BY <1>0, PlaceDeleted
<1> HIDE DEF N
<1>2. ASSUME NEW v \in Visits, N.visits[v] # NoRow
      PROVE  N.visits[v] = L.visits[v] /\ N.places[L.visits[v].place] # NoRow
  <2>1. N.visits[v] = L.visits[v] /\ v \notin OccasionsAt(L, p) BY <1>1, <1>2 DEF PlaceGone
  <2>2. L.visits[v].place \in Places \ {p} BY <1>0, <1>2, <2>1, RowTypes DEF OccasionsAt
  <2> QED BY <1>0, <1>1, <1>2, <2>1, <2>2 DEF PlaceGone, References
<1>3. ASSUME NEW h \in Photos, L.photos[h] # NoRow
      PROVE  /\ N.photos[h].place = None \/ N.places[N.photos[h].place] # NoRow
             /\ N.photos[h].visit = None \/ N.visits[N.photos[h].visit] # NoRow
  <2>1. ASSUME N.photos[h].place # None PROVE N.places[N.photos[h].place] # NoRow
    <3>1. N.photos[h].place = L.photos[h].place /\ L.photos[h].place # p
      BY <1>1, <1>3, <2>1 DEF PlaceGone
    <3>2. L.photos[h].place \in Places /\ L.places[L.photos[h].place] # NoRow
      BY <1>0, <1>3, <2>1, <3>1, RowTypes DEF References, Opt
    <3> QED BY <1>1, <3>1, <3>2 DEF PlaceGone
  <2>2. ASSUME N.photos[h].visit # None PROVE N.visits[N.photos[h].visit] # NoRow
    <3>1. N.photos[h].visit = L.photos[h].visit /\ L.photos[h].visit \notin OccasionsAt(L, p)
      BY <1>1, <1>3, <2>2 DEF PlaceGone
    <3>2. L.photos[h].visit \in Visits /\ L.visits[L.photos[h].visit] # NoRow
      BY <1>0, <1>3, <2>2, <3>1, RowTypes DEF References, Opt
    <3> QED BY <1>1, <3>1, <3>2 DEF PlaceGone
  <2> QED BY <2>1, <2>2
<1>4. \A q \in Places : N.places[q] \in {NoRow, L.places[q]} BY <1>1 DEF PlaceGone
<1> QED BY <1>1, <1>2, <1>3, <1>4, FilingsLetGo DEF N

\* What is left after a trip is deleted: nothing that names it.
TripGone(L, N, t) ==
    /\ \A s \in Trips : N.trips[s] = IF s = t THEN NoRow ELSE L.trips[s]
    /\ \A s \in Trips, c \in Cities : N.tripCities[s][c] = IF s = t THEN None ELSE L.tripCities[s][c]
    /\ \A v \in Visits : N.visits[v] = IF v \in VisitsOn(L, t) THEN NoRow ELSE L.visits[v]
    /\ \A s \in Trips \ {t} : N.tripCities[s] = L.tripCities[s]
    /\ \A w \in Walks : N.walks[w] = IF L.walks[w] # NoRow /\ L.walks[w].trip = t THEN NoRow ELSE L.walks[w]
    /\ \A k \in Tokens : N.links[k] = IF k \in LinksOn(L, t) THEN NoRow ELSE L.links[k]
    /\ \A h \in Photos : L.photos[h] = NoRow \/ h \in PhotosOn(L, t) => N.photos[h] = NoRow
    /\ \A h \in Photos : L.photos[h] # NoRow /\ h \notin PhotosOn(L, t) =>
          /\ N.photos[h] \in PhotoRow
          /\ N.photos[h].trip = L.photos[h].trip /\ N.photos[h].place = L.photos[h].place
          /\ N.photos[h].visit = IF L.photos[h].visit \in VisitsOn(L, t) THEN None
                                 ELSE L.photos[h].visit

\* That is what deleting it does, and it breaks nothing.
LEMMA TripDeleted ==
    ASSUME NEW L, Lawful(L), NEW t \in Trips
    PROVE  LET N == DeleteTripRow(L, t)
           IN  /\ Lawful(N) /\ TripGone(L, N, t)
               /\ N.cities = L.cities /\ N.places = L.places /\ N.media = L.media
<1> DEFINE K == DeletePhotos(L, PhotosOn(L, t))
           M == DeleteVisits(K, VisitsOn(L, t))
           N == DeleteTripRow(L, t)
<1>0. L \in Tables BY DEF Lawful
<1>1. Lawful(K) /\ K \in Tables BY DeletePhotosLawful DEF Lawful
<1>2. /\ K.trips = L.trips /\ K.tripCities = L.tripCities /\ K.cities = L.cities /\ K.visits = L.visits
      /\ K.places = L.places /\ K.walks = L.walks /\ K.links = L.links /\ K.media = L.media
      /\ \A h \in Photos : K.photos[h] = IF h \in PhotosOn(L, t) THEN NoRow ELSE L.photos[h]
  BY <1>0 DEF DeletePhotos, Tables
<1> HIDE DEF K
<1>3. Lawful(M) /\ M \in Tables BY <1>1, DeleteVisitsLawful DEF Lawful
<1>4. /\ M.trips = L.trips /\ M.tripCities = L.tripCities /\ M.cities = L.cities
      /\ M.places = L.places /\ M.walks = L.walks /\ M.links = L.links /\ M.media = L.media
  BY <1>1, <1>2, VisitsDeleted
<1>5. FilingAside(K, M) /\ VisitsGone(K, M, VisitsOn(L, t)) BY <1>1, VisitsDeleted
<1>6. N = [M EXCEPT !.trips = [M.trips EXCEPT ![t] = NoRow],
                    !.tripCities = [M.tripCities EXCEPT ![t] = [c \in Cities |-> None]],
                    !.walks = [w \in Walks |->
                        IF L.walks[w] # NoRow /\ L.walks[w].trip = t THEN NoRow ELSE L.walks[w]],
                    !.links = [k \in Tokens |-> IF k \in LinksOn(L, t) THEN NoRow ELSE L.links[k]]]
  BY DEF DeleteTripRow, M, K
<1> HIDE DEF M, N
<1>7. /\ N.cities = L.cities /\ N.places = L.places /\ N.media = L.media
      /\ N.visits = M.visits /\ N.photos = M.photos
  BY <1>3, <1>4, <1>6 DEF Tables
<1>8. /\ N.trips = [L.trips EXCEPT ![t] = NoRow]
      /\ N.tripCities = [L.tripCities EXCEPT ![t] = [c \in Cities |-> None]]
      /\ N.walks = [w \in Walks |-> IF L.walks[w] # NoRow /\ L.walks[w].trip = t THEN NoRow ELSE L.walks[w]]
      /\ N.links = [k \in Tokens |-> IF k \in LinksOn(L, t) THEN NoRow ELSE L.links[k]]
  BY <1>3, <1>4, <1>6 DEF Tables
<1>9. /\ \A s \in Trips : N.trips[s] = IF s = t THEN NoRow ELSE L.trips[s]
      /\ \A s \in Trips, c \in Cities : N.tripCities[s][c] = IF s = t THEN None ELSE L.tripCities[s][c]
      /\ \A s \in Trips \ {t} : N.tripCities[s] = L.tripCities[s]
      /\ \A w \in Walks : N.walks[w] = IF L.walks[w] # NoRow /\ L.walks[w].trip = t THEN NoRow ELSE L.walks[w]
      /\ \A k \in Tokens : N.links[k] = IF k \in LinksOn(L, t) THEN NoRow ELSE L.links[k]
  BY <1>0, <1>8, TableFields, OtherFields
<1>10. \A v \in Visits : N.visits[v] = IF v \in VisitsOn(L, t) THEN NoRow ELSE L.visits[v]
  BY <1>2, <1>5, <1>7 DEF VisitsGone
<1>11. \A h \in Photos : L.photos[h] = NoRow \/ h \in PhotosOn(L, t) => N.photos[h] = NoRow
  BY <1>2, <1>5, <1>7 DEF FilingAside
<1>12. ASSUME NEW h \in Photos, L.photos[h] # NoRow, h \notin PhotosOn(L, t)
       PROVE  /\ N.photos[h] \in PhotoRow
              /\ N.photos[h].trip = L.photos[h].trip /\ N.photos[h].place = L.photos[h].place
              /\ N.photos[h].visit = IF L.photos[h].visit \in VisitsOn(L, t) THEN None
                                     ELSE L.photos[h].visit
  <2>1. K.photos[h] = L.photos[h] BY <1>2, <1>12
  <2> QED BY <1>5, <1>7, <1>12, <2>1 DEF FilingAside, VisitsGone
<1>13. TripGone(L, N, t) BY <1>9, <1>10, <1>11, <1>12 DEF TripGone
<1>14. N \in Tables
  <2>1. /\ N.trips \in [Trips -> TripRow \cup {NoRow}]
        /\ N.tripCities \in [Trips -> [Cities -> Opt(Nat)]]
        /\ N.walks \in [Walks -> WalkRow \cup {NoRow}]
        /\ N.links \in [Tokens -> LinkRow \cup {NoRow}]
    <3>1. [c \in Cities |-> None] \in [Cities -> Opt(Nat)] BY DEF Opt
    <3> QED BY <1>0, <1>8, <3>1, TableFields, OtherFields
  <2>2. N = [M EXCEPT !.trips = N.trips, !.tripCities = N.tripCities, !.walks = N.walks, !.links = N.links]
    BY <1>4, <1>6, <1>8
  <2> QED BY <1>3, <2>1, <2>2 DEF Tables
<1>15. References(N)
  <2>0. References(M) BY <1>3 DEF Lawful
  <2>1. \A m : HasObject(N, m) <=> HasObject(M, m) BY <1>4, <1>7 DEF HasObject
  <2>2. /\ \A s \in Trips : N.trips[s] # NoRow => HasObject(N, N.trips[s].cover)
        /\ \A c \in Cities : N.cities[c] # NoRow => HasObject(N, N.cities[c].cover)
        /\ \A p \in Places : N.places[p] # NoRow =>
              N.cities[N.places[p].city] # NoRow /\ HasObject(N, N.places[p].cover)
    BY <1>4, <1>7, <1>9, <2>0, <2>1 DEF References
  <2>3. \A s \in Trips : \A c \in Itinerary(N, s) : N.trips[s] # NoRow /\ N.cities[c] # NoRow
    <3>1. \A s \in Trips : \A c \in Itinerary(N, s) : s # t /\ c \in Itinerary(M, s)
      BY <1>4, <1>9 DEF Itinerary
    <3> QED BY <1>4, <1>7, <1>9, <2>0, <3>1 DEF References
  <2>4. \A v \in Visits : N.visits[v] # NoRow =>
           N.places[N.visits[v].place] # NoRow /\ N.trips[N.visits[v].trip] # NoRow
    <3> SUFFICES ASSUME NEW v \in Visits, N.visits[v] # NoRow
                 PROVE  N.places[N.visits[v].place] # NoRow /\ N.trips[N.visits[v].trip] # NoRow
      OBVIOUS
    <3>1. N.visits[v] = L.visits[v] /\ L.visits[v].trip # t BY <1>10 DEF VisitsOn
    <3>2. L.visits[v].trip \in Trips BY <1>0, <3>1, RowTypes
    <3> QED BY <1>4, <1>7, <1>9, <2>0, <3>1, <3>2 DEF References
  <2>5. ASSUME NEW h \in Photos, N.photos[h] # NoRow
        PROVE  /\ N.trips[N.photos[h].trip] # NoRow
               /\ N.cities[N.photos[h].city] # NoRow
               /\ N.photos[h].place = None \/ N.places[N.photos[h].place] # NoRow
               /\ N.photos[h].visit = None \/ N.visits[N.photos[h].visit] # NoRow
               /\ HasObject(N, N.photos[h].asset)
    <3>1. L.photos[h] # NoRow /\ h \notin PhotosOn(L, t) BY <1>11, <2>5
    <3>2. N.photos[h].trip # t BY <1>12, <3>1 DEF PhotosOn
    <3>3. N.photos[h].trip \in Trips BY <1>14, <2>5, RowTypes
    <3> QED BY <1>4, <1>7, <1>9, <2>0, <2>1, <2>5, <3>2, <3>3 DEF References
  <2>6. \A w \in Walks : N.walks[w] # NoRow =>
           N.trips[N.walks[w].trip] # NoRow /\ N.cities[N.walks[w].city] # NoRow
    <3>1. \A w \in Walks : N.walks[w] # NoRow => N.walks[w].trip \in Trips BY <1>14, RowTypes
    <3> QED BY <1>4, <1>7, <1>9, <2>0, <3>1 DEF References
  <2>7. \A k \in Tokens : N.links[k] # NoRow => N.trips[N.links[k].trip] # NoRow
    <3>1. \A k \in Tokens : N.links[k] # NoRow => N.links[k].trip \in Trips BY <1>14, RowTypes
    <3>2. \A k \in Tokens : N.links[k] # NoRow => N.links[k] = L.links[k] /\ N.links[k].trip # t
      BY <1>9 DEF LinksOn
    <3> QED BY <1>4, <1>9, <2>0, <3>1, <3>2 DEF References
  <2> QED BY <2>2, <2>3, <2>4, <2>5, <2>6, <2>7 DEF References
<1>16. Uniques(N)
  <2>1. Uniques(L) BY DEF Lawful
  <2>2. \A v \in Visits : N.visits[v] \in {NoRow, L.visits[v]} BY <1>10
  <2>3. \A s \in Trips, c \in Cities : N.tripCities[s][c] \in {None, L.tripCities[s][c]} BY <1>9
  <2>4. \A k \in Tokens : N.links[k] \in {NoRow, L.links[k]} BY <1>9
  <2> QED BY <2>1, <2>2, <2>3, <2>4, UniquesShrink
<1>17. Checks(N)
  <2>1. Checks(M) BY <1>3 DEF Lawful
  <2>2. \A s \in Trips : N.trips[s] \in {NoRow, M.trips[s]} BY <1>4, <1>9
  <2>3. N.places = M.places BY <1>4, <1>7
  <2>4. \A k \in Tokens : N.links[k] \in {NoRow, M.links[k]} BY <1>4, <1>9
  <2>5. NewChecks(M, N) BY <1>7, <2>2, <2>3, <2>4 DEF NewChecks
  <2> QED BY <2>1, <2>5, ChecksKept
<1> QED BY <1>7, <1>13, <1>14, <1>15, <1>16, <1>17 DEF Lawful, N

-----------------------------------------------------------------------------
(***************************************************************************)
(* Requests.  What is proved of every step is proved request by request.   *)
(***************************************************************************)

\* The requests a client can send.
Asked(r) ==
    \/ \E i \in Trips, b \in TripWrites : r = Request("PutTrip", i, b)
    \/ \E i \in Trips : r = Request("DeleteTrip", i, None)
    \/ \E i \in Cities, b \in CityWrites : r = Request("PutCity", i, b)
    \/ \E i \in Places, b \in PlaceWrites : r = Request("PutPlace", i, b)
    \/ \E i \in Places, b \in Dispositions : r = Request("RemovePlace", i, b)
    \/ \E i \in Photos, b \in PhotoWrites : r = Request("PutPhoto", i, b)
    \/ \E i \in Photos : r = Request("DeletePhoto", i, None)
    \/ \E i \in SUBSET Photos, b \in Laters : r = Request("SnoozePhotos", i, b)
    \/ \E i \in Photos, b \in Refilings : r = Request("RefilePhoto", i, b)
    \/ \E i \in Walks, b \in WalkWrites : r = Request("PutWalk", i, b)
    \/ \E i \in Trips, b \in ShareWrites : r = Request("SetShareOptions", i, b)
    \/ \E i \in Trips, b \in Tokens : r = Request("NewShareLink", i, b)
    \/ \E i \in Trips : r = Request("StopSharing", i, None)
    \/ \E b \in Names : r = Request("SetTravellerName", None, b)
    \/ \E i \in Media : r = Request("BeginMedia", i, None)
    \/ \E i \in Media : r = Request("MarkMediaUploaded", i, None)

Ops == {"PutTrip", "DeleteTrip", "PutCity", "PutPlace", "RemovePlace", "PutPhoto",
        "DeletePhoto", "SnoozePhotos", "RefilePhoto", "PutWalk", "SetShareOptions",
        "NewShareLink", "StopSharing", "SetTravellerName", "BeginMedia", "MarkMediaUploaded"}

\* Every step serves one of them.
LEMMA NextAsked ==
    ASSUME Next
    PROVE  \E r : Asked(r) /\ Serve(r)
BY DEF Next, TripNext, CityNext, PlaceNext, PhotoNext, WalkNext, ShareNext, NameNext, MediaNext, Asked

\* Each is served by the operation it names, with an id and a body of the
\* operation's kind.
LEMMA AskedCases ==
    ASSUME NEW L, NEW r, Asked(r), NEW now
    PROVE  /\ r.op \in Ops
           /\ r.op = "PutTrip" => r.id \in Trips /\ r.body \in TripWrites /\ Perform(L, r, now) = PutTrip(L, r.id, r.body)
           /\ r.op = "DeleteTrip" => r.id \in Trips /\ Perform(L, r, now) = DeleteTrip(L, r.id)
           /\ r.op = "PutCity" => r.id \in Cities /\ r.body \in CityWrites /\ Perform(L, r, now) = PutCity(L, r.id, r.body)
           /\ r.op = "PutPlace" => r.id \in Places /\ r.body \in PlaceWrites /\ Perform(L, r, now) = PutPlace(L, r.id, r.body)
           /\ r.op = "RemovePlace" => r.id \in Places /\ r.body \in Dispositions /\ Perform(L, r, now) = RemovePlace(L, r.id, r.body)
           /\ r.op = "PutPhoto" => r.id \in Photos /\ r.body \in PhotoWrites /\ Perform(L, r, now) = PutPhoto(L, r.id, r.body)
           /\ r.op = "DeletePhoto" => r.id \in Photos /\ Perform(L, r, now) = DeletePhoto(L, r.id)
           /\ r.op = "SnoozePhotos" => r.id \in SUBSET Photos /\ r.body \in Laters /\ Perform(L, r, now) = SnoozePhotos(L, r.id, r.body)
           /\ r.op = "RefilePhoto" => r.id \in Photos /\ r.body \in Refilings /\ Perform(L, r, now) = RefilePhoto(L, r.id, r.body)
           /\ r.op = "PutWalk" => r.id \in Walks /\ r.body \in WalkWrites /\ Perform(L, r, now) = PutWalk(L, r.id, r.body)
           /\ r.op = "SetShareOptions" => r.id \in Trips /\ r.body \in ShareWrites /\ Perform(L, r, now) = SetShareOptions(L, r.id, r.body)
           /\ r.op = "NewShareLink" => r.id \in Trips /\ r.body \in Tokens /\ Perform(L, r, now) = NewShareLink(L, r.id, r.body, now)
           /\ r.op = "StopSharing" => r.id \in Trips /\ Perform(L, r, now) = StopSharing(L, r.id, now)
           /\ r.op = "SetTravellerName" => r.body \in Names /\ Perform(L, r, now) = SetTravellerName(L, r.body)
           /\ r.op = "BeginMedia" => r.id \in Media /\ Perform(L, r, now) = BeginMedia(L, r.id)
           /\ r.op = "MarkMediaUploaded" => r.id \in Media /\ Perform(L, r, now) = MarkMediaUploaded(L, r.id)
<1>1. CASE \E i \in Trips, b \in TripWrites : r = Request("PutTrip", i, b)
  BY <1>1 DEF Request, Perform, Ops
<1>2. CASE \E i \in Trips : r = Request("DeleteTrip", i, None)
  BY <1>2 DEF Request, Perform, Ops
<1>3. CASE \E i \in Cities, b \in CityWrites : r = Request("PutCity", i, b)
  BY <1>3 DEF Request, Perform, Ops
<1>4. CASE \E i \in Places, b \in PlaceWrites : r = Request("PutPlace", i, b)
  BY <1>4 DEF Request, Perform, Ops
<1>5. CASE \E i \in Places, b \in Dispositions : r = Request("RemovePlace", i, b)
  BY <1>5 DEF Request, Perform, Ops
<1>6. CASE \E i \in Photos, b \in PhotoWrites : r = Request("PutPhoto", i, b)
  BY <1>6 DEF Request, Perform, Ops
<1>7. CASE \E i \in Photos : r = Request("DeletePhoto", i, None)
  BY <1>7 DEF Request, Perform, Ops
<1>8. CASE \E i \in SUBSET Photos, b \in Laters : r = Request("SnoozePhotos", i, b)
  BY <1>8 DEF Request, Perform, Ops
<1>9. CASE \E i \in Photos, b \in Refilings : r = Request("RefilePhoto", i, b)
  BY <1>9 DEF Request, Perform, Ops
<1>10. CASE \E i \in Walks, b \in WalkWrites : r = Request("PutWalk", i, b)
  BY <1>10 DEF Request, Perform, Ops
<1>11. CASE \E i \in Trips, b \in ShareWrites : r = Request("SetShareOptions", i, b)
  BY <1>11 DEF Request, Perform, Ops
<1>12. CASE \E i \in Trips, b \in Tokens : r = Request("NewShareLink", i, b)
  BY <1>12 DEF Request, Perform, Ops
<1>13. CASE \E i \in Trips : r = Request("StopSharing", i, None)
  BY <1>13 DEF Request, Perform, Ops
<1>14. CASE \E b \in Names : r = Request("SetTravellerName", None, b)
  BY <1>14 DEF Request, Perform, Ops
<1>15. CASE \E i \in Media : r = Request("BeginMedia", i, None)
  BY <1>15 DEF Request, Perform, Ops
<1>16. CASE \E i \in Media : r = Request("MarkMediaUploaded", i, None)
  BY <1>16 DEF Request, Perform, Ops
<1> QED BY <1>1, <1>2, <1>3, <1>4, <1>5, <1>6, <1>7, <1>8, <1>9, <1>10, <1>11, <1>12, <1>13, <1>14, <1>15, <1>16 DEF Asked

\* Whatever a transaction answers, the log it leaves is the one it found or
\* the lawful one its last statement wrote: with one statement,
LEMMA OneLog ==
    ASSUME NEW L, NEW a
    PROVE  Commit(L, <<a>>).log = L \/ (Commit(L, <<a>>).log = a /\ Lawful(a))
<1>1. CASE Commit(L, <<a>>) = [log |-> L, answer |-> "constraint"] BY <1>1
<1>2. CASE Commit(L, <<a>>) = [log |-> a, answer |-> "ok"] /\ Lawful(a) BY <1>2
<1> QED BY <1>1, <1>2, OneStatement

\* with two statements,
LEMMA TwoLog ==
    ASSUME NEW L, NEW a, NEW b
    PROVE  \/ Commit(L, <<a, b>>).log = L
           \/ Commit(L, <<a, b>>).log = b /\ Lawful(a) /\ Lawful(b)
<1>1. CASE Commit(L, <<a, b>>) = [log |-> L, answer |-> "constraint"] BY <1>1
<1>2. CASE Commit(L, <<a, b>>) = [log |-> b, answer |-> "ok"] /\ Lawful(a) /\ Lawful(b) BY <1>2
<1> QED BY <1>1, <1>2, TwoStatements

\* and with four.
LEMMA FourLog ==
    ASSUME NEW L, NEW a, NEW b, NEW c, NEW d
    PROVE  \/ Commit(L, <<a, b, c, d>>).log = L
           \/ /\ Commit(L, <<a, b, c, d>>).log = d
              /\ Lawful(a) /\ Lawful(b) /\ Lawful(c) /\ Lawful(d)
<1>1. CASE Commit(L, <<a, b, c, d>>) = [log |-> L, answer |-> "constraint"] BY <1>1
<1>2. CASE /\ Commit(L, <<a, b, c, d>>) = [log |-> d, answer |-> "ok"]
           /\ Lawful(a) /\ Lawful(b) /\ Lawful(c) /\ Lawful(d)
  BY <1>2
<1> QED BY <1>1, <1>2, FourStatements

\* A statement on one table leaves the others alone.
LEMMA OneTable ==
    ASSUME NEW L \in Tables, NEW f
    PROVE  /\ \A M \in {[L EXCEPT !.name = f], [L EXCEPT !.trips = f], [L EXCEPT !.cities = f],
                        [L EXCEPT !.places = f], [L EXCEPT !.walks = f], [L EXCEPT !.media = f]} :
                 M.tripCities = L.tripCities /\ M.visits = L.visits /\ M.photos = L.photos /\ M.links = L.links
           /\ LET M == [L EXCEPT !.tripCities = f]
              IN  M.visits = L.visits /\ M.photos = L.photos /\ M.links = L.links /\ M.tripCities = f
           /\ LET M == [L EXCEPT !.visits = f]
              IN  M.tripCities = L.tripCities /\ M.photos = L.photos /\ M.links = L.links /\ M.visits = f
           /\ LET M == [L EXCEPT !.photos = f]
              IN  M.tripCities = L.tripCities /\ M.visits = L.visits /\ M.links = L.links /\ M.photos = f
           /\ LET M == [L EXCEPT !.links = f]
              IN  M.tripCities = L.tripCities /\ M.visits = L.visits /\ M.photos = L.photos /\ M.links = f
BY DEF Tables

\* Refusing leaves the log as it was.
LEMMA RefuseLog ==
    ASSUME NEW L, NEW why
    PROVE  Refuse(L, why).log = L /\ Refuse(L, why).answer = why
BY DEF Refuse

\* The tables each operation writes to: the others are as it found them.
SameFiles(L, M) == M.visits = L.visits /\ M.photos = L.photos
SameWays(L, M) == M.tripCities = L.tripCities /\ M.links = L.links

\* The itinerary that an array of cities spells.
ArrayRow(s) ==
    [c \in Cities |-> IF c \in ToSet(s) THEN (CHOOSE i \in DOMAIN s : s[i] = c) - 1 ELSE None]

\* PutTrip writes trips and trip_cities.
LEMMA PutTripTables ==
    ASSUME NEW L, Lawful(L), NEW t, NEW w
    PROVE  LET N == PutTrip(L, t, w).log
           IN  /\ SameFiles(L, N) /\ N.links = L.links
               /\ \/ N.tripCities = L.tripCities
                  \/ /\ TripWritable(L, t, w) /\ w.cityIds # Unsent
                     /\ \A s \in Trips : N.tripCities[s] = IF s = t THEN ArrayRow(w.cityIds) ELSE L.tripCities[s]
<1> DEFINE old == BeforeTrip(L, t)
           row == [old EXCEPT !.start = Merge(w.start, old.start), !.end = Merge(w.end, old.end),
                              !.summary = Merge(w.summary, old.summary),
                              !.cover = Merge(w.cover, old.cover)]
           upserted == [L EXCEPT !.trips = [L.trips EXCEPT ![t] = row]]
           f == ArrayRow(w.cityIds)
           replaced == ReplaceTripCities(upserted, t, w.cityIds)
           N == PutTrip(L, t, w).log
<1>0. L \in Tables BY DEF Lawful
<1>1. SameFiles(L, upserted) /\ SameWays(L, upserted) BY <1>0, OneTable DEF SameFiles, SameWays
<1>2. ASSUME Lawful(upserted)
      PROVE  SameFiles(L, replaced) /\ replaced.links = L.links /\ replaced.tripCities = [L.tripCities EXCEPT ![t] = f]
  <2>1. replaced = [upserted EXCEPT !.tripCities = [upserted.tripCities EXCEPT ![t] = f]] BY DEF ReplaceTripCities, ArrayRow
  <2> HIDE DEF upserted, replaced, f
  <2>2. upserted \in Tables BY <1>2 DEF Lawful
  <2> QED BY <1>1, <2>1, <2>2, OneTable DEF SameFiles, SameWays
<1>3. \/ N = L \/ N = upserted
      \/ N = replaced /\ Lawful(upserted) /\ TripWritable(L, t, w) /\ w.cityIds # Unsent
  <2>1. CASE ~TripWritable(L, t, w) BY <2>1, RefuseLog DEF PutTrip
  <2>2. CASE TripWritable(L, t, w) /\ w.cityIds = Unsent
    <3>1. PutTrip(L, t, w) = Commit(L, <<upserted>>) BY <2>2 DEF PutTrip
    <3> HIDE DEF upserted
    <3> QED BY <3>1, OneLog
  <2>3. CASE TripWritable(L, t, w) /\ w.cityIds # Unsent
    <3>1. PutTrip(L, t, w) = Commit(L, <<upserted, replaced>>) BY <2>3 DEF PutTrip
    <3> HIDE DEF upserted, replaced
    <3>2. N = L \/ (N = replaced /\ Lawful(upserted)) BY <3>1, TwoLog
    <3> QED BY <2>3, <3>2
  <2> QED BY <2>1, <2>2, <2>3
<1> HIDE DEF upserted, replaced, N, f
<1>4. SameFiles(L, L) /\ SameWays(L, L) BY DEF SameFiles, SameWays
<1>5. CASE N = L BY <1>4, <1>5 DEF N, SameWays
<1>6. CASE N = upserted BY <1>1, <1>6 DEF N, SameWays
<1>7. CASE N = replaced /\ Lawful(upserted) /\ TripWritable(L, t, w) /\ w.cityIds # Unsent
  <2>1. L.tripCities \in [Trips -> [Cities -> Opt(Nat)]] BY <1>0 DEF Tables
  <2>2. \A s \in Trips : replaced.tripCities[s] = IF s = t THEN f ELSE L.tripCities[s]
    BY <1>2, <1>7, <2>1
  <2> QED BY <1>2, <1>7, <2>2 DEF N, f
<1> QED BY <1>3, <1>5, <1>6, <1>7

\* PutCity writes cities and trip_cities.
LEMMA PutCityTables ==
    ASSUME NEW L, Lawful(L), NEW c \in Cities, NEW w \in CityWrites
    PROVE  LET N == PutCity(L, c, w).log
           IN  /\ SameFiles(L, N) /\ N.links = L.links
               /\ \/ N.tripCities = L.tripCities
                  \/ /\ w.attachTo \in Trips /\ c \notin Itinerary(L, w.attachTo)
                     /\ N.tripCities = [L.tripCities EXCEPT ![w.attachTo] = [L.tripCities[w.attachTo] EXCEPT ![c] =
                            NextOrdinal({L.tripCities[w.attachTo][d] : d \in Itinerary(L, w.attachTo)})]]
<1> DEFINE old == IF L.cities[c] = NoRow THEN [cover |-> None] ELSE L.cities[c]
           row == [cover |-> Merge(w.cover, old.cover)]
           upserted == [L EXCEPT !.cities = [L.cities EXCEPT ![c] = row]]
           t == w.attachTo
           attached == AttachCity(upserted, t, c)
           Moved(M) == [M.tripCities EXCEPT ![t] = [M.tripCities[t] EXCEPT ![c] =
                            NextOrdinal({M.tripCities[t][d] : d \in Itinerary(M, t)})]]
           N == PutCity(L, c, w).log
<1>0. L \in Tables BY DEF Lawful
<1>1. SameFiles(L, upserted) /\ SameWays(L, upserted) BY <1>0, OneTable DEF SameFiles, SameWays
<1>2. ASSUME Lawful(upserted), c \notin Itinerary(L, t)
      PROVE  SameFiles(L, attached) /\ attached.links = L.links /\ attached.tripCities = Moved(L)
  <2>0. Itinerary(upserted, t) = Itinerary(L, t) BY <1>1 DEF SameWays, Itinerary
  <2>1. attached = [upserted EXCEPT !.tripCities = Moved(upserted)] BY <1>2, <2>0 DEF AttachCity
  <2>2. Moved(upserted) = Moved(L)
    <3> HIDE DEF upserted
    <3> QED BY <1>1, <2>0 DEF SameWays
  <2> HIDE DEF upserted, attached, Moved
  <2>3. upserted \in Tables BY <1>2 DEF Lawful
  <2> QED BY <1>1, <2>1, <2>2, <2>3, OneTable DEF SameFiles, SameWays
<1>3. c \in Itinerary(L, t) => attached = upserted
  <2>1. Itinerary(upserted, t) = Itinerary(L, t) BY <1>1 DEF SameWays, Itinerary
  <2> HIDE DEF upserted
  <2> QED BY <2>1 DEF AttachCity
<1>4. \/ N = L \/ N = upserted
      \/ N = attached /\ Lawful(upserted) /\ t # Unsent
  <2>1. CASE PutCity(L, c, w) = Refuse(L, "invalid") BY <2>1, RefuseLog
  <2>2. CASE PutCity(L, c, w) = Commit(L, <<upserted>>) 
    <3> HIDE DEF upserted
    <3> QED BY <2>2, OneLog
  <2>3. CASE PutCity(L, c, w) = Commit(L, <<upserted, attached>>) /\ t # Unsent
    <3> HIDE DEF upserted, attached
    <3>2. N = L \/ (N = attached /\ Lawful(upserted)) BY <2>3, TwoLog
    <3> QED BY <2>3, <3>2
  <2> QED BY <2>1, <2>2, <2>3 DEF PutCity
<1>5. t # Unsent => t \in Trips BY DEF CityWrites, Body
<1> HIDE DEF upserted, attached, N
<1>6. SameFiles(L, L) /\ SameWays(L, L) BY DEF SameFiles, SameWays
<1>7. CASE N = L BY <1>6, <1>7 DEF N, SameWays
<1>8. CASE N = upserted BY <1>1, <1>8 DEF N, SameWays
<1>9. CASE N = attached /\ Lawful(upserted) /\ t # Unsent /\ c \notin Itinerary(L, t)
  BY <1>2, <1>5, <1>9 DEF N
<1> QED BY <1>3, <1>4, <1>7, <1>8, <1>9

\* Walks, share flags, the name and objects have tables of their own.
LEMMA AsideTables ==
    ASSUME NEW L, Lawful(L), NEW i, NEW w
    PROVE  \A N \in {PutWalk(L, i, w).log, SetShareOptions(L, i, w).log, SetTravellerName(L, w).log,
                     BeginMedia(L, i).log, MarkMediaUploaded(L, i).log} :
              SameFiles(L, N) /\ SameWays(L, N)
<1>0. L \in Tables BY DEF Lawful
<1>1. SameFiles(L, L) /\ SameWays(L, L) BY DEF SameFiles, SameWays
<1>2. ASSUME NEW f
      PROVE  \A M \in {[L EXCEPT !.name = f], [L EXCEPT !.trips = f], [L EXCEPT !.walks = f],
                       [L EXCEPT !.media = f]} : SameFiles(L, M) /\ SameWays(L, M)
  BY <1>0 DEF SameFiles, SameWays, Tables
<1>3. ASSUME NEW M, SameFiles(L, M), SameWays(L, M)
      PROVE  SameFiles(L, Commit(L, <<M>>).log) /\ SameWays(L, Commit(L, <<M>>).log)
  BY <1>1, <1>3, OneLog
<1>4. \A why : SameFiles(L, Refuse(L, why).log) /\ SameWays(L, Refuse(L, why).log) BY <1>1, RefuseLog
<1>5. SameFiles(L, PutWalk(L, i, w).log) /\ SameWays(L, PutWalk(L, i, w).log)
  <2> DEFINE Written(row) == [L EXCEPT !.walks = [L.walks EXCEPT ![i] = row]]
  <2>1. \A row : SameFiles(L, Written(row)) /\ SameWays(L, Written(row)) BY <1>2
  <2>2. \A row : LET C == Commit(L, <<Written(row)>>).log IN SameFiles(L, C) /\ SameWays(L, C)
    <3> HIDE DEF Written
    <3> QED BY <1>3, <2>1
  <2> QED BY <1>4, <2>2 DEF PutWalk
<1>6. SameFiles(L, SetShareOptions(L, i, w).log) /\ SameWays(L, SetShareOptions(L, i, w).log)
  <2>1. \A a, b, c : SameFiles(L, SetFlags(L, i, a, b, c)) /\ SameWays(L, SetFlags(L, i, a, b, c))
    BY <1>2 DEF SetFlags
  <2>2. \A a, b, c : LET C == Commit(L, <<SetFlags(L, i, a, b, c)>>).log IN SameFiles(L, C) /\ SameWays(L, C)
    BY <1>3, <2>1
  <2> QED BY <1>4, <2>2 DEF SetShareOptions
<1>7. SameFiles(L, SetTravellerName(L, w).log) /\ SameWays(L, SetTravellerName(L, w).log)
  <2> DEFINE M == [L EXCEPT !.name = w]
  <2>1. SameFiles(L, M) /\ SameWays(L, M) BY <1>2
  <2> HIDE DEF M
  <2>2. LET C == Commit(L, <<M>>).log IN SameFiles(L, C) /\ SameWays(L, C) BY <1>3, <2>1
  <2> QED BY <2>2 DEF SetTravellerName, M
<1>8. \A state : LET C == Commit(L, <<[L EXCEPT !.media = [L.media EXCEPT ![i] = state]]>>).log
                 IN  SameFiles(L, C) /\ SameWays(L, C)
  <2> DEFINE Written(state) == [L EXCEPT !.media = [L.media EXCEPT ![i] = state]]
  <2>1. \A state : SameFiles(L, Written(state)) /\ SameWays(L, Written(state)) BY <1>2
  <2>2. \A state : LET C == Commit(L, <<Written(state)>>).log IN SameFiles(L, C) /\ SameWays(L, C)
    <3> HIDE DEF Written
    <3> QED BY <1>3, <2>1
  <2> QED BY <2>2
<1>9. LET C == Commit(L, <<L>>).log IN SameFiles(L, C) /\ SameWays(L, C) BY <1>1, <1>3
<1>10. SameFiles(L, BeginMedia(L, i).log) /\ SameWays(L, BeginMedia(L, i).log)
  <2>1. CASE L.media[i] = "absent" BY <1>8, <2>1 DEF BeginMedia
  <2>2. CASE L.media[i] # "absent" BY <1>9, <2>2 DEF BeginMedia
  <2> QED BY <2>1, <2>2
<1>11. SameFiles(L, MarkMediaUploaded(L, i).log) /\ SameWays(L, MarkMediaUploaded(L, i).log)
  BY <1>4, <1>8 DEF MarkMediaUploaded
<1> QED BY <1>5, <1>6, <1>7, <1>10, <1>11

\* No photograph that stays is filed anew.
SameFilings(L, N) ==
    \A h \in Photos : L.photos[h] # NoRow /\ N.photos[h] # NoRow =>
        N.photos[h].place = L.photos[h].place /\ N.photos[h].visit = L.photos[h].visit

\* PutPhoto, DeletePhoto and SnoozePhotos write photos, and no filing.
LEMMA PhotoTables ==
    ASSUME NEW L, Lawful(L), NEW h, NEW w, NEW S, NEW until
    PROVE  \A N \in {PutPhoto(L, h, w).log, DeletePhoto(L, h).log, SnoozePhotos(L, S, until).log} :
              N.visits = L.visits /\ SameWays(L, N) /\ SameFilings(L, N)
<1> DEFINE Good(N) == N.visits = L.visits /\ SameWays(L, N) /\ SameFilings(L, N)
<1>0. L \in Tables BY DEF Lawful
<1>1. Good(L) BY DEF SameWays, SameFilings
<1>2. ASSUME NEW f, \A g \in Photos : L.photos[g] # NoRow /\ f[g] # NoRow =>
                       f[g].place = L.photos[g].place /\ f[g].visit = L.photos[g].visit
      PROVE  Good([L EXCEPT !.photos = f])
  <2> DEFINE M == [L EXCEPT !.photos = f]
  <2>1. M.tripCities = L.tripCities /\ M.visits = L.visits /\ M.links = L.links /\ M.photos = f
    BY <1>0, OneTable
  <2> HIDE DEF M
  <2>2. Good(M) BY <1>2, <2>1 DEF SameWays, SameFilings
  <2> QED BY <2>2 DEF M
<1>3. ASSUME NEW M, Good(M) PROVE Good(Commit(L, <<M>>).log)
  <2> HIDE DEF Good
  <2> QED BY <1>1, <1>3, OneLog
<1>4. \A why : Good(Refuse(L, why).log)
  <2> HIDE DEF Good
  <2> QED BY <1>1, RefuseLog
<1>5. Good(PutPhoto(L, h, w).log)
  <2> DEFINE old == IF L.photos[h] = NoRow THEN NewPhoto ELSE L.photos[h]
             row == [old EXCEPT !.trip = Merge(w.trip, old.trip), !.city = Merge(w.city, old.city),
                                !.asset = Merge(w.asset, old.asset),
                                !.caption = Merge(StoredCaption(w.caption), old.caption),
                                !.filedLater = Merge(w.filedLater, old.filedLater)]
             f == [L.photos EXCEPT ![h] = row]
  <2>1. row.place = old.place /\ row.visit = old.visit OBVIOUS
  <2>2. \A g \in Photos : f[g] = IF g = h THEN row ELSE L.photos[g] BY <1>0, TableFields
  <2>3. L.photos[h] # NoRow => old = L.photos[h] OBVIOUS
  <2> HIDE DEF Good, row, f, old
  <2>4. Good([L EXCEPT !.photos = f]) BY <1>2, <2>1, <2>2, <2>3
  <2>5. Good(Commit(L, <<[L EXCEPT !.photos = f]>>).log) BY <1>3, <2>4
  <2> QED BY <1>4, <2>5 DEF PutPhoto, row, f, old
<1>6. Good(DeletePhoto(L, h).log)
  <2> DEFINE f == [g \in Photos |-> IF g \in {h} THEN NoRow ELSE L.photos[g]]
  <2>1. \A g \in Photos : f[g] \in {NoRow, L.photos[g]} OBVIOUS
  <2> HIDE DEF Good, f
  <2>2. Good([L EXCEPT !.photos = f]) BY <1>2, <2>1
  <2>3. Good(Commit(L, <<[L EXCEPT !.photos = f]>>).log) BY <1>3, <2>2
  <2>4. DeletePhotos(L, {h}) = [L EXCEPT !.photos = f] BY DEF DeletePhotos, f
  <2> QED BY <1>4, <2>3, <2>4 DEF DeletePhoto
<1>7. Good(SnoozePhotos(L, S, until).log)
  <2> DEFINE Later(g) == [L.photos[g] EXCEPT !.filedLater = until]
             f == [g \in Photos |-> IF g \in S /\ L.photos[g] # NoRow THEN Later(g) ELSE L.photos[g]]
  <2>1. \A g : Later(g).place = L.photos[g].place /\ Later(g).visit = L.photos[g].visit OBVIOUS
  <2>2. \A g \in Photos : f[g] = IF g \in S /\ L.photos[g] # NoRow THEN Later(g) ELSE L.photos[g] OBVIOUS
  <2> HIDE DEF Good, f, Later
  <2>3. Good([L EXCEPT !.photos = f]) BY <1>2, <2>1, <2>2
  <2>4. Good(Commit(L, <<[L EXCEPT !.photos = f]>>).log) BY <1>3, <2>3
  <2> QED BY <1>4, <2>4 DEF SnoozePhotos, f, Later
<1> QED BY <1>5, <1>6, <1>7

\* A link that was revoked stays so, or its row goes.
KeepsRevoked(L, N) ==
    \A k \in Tokens : L.links[k] # NoRow /\ L.links[k].revoked # None => N.links[k] \in {L.links[k], NoRow}

\* Revoking a trip's live link touches no link that was revoked, and leaves the
\* trip none that is live.
LEMMA LiveRevoked ==
    ASSUME NEW L, Lawful(L), NEW t, NEW now \in Moments
    PROVE  LET M == RevokeLive(L, t, now)
           IN  /\ M \in Tables /\ SameFiles(L, M) /\ M.tripCities = L.tripCities /\ M.trips = L.trips
               /\ M.links \in [Tokens -> LinkRow \cup {NoRow}]
               /\ \A k \in LiveLinks(L, t) :
                     M.links[k].trip = t /\ M.links[k].created = L.links[k].created /\ M.links[k].revoked = now
               /\ \A k \in Tokens : k \notin LiveLinks(L, t) => M.links[k] = L.links[k]
               /\ LiveLinks(M, t) = {}
<1> DEFINE Row(k) == [L.links[k] EXCEPT !.revoked = now]
           f == [k \in Tokens |-> IF k \in LiveLinks(L, t) THEN Row(k) ELSE L.links[k]]
           M == RevokeLive(L, t, now)
<1>0. L \in Tables BY DEF Lawful
<1>1. M = [L EXCEPT !.links = f] /\ M.links = f BY <1>0, OneTable DEF RevokeLive
<1>2. ASSUME NEW k \in LiveLinks(L, t)
      PROVE  /\ Row(k) \in LinkRow /\ Row(k) # NoRow
             /\ Row(k).trip = t /\ Row(k).created = L.links[k].created /\ Row(k).revoked = now
  <2>1. k \in Tokens /\ L.links[k] # NoRow /\ L.links[k].trip = t BY DEF LiveLinks
  <2>2. L.links[k] \in LinkRow /\ t \in Trips BY <1>0, <2>1, RowTypes
  <2>3. Row(k) = [trip |-> t, created |-> L.links[k].created, revoked |-> now] BY <2>1, <2>2 DEF LinkRow
  <2>4. Row(k) \in LinkRow BY <2>2, <2>3 DEF LinkRow, Opt
  <2>5. Row(k).trip = t /\ Row(k).created = L.links[k].created /\ Row(k).revoked = now BY <2>3
  <2> HIDE DEF Row
  <2>6. Row(k) # NoRow BY <2>4, MarkersAreNoRows
  <2> QED BY <2>3, <2>4, <2>5, <2>6
<1>3. \A k \in Tokens : L.links[k] \in LinkRow \cup {NoRow} BY <1>0, OtherFields
<1>4. \A k \in Tokens : f[k] = IF k \in LiveLinks(L, t) THEN Row(k) ELSE L.links[k] OBVIOUS
<1>5. f = [k \in Tokens |-> f[k]] OBVIOUS
<1> HIDE DEF Row, f, M
<1>6. f \in [Tokens -> LinkRow \cup {NoRow}] BY <1>2, <1>3, <1>4, <1>5
<1>7. LiveLinks(M, t) = {}
  <2> SUFFICES ASSUME NEW k \in LiveLinks(M, t) PROVE FALSE OBVIOUS
  <2>1. k \in Tokens /\ f[k] # NoRow /\ f[k].trip = t /\ f[k].revoked = None BY <1>1 DEF LiveLinks
  <2>2. k \notin LiveLinks(L, t) BY <1>2, <1>4, <2>1, MomentsOrdered, MarkersAreNoRows
  <2> QED BY <1>4, <2>1, <2>2 DEF LiveLinks
<1>8. \A k \in LiveLinks(L, t) :
         M.links[k].trip = t /\ M.links[k].created = L.links[k].created /\ M.links[k].revoked = now
  BY <1>1, <1>2, <1>4 DEF LiveLinks
<1>9. \A k \in Tokens : k \notin LiveLinks(L, t) => M.links[k] = L.links[k] BY <1>1, <1>4
<1>10. M \in Tables BY <1>0, <1>1, <1>6 DEF Tables
<1>11. SameFiles(L, M) /\ M.tripCities = L.tripCities /\ M.trips = L.trips
  BY <1>0, <1>1 DEF Tables, SameFiles
<1> QED BY <1>1, <1>6, <1>7, <1>8, <1>9, <1>10, <1>11 DEF M

\* NewShareLink writes share_links, and opens no link that was revoked.
LEMMA NewShareLinkTables ==
    ASSUME NEW L, Lawful(L), NEW t, NEW token \in Tokens, NEW now \in Moments
    PROVE  LET N == NewShareLink(L, t, token, now).log
           IN  SameFiles(L, N) /\ N.tripCities = L.tripCities /\ KeepsRevoked(L, N)
<1> DEFINE Good(N) == SameFiles(L, N) /\ N.tripCities = L.tripCities /\ KeepsRevoked(L, N)
           M == RevokeLive(L, t, now)
           N == [M EXCEPT !.links = [M.links EXCEPT ![token] = [trip |-> t, created |-> now, revoked |-> None]]]
<1>0. L \in Tables BY DEF Lawful
<1>1. Good(L) BY DEF SameFiles, KeepsRevoked
<1>2. /\ M \in Tables /\ SameFiles(L, M) /\ M.tripCities = L.tripCities /\ M.trips = L.trips
      /\ M.links \in [Tokens -> LinkRow \cup {NoRow}]
      /\ \A k \in Tokens : k \notin LiveLinks(L, t) => M.links[k] = L.links[k]
  BY LiveRevoked
<1>3. M \in Tables BY <1>2
<1>4. M.tripCities = L.tripCities /\ M.visits = L.visits /\ M.photos = L.photos
  BY <1>2 DEF SameFiles
<1> HIDE DEF M
<1>5. ASSUME L.links[token] = NoRow PROVE Good(N)
  <2>1. /\ N.tripCities = L.tripCities /\ N.visits = L.visits /\ N.photos = L.photos
        /\ N.links = [M.links EXCEPT ![token] = [trip |-> t, created |-> now, revoked |-> None]]
    BY <1>3, <1>4, OneTable
  <2> HIDE DEF N
  <2>2. \A k \in Tokens : k # token => N.links[k] = M.links[k] BY <1>2, <2>1
  <2>3. \A k \in Tokens : L.links[k] # NoRow /\ L.links[k].revoked # None => k \notin LiveLinks(L, t) BY DEF LiveLinks
  <2>4. KeepsRevoked(L, N) BY <1>2, <1>5, <2>2, <2>3 DEF KeepsRevoked
  <2> QED BY <2>1, <2>4 DEF SameFiles
<1> HIDE DEF Good, N
<1>6. L.links[token] = NoRow => Good(Commit(L, <<M, N>>).log) BY <1>1, <1>5, TwoLog
<1>7. \A why : Good(Refuse(L, why).log) BY <1>1, RefuseLog
<1>8. Good(NewShareLink(L, t, token, now).log) BY <1>6, <1>7 DEF NewShareLink, M, N
<1> QED BY <1>8 DEF Good

\* The flags a trip is created with.
DefaultFlags(row) == row.sharePhotos /\ row.shareNotes /\ ~row.shareCoordinates

\* StopSharing revokes and puts the trip's flags back to their defaults.
LEMMA StopSharingTables ==
    ASSUME NEW L, Lawful(L), NEW t \in Trips, NEW now \in Moments
    PROVE  LET R == StopSharing(L, t, now)
           IN  /\ SameFiles(L, R.log) /\ R.log.tripCities = L.tripCities /\ KeepsRevoked(L, R.log)
               /\ R.answer = "ok" => LiveLinks(R.log, t) = {} /\ DefaultFlags(R.log.trips[t])
<1> DEFINE M == RevokeLive(L, t, now)
           N == SetFlags(M, t, TRUE, TRUE, FALSE)
           R == StopSharing(L, t, now)
<1>0. L \in Tables BY DEF Lawful
<1>1. SameFiles(L, L) /\ KeepsRevoked(L, L) BY DEF SameFiles, KeepsRevoked
<1>2. /\ M \in Tables /\ SameFiles(L, M) /\ M.tripCities = L.tripCities /\ M.trips = L.trips
      /\ M.links \in [Tokens -> LinkRow \cup {NoRow}]
      /\ \A k \in Tokens : k \notin LiveLinks(L, t) => M.links[k] = L.links[k]
      /\ LiveLinks(M, t) = {}
  BY LiveRevoked
<1>3. M \in Tables BY <1>2
<1>4. M.tripCities = L.tripCities /\ M.visits = L.visits /\ M.photos = L.photos
  BY <1>2 DEF SameFiles
<1>5. M.trips = L.trips BY <1>2
<1> HIDE DEF M
<1>6. CASE L.trips[t] = NoRow
  <2>1. R = Refuse(L, "notFound") BY <1>6 DEF StopSharing
  <2> HIDE DEF R
  <2>2. R.log = L /\ R.answer = "notFound" BY <2>1, RefuseLog
  <2>3. /\ SameFiles(L, R.log) /\ R.log.tripCities = L.tripCities /\ KeepsRevoked(L, R.log)
        /\ R.answer # "ok"
    BY <1>1, <2>2
  <2> QED BY <2>3 DEF R
<1>7. CASE L.trips[t] # NoRow
  <2> DEFINE row == [M.trips[t] EXCEPT !.sharePhotos = TRUE, !.shareNotes = TRUE, !.shareCoordinates = FALSE]
  <2>1. N = [M EXCEPT !.trips = [M.trips EXCEPT ![t] = row]] BY DEF SetFlags
  <2>2. DefaultFlags(row)
    <3>1. M.trips[t] \in TripRow BY <1>3, <1>5, <1>7, TableFields
    <3>2. \A x : /\ [M.trips[t] EXCEPT !.sharePhotos = x, !.shareNotes = TRUE, !.shareCoordinates = FALSE].sharePhotos = x
                 /\ [M.trips[t] EXCEPT !.sharePhotos = TRUE, !.shareNotes = x, !.shareCoordinates = FALSE].shareNotes = x
                 /\ [M.trips[t] EXCEPT !.sharePhotos = TRUE, !.shareNotes = TRUE, !.shareCoordinates = x].shareCoordinates = x
      BY <3>1 DEF TripRow
    <3>3. row.sharePhotos = TRUE /\ row.shareNotes = TRUE /\ row.shareCoordinates = FALSE BY <3>2, Zenon
    <3> QED BY <3>3, Zenon DEF DefaultFlags
  <2> HIDE DEF row, N
  <2>3. /\ N.tripCities = L.tripCities /\ N.visits = L.visits /\ N.photos = L.photos /\ N.links = M.links
        /\ N.trips = [M.trips EXCEPT ![t] = row]
    BY <1>3, <1>4, <2>1 DEF Tables
  <2>4. DefaultFlags(N.trips[t]) BY <1>3, <2>2, <2>3, TableFields
  <2>5. LiveLinks(N, t) = {} BY <1>2, <2>3 DEF LiveLinks
  <2>6. KeepsRevoked(L, N)
    <3>1. \A k \in Tokens : L.links[k] # NoRow /\ L.links[k].revoked # None => k \notin LiveLinks(L, t) BY DEF LiveLinks
    <3> QED BY <1>2, <2>3, <3>1 DEF KeepsRevoked
  <2>7. R = Commit(L, <<M, N>>) BY <1>7 DEF StopSharing, M, N
  <2>8. SameFiles(L, N) BY <2>3 DEF SameFiles
  <2> HIDE DEF R
  <2>9. CASE R = [log |-> L, answer |-> "constraint"]
    <3>1. /\ SameFiles(L, R.log) /\ R.log.tripCities = L.tripCities /\ KeepsRevoked(L, R.log)
          /\ R.answer # "ok"
      BY <1>1, <2>9
    <3> QED BY <3>1 DEF R
  <2>10. CASE R = [log |-> N, answer |-> "ok"]
    <3>1. R.log = N BY <2>10
    <3> QED BY <2>3, <2>4, <2>5, <2>6, <2>8, <3>1 DEF R
  <2> QED BY <2>7, <2>9, <2>10, TwoStatements
<1> QED BY <1>6, <1>7

-----------------------------------------------------------------------------
(***************************************************************************)
(* Statements that write occasions.                                        *)
(***************************************************************************)

\* The occasions of a log; a log holds finitely many.
Held(L) == {v \in Visits : L.visits[v] # NoRow}

\* A place's occasions are occasions of the log.
LEMMA FiniteOccasions ==
    ASSUME NEW L \in Tables, IsFiniteSet(Held(L)), NEW p
    PROVE  /\ IsFiniteSet(OccasionsAt(L, p)) /\ Cardinality(OccasionsAt(L, p)) \in Nat
           /\ IsFiniteSet({L.visits[v].ordinal : v \in OccasionsAt(L, p)})
           /\ {L.visits[v].ordinal : v \in OccasionsAt(L, p)} \in SUBSET Nat
<1> DEFINE S == OccasionsAt(L, p)
           f == [v \in S |-> L.visits[v].ordinal]
<1>1. S \in SUBSET Held(L) BY DEF OccasionsAt, Held
<1>2. IsFiniteSet(S) BY <1>1, FS_Subset
<1>3. Cardinality(S) \in Nat BY <1>2, FS_CardinalityType
<1>4. \A v \in S : L.visits[v].ordinal \in Nat BY RowTypes DEF OccasionsAt
<1> HIDE DEF S
<1>5. {f[v] : v \in S} = {L.visits[v].ordinal : v \in S} OBVIOUS
<1> HIDE DEF f
<1>6. IsFiniteSet({f[v] : v \in S}) BY <1>2, FiniteValues
<1> QED BY <1>2, <1>3, <1>4, <1>5, <1>6 DEF S

\* The other tables are as they were.
OnlyVisits(L, M) ==
    /\ M.trips = L.trips /\ M.tripCities = L.tripCities /\ M.cities = L.cities /\ M.places = L.places
    /\ M.photos = L.photos /\ M.walks = L.walks /\ M.links = L.links /\ M.media = L.media

\* An occasion's row but for its ordinal.
ButForOrdinal(row, old) ==
    /\ row \in VisitRow /\ row.place = old.place /\ row.trip = old.trip
    /\ row.at = old.at /\ row.note = old.note

\* Renumbering a row writes its ordinal only.
LEMMA RowRenumbered ==
    ASSUME NEW old \in VisitRow, NEW n \in Nat
    PROVE  ButForOrdinal(Renumber(old, n), old) /\ Renumber(old, n).ordinal = n
BY DEF Renumber, ButForOrdinal, VisitRow

\* A log whose visits table was written.
LEMMA VisitsTable ==
    ASSUME NEW L \in Tables, NEW f
    PROVE  LET M == [L EXCEPT !.visits = f] IN OnlyVisits(L, M) /\ M.visits = f
BY DEF OnlyVisits, Tables

\* Ordinals of a place's occasions may be rewritten, if no two become equal and
\* none becomes one that another of its occasions held.
LEMMA OrdinalsWritten ==
    ASSUME NEW L, Lawful(L), NEW p, NEW f \in [Visits -> VisitRow \cup {NoRow}],
           \A v \in Visits : v \notin OccasionsAt(L, p) => f[v] = L.visits[v],
           \A v \in OccasionsAt(L, p) : ButForOrdinal(f[v], L.visits[v]),
           \A u, v \in OccasionsAt(L, p) : f[u].ordinal = f[v].ordinal => u = v,
           \A u, v \in OccasionsAt(L, p) : u # v => L.visits[u].ordinal # f[v].ordinal
    PROVE  LET M == [L EXCEPT !.visits = f] IN Lawful(M) /\ RowByRow(L, M)
<1> DEFINE M == [L EXCEPT !.visits = f]
<1>0. L \in Tables /\ References(L) /\ Uniques(L) /\ Checks(L) BY DEF Lawful
<1>1. \A v \in OccasionsAt(L, p) : f[v] # NoRow /\ f[v].place = p
  BY MarkersAreNoRows DEF ButForOrdinal, OccasionsAt
<1>2. ASSUME NEW v \in Visits, f[v] # NoRow
      PROVE  /\ L.visits[v] # NoRow /\ f[v].place = L.visits[v].place /\ f[v].trip = L.visits[v].trip
             /\ f[v].note = L.visits[v].note
  <2>1. CASE v \in OccasionsAt(L, p) BY <2>1 DEF ButForOrdinal, OccasionsAt
  <2>2. CASE v \notin OccasionsAt(L, p)
    <3>1. f[v] = L.visits[v] BY <2>2
    <3> QED BY <1>2, <3>1
  <2> QED BY <2>1, <2>2
<1>3. \A v \in Visits : L.visits[v] # NoRow => f[v] # NoRow BY <1>1
<1>4. \A v \in Visits : f[v] \notin {NoRow, L.visits[v]} =>
         L.places[f[v].place] # NoRow /\ L.trips[f[v].trip] # NoRow /\ f[v].note # ""
  <2> SUFFICES ASSUME NEW v \in Visits, f[v] # NoRow
               PROVE  L.places[f[v].place] # NoRow /\ L.trips[f[v].trip] # NoRow /\ f[v].note # ""
    OBVIOUS
  <2>1. /\ L.visits[v] # NoRow /\ f[v].place = L.visits[v].place /\ f[v].trip = L.visits[v].trip
        /\ f[v].note = L.visits[v].note
    BY <1>2
  <2>2. L.places[L.visits[v].place] # NoRow /\ L.trips[L.visits[v].trip] # NoRow
    BY <1>0, <2>1 DEF References
  <2>3. L.visits[v].note # "" BY <1>0, <2>1 DEF Checks
  <2> QED BY <2>1, <2>2, <2>3
<1>5. ASSUME NEW u \in Visits, NEW v \in Visits, f[u] # NoRow, f[v] # NoRow, f[u].place = f[v].place,
             f[u].ordinal = f[v].ordinal
      PROVE  u = v
  <2>1. CASE f[u].place = p
    <3>1. u \in OccasionsAt(L, p) /\ v \in OccasionsAt(L, p) BY <1>2, <1>5, <2>1 DEF OccasionsAt
    <3> QED BY <1>5, <3>1
  <2>2. CASE f[u].place # p
    <3>1. u \notin OccasionsAt(L, p) /\ v \notin OccasionsAt(L, p) BY <1>1, <1>5, <2>2
    <3>2. f[u] = L.visits[u] /\ f[v] = L.visits[v] BY <3>1
    <3>3. f[u].place \in Places BY <1>0, <1>5, <3>2, RowTypes
    <3>4. u \in OccasionsAt(L, f[u].place) /\ v \in OccasionsAt(L, f[u].place)
      BY <1>5, <3>2 DEF OccasionsAt
    <3> QED BY <1>0, <1>5, <3>2, <3>3, <3>4 DEF Uniques
  <2> QED BY <2>1, <2>2
<1>6. Lawful(M) BY <1>3, <1>4, <1>5, VisitsWritten
<1>7. M.visits = f BY <1>0, VisitsTable
<1> HIDE DEF M
<1>8. RowByRow(L, M)
  <2> SUFFICES ASSUME NEW v \in Visits, f[v] # NoRow, f[v] # L.visits[v],
                      NEW u \in OccasionsAt(L, f[v].place) \ {v}
               PROVE  L.visits[u].ordinal # f[v].ordinal
    BY <1>7 DEF RowByRow
  <2>1. v \in OccasionsAt(L, p) OBVIOUS
  <2>2. f[v].place = p BY <1>1, <2>1
  <2> QED BY <2>1, <2>2
<1> QED BY <1>6, <1>8 DEF M

\* Parking a place's ordinals above n and above what they were is safe row by row.
LEMMA Parked ==
    ASSUME NEW L, Lawful(L), IsFiniteSet(Held(L)), NEW p, NEW n \in Nat
    PROVE  LET M == ParkVisits(L, p, n)
           IN  /\ Lawful(M) /\ RowByRow(L, M) /\ OnlyVisits(L, M)
               /\ \A v \in Visits : v \notin OccasionsAt(L, p) => M.visits[v] = L.visits[v]
               /\ \A v \in OccasionsAt(L, p) : ButForOrdinal(M.visits[v], L.visits[v]) /\ M.visits[v].ordinal >= n
<1> DEFINE S == OccasionsAt(L, p)
           next == NextOrdinal({L.visits[v].ordinal : v \in S})
           offset == Max({n, next})
           f == [v \in Visits |-> IF v \in S THEN Renumber(L.visits[v], L.visits[v].ordinal + offset)
                                  ELSE L.visits[v]]
           M == ParkVisits(L, p, n)
<1>0. L \in Tables /\ Uniques(L) BY DEF Lawful
<1>1. next \in Nat /\ \A v \in S : L.visits[v].ordinal < next BY <1>0, FiniteOccasions, NextIsAbove
<1>2. offset \in Nat /\ offset >= n /\ offset >= next
  <2> HIDE DEF next
  <2>1. IsFiniteSet({n, next})
    <3>1. IsFiniteSet({n} \cup {next}) BY FS_Singleton, FS_AddElement
    <3>2. {n, next} = {n} \cup {next} OBVIOUS
    <3> QED BY <3>1, <3>2
  <2>2. Max({n, next}) \in {n, next} /\ \A x \in {n, next} : x <= Max({n, next})
    BY <1>1, <2>1, MaxExists
  <2> QED BY <1>1, <2>2
<1>3. M = [L EXCEPT !.visits = f] BY DEF ParkVisits
<1>4. \A v \in Visits : v \notin S => f[v] = L.visits[v] OBVIOUS
<1>5. \A v \in S : v \in Visits /\ f[v] = Renumber(L.visits[v], L.visits[v].ordinal + offset) BY DEF OccasionsAt
<1>6. \A v \in S : L.visits[v] \in VisitRow /\ L.visits[v].ordinal \in Nat /\ L.visits[v].place = p
  BY <1>0, RowTypes DEF OccasionsAt
<1>7. f = [v \in Visits |-> f[v]] OBVIOUS
<1> HIDE DEF offset, next, f, M, S
<1>8. \A v \in S : ButForOrdinal(f[v], L.visits[v]) /\ f[v].ordinal = L.visits[v].ordinal + offset
  BY <1>2, <1>5, <1>6, RowRenumbered
<1>9. f \in [Visits -> VisitRow \cup {NoRow}]
  <2>1. \A v \in Visits : L.visits[v] \in VisitRow \cup {NoRow} BY <1>0, TableFields
  <2>2. \A v \in Visits : f[v] \in VisitRow \cup {NoRow} BY <1>4, <1>8, <2>1 DEF ButForOrdinal
  <2> QED BY <1>7, <2>2
<1>10. ASSUME NEW u \in S, NEW v \in S PROVE L.visits[u].ordinal = L.visits[v].ordinal => u = v
  <2>1. p \in Places BY <1>0, RowTypes DEF S, OccasionsAt
  <2> QED BY <1>0, <2>1 DEF Uniques, S
<1>11. \A u, v \in S : f[u].ordinal = f[v].ordinal => u = v BY <1>2, <1>6, <1>8, <1>10
<1>12. \A u, v \in S : L.visits[u].ordinal # f[v].ordinal BY <1>1, <1>2, <1>6, <1>8
<1>13. Lawful(M) /\ RowByRow(L, M)
  BY <1>3, <1>4, <1>8, <1>9, <1>11, <1>12, OrdinalsWritten DEF S
<1>14. OnlyVisits(L, M) /\ M.visits = f BY <1>0, <1>3, VisitsTable
<1>15. \A v \in S : f[v].ordinal >= n BY <1>2, <1>6, <1>8
<1> QED BY <1>4, <1>8, <1>13, <1>14, <1>15 DEF S, M

\* Counting who comes before whom numbers a place's occasions 0..n-1, newest
\* first.
Rank(L, p, v) == Cardinality({u \in OccasionsAt(L, p) : Precedes(L, u, v)})

\* The ranks are that numbering.
LEMMA Ranks ==
    ASSUME NEW L \in Tables, NEW p, IsFiniteSet(OccasionsAt(L, p))
    PROVE  LET S == OccasionsAt(L, p)
           IN  /\ \A v \in S : Rank(L, p, v) \in Nat /\ Rank(L, p, v) < Cardinality(S)
               /\ \A u, v \in S : Precedes(L, u, v) => Rank(L, p, u) < Rank(L, p, v)
               /\ \A u, v \in S : Rank(L, p, u) = Rank(L, p, v) => u = v
               /\ {Rank(L, p, v) : v \in S} = 0 .. Cardinality(S) - 1
<1> DEFINE S == OccasionsAt(L, p)
           Before(v) == {u \in S : Precedes(L, u, v)}
<1>0. \A v \in S : v \in Nat /\ L.visits[v].at \in Nat BY RowTypes, VisitIdsOrdered DEF OccasionsAt
<1>1. \A v \in S : ~Precedes(L, v, v) BY <1>0 DEF Precedes
<1>2. \A u, v \in S : u = v \/ Precedes(L, u, v) \/ Precedes(L, v, u) BY <1>0 DEF Precedes
<1>3. \A u, v, x \in S : Precedes(L, u, v) /\ Precedes(L, v, x) => Precedes(L, u, x)
  BY <1>0 DEF Precedes
<1>4. \A v : Rank(L, p, v) = Cardinality(Before(v)) BY DEF Rank
<1>5. \A v : Before(v) \in SUBSET S OBVIOUS
<1>6. Cardinality(S) \in Nat BY FS_CardinalityType
<1>7. \A v : IsFiniteSet(Before(v)) /\ Cardinality(Before(v)) \in Nat BY <1>5, FS_Subset, FS_CardinalityType
<1> HIDE DEF S
<1>8. ASSUME NEW v \in S PROVE Cardinality(Before(v)) < Cardinality(S)
  <2>1. v \notin Before(v) BY <1>1
  <2>2. Before(v) # S BY <2>1
  <2>3. Cardinality(Before(v)) <= Cardinality(S) /\ Cardinality(S) # Cardinality(Before(v))
    BY <1>5, <2>2, FS_Subset DEF S
  <2> QED BY <1>6, <1>7, <2>3
<1>9. ASSUME NEW u \in S, NEW v \in S, Precedes(L, u, v)
      PROVE  Cardinality(Before(u)) < Cardinality(Before(v))
  <2>1. Before(u) \in SUBSET Before(v) BY <1>3, <1>9
  <2>2. u \in Before(v) /\ u \notin Before(u) BY <1>1, <1>9
  <2>3. Before(u) # Before(v) BY <2>2
  <2> HIDE DEF Before
  <2>4. Cardinality(Before(u)) <= Cardinality(Before(v)) /\ Cardinality(Before(v)) # Cardinality(Before(u))
    BY <1>7, <2>1, <2>3, FS_Subset
  <2> QED BY <1>7, <2>4
<1> HIDE DEF Before
<1>10. \A v \in S : Rank(L, p, v) \in Nat /\ Rank(L, p, v) < Cardinality(S) BY <1>4, <1>7, <1>8
<1>11. \A u, v \in S : Precedes(L, u, v) => Rank(L, p, u) < Rank(L, p, v) BY <1>4, <1>9
<1>12. \A u, v \in S : Rank(L, p, u) = Rank(L, p, v) => u = v
  <2> SUFFICES ASSUME NEW u \in S, NEW v \in S, u # v PROVE Rank(L, p, u) # Rank(L, p, v) OBVIOUS
  <2>1. Rank(L, p, u) < Rank(L, p, v) \/ Rank(L, p, v) < Rank(L, p, u) BY <1>2, <1>11
  <2> QED BY <1>10, <2>1
<1>13. {Rank(L, p, v) : v \in S} = 0 .. Cardinality(S) - 1
  <2> DEFINE T == 0 .. Cardinality(S) - 1
             f == [v \in S |-> Rank(L, p, v)]
  <2>1. f \in Injection(S, T)
    <3>1. f \in [S -> T] BY <1>6, <1>10
    <3>2. \A u, v \in DOMAIN f : f[u] = f[v] => u = v BY <1>12
    <3> HIDE DEF f
    <3> QED BY <3>1, <3>2 DEF Injection, IsInjective
  <2>2. IsFiniteSet(T) /\ Cardinality(T) = Cardinality(S)
    BY <1>6, FS_Interval
  <2>3. f \in Surjection(S, T)
    <3> HIDE DEF f, T
    <3> QED BY <2>1, <2>2, FS_Injection
  <2>4. \A n \in T : \E v \in S : Rank(L, p, v) = n
    <3>1. \A n \in T : \E v \in S : f[v] = n
      <4> HIDE DEF f, T
      <4> QED BY <2>3 DEF Surjection
    <3> QED BY <3>1
  <2>5. \A v \in S : Rank(L, p, v) \in T BY <1>6, <1>10
  <2> QED BY <2>4, <2>5
<1> QED BY <1>10, <1>11, <1>12, <1>13 DEF S

\* Renumbering a place by time, once its ordinals are parked above its size, is
\* safe row by row, and gives each occasion its rank.
LEMMA Renumbered ==
    ASSUME NEW L, Lawful(L), IsFiniteSet(Held(L)), NEW p,
           \A v \in OccasionsAt(L, p) : L.visits[v].ordinal >= Cardinality(OccasionsAt(L, p))
    PROVE  LET M == RenumberByTime(L, p)
           IN  /\ Lawful(M) /\ RowByRow(L, M) /\ OnlyVisits(L, M)
               /\ \A v \in Visits : v \notin OccasionsAt(L, p) => M.visits[v] = L.visits[v]
               /\ \A v \in OccasionsAt(L, p) :
                     ButForOrdinal(M.visits[v], L.visits[v]) /\ M.visits[v].ordinal = Rank(L, p, v)
<1> DEFINE S == OccasionsAt(L, p)
           f == [v \in Visits |-> IF v \in S THEN Renumber(L.visits[v], Rank(L, p, v)) ELSE L.visits[v]]
           M == RenumberByTime(L, p)
<1>0. L \in Tables BY DEF Lawful
<1>1. /\ \A v \in S : Rank(L, p, v) \in Nat /\ Rank(L, p, v) < Cardinality(S)
      /\ \A u, v \in S : Rank(L, p, u) = Rank(L, p, v) => u = v
  BY <1>0, FiniteOccasions, Ranks
<1>2. Cardinality(S) \in Nat BY <1>0, FiniteOccasions
<1>3. M = [L EXCEPT !.visits = f] BY DEF RenumberByTime, Rank
<1>4. \A v \in Visits : v \notin S => f[v] = L.visits[v] OBVIOUS
<1>5. \A v \in S : v \in Visits /\ f[v] = Renumber(L.visits[v], Rank(L, p, v)) BY DEF OccasionsAt
<1>6. \A v \in S : L.visits[v] \in VisitRow /\ L.visits[v].ordinal \in Nat BY <1>0, RowTypes DEF OccasionsAt
<1>7. f = [v \in Visits |-> f[v]] OBVIOUS
<1>8. \A v \in S : L.visits[v].ordinal >= Cardinality(S) OBVIOUS
<1> HIDE DEF f, M, S
<1>9. \A v \in S : ButForOrdinal(f[v], L.visits[v]) /\ f[v].ordinal = Rank(L, p, v)
  BY <1>1, <1>5, <1>6, RowRenumbered
<1>10. f \in [Visits -> VisitRow \cup {NoRow}]
  <2>1. \A v \in Visits : L.visits[v] \in VisitRow \cup {NoRow} BY <1>0, TableFields
  <2>2. \A v \in Visits : f[v] \in VisitRow \cup {NoRow} BY <1>4, <1>9, <2>1 DEF ButForOrdinal
  <2> QED BY <1>7, <2>2
<1>11. \A u, v \in S : f[u].ordinal = f[v].ordinal => u = v BY <1>1, <1>9
<1>12. \A u, v \in S : L.visits[u].ordinal # f[v].ordinal BY <1>1, <1>2, <1>6, <1>8, <1>9
<1>13. Lawful(M) /\ RowByRow(L, M)
  BY <1>3, <1>4, <1>9, <1>10, <1>11, <1>12, OrdinalsWritten DEF S
<1>14. OnlyVisits(L, M) /\ M.visits = f BY <1>0, <1>3, VisitsTable
<1> QED BY <1>4, <1>9, <1>13, <1>14 DEF S, M

\* Opening an occasion, at the end of its place's list, is safe.
LEMMA Inserted ==
    ASSUME NEW L, Lawful(L), IsFiniteSet(Held(L)), NEW x \in Visits, L.visits[x] = NoRow,
           NEW p \in Places, L.places[p] # NoRow, NEW t \in Trips, L.trips[t] # NoRow, NEW at \in Times
    PROVE  LET M == InsertVisit(L, x, p, t, at)
           IN  /\ Lawful(M) /\ RowByRow(L, M) /\ OnlyVisits(L, M)
               /\ \A v \in Visits : v # x => M.visits[v] = L.visits[v]
               /\ M.visits[x] \in VisitRow /\ M.visits[x].place = p /\ M.visits[x].trip = t
<1> DEFINE next == NextOrdinal({L.visits[u].ordinal : u \in OccasionsAt(L, p)})
           row == [place |-> p, trip |-> t, at |-> at, note |-> None, ordinal |-> next]
           f == [L.visits EXCEPT ![x] = row]
           M == InsertVisit(L, x, p, t, at)
<1>0. L \in Tables /\ Uniques(L) BY DEF Lawful
<1>1. next \in Nat /\ \A v \in OccasionsAt(L, p) : L.visits[v].ordinal < next
  BY <1>0, FiniteOccasions, NextIsAbove
<1>2. M = [L EXCEPT !.visits = f] BY DEF InsertVisit
<1> HIDE DEF next
<1>3. /\ row \in VisitRow /\ row.place = p /\ row.trip = t /\ row.note = None /\ row.ordinal = next
  BY <1>1 DEF VisitRow, Opt
<1>4. \A v \in Visits : f[v] = IF v = x THEN row ELSE L.visits[v] BY <1>0, TableFields
<1>5. f \in [Visits -> VisitRow \cup {NoRow}] BY <1>0, <1>3, TableFields
<1> HIDE DEF row, f, M
<1>6. \A v \in OccasionsAt(L, p) : L.visits[v].ordinal \in Nat /\ v # x BY <1>0, RowTypes DEF OccasionsAt
<1>7. ASSUME NEW u \in Visits, NEW v \in Visits, f[u] # NoRow, f[v] # NoRow, f[u].place = f[v].place,
             f[u].ordinal = f[v].ordinal
      PROVE  u = v
  <2>1. CASE u # x /\ v # x
    <3>1. f[u] = L.visits[u] /\ f[v] = L.visits[v] BY <1>4, <2>1
    <3>2. f[u].place \in Places BY <1>0, <1>7, <3>1, RowTypes
    <3>3. u \in OccasionsAt(L, f[u].place) /\ v \in OccasionsAt(L, f[u].place)
      BY <1>7, <3>1 DEF OccasionsAt
    <3> QED BY <1>0, <1>7, <3>1, <3>2, <3>3 DEF Uniques
  <2>2. CASE u = x /\ v # x
    <3>1. v \in OccasionsAt(L, p) /\ f[v] = L.visits[v] /\ f[u] = row
      BY <1>3, <1>4, <1>7, <2>2 DEF OccasionsAt
    <3>2. L.visits[v].ordinal < next /\ L.visits[v].ordinal = next BY <1>1, <1>3, <1>7, <3>1
    <3> QED BY <1>1, <3>2
  <2>3. CASE u # x /\ v = x
    <3>1. u \in OccasionsAt(L, p) /\ f[u] = L.visits[u] /\ f[v] = row
      BY <1>3, <1>4, <1>7, <2>3 DEF OccasionsAt
    <3>2. L.visits[u].ordinal < next /\ L.visits[u].ordinal = next BY <1>1, <1>3, <1>7, <3>1
    <3> QED BY <1>1, <3>2
  <2> QED BY <2>1, <2>2, <2>3
<1>8. row # NoRow BY <1>3, MarkersAreNoRows
<1>9. \A v \in Visits : L.visits[v] # NoRow => f[v] # NoRow BY <1>4, <1>8
<1>10. \A v \in Visits : f[v] \notin {NoRow, L.visits[v]} =>
          L.places[f[v].place] # NoRow /\ L.trips[f[v].trip] # NoRow /\ f[v].note # ""
  BY <1>3, <1>4, MarkersAreNoRows
<1>11. Lawful(M) BY <1>2, <1>5, <1>7, <1>9, <1>10, VisitsWritten
<1>12. OnlyVisits(L, M) /\ M.visits = f BY <1>0, <1>2, VisitsTable
<1>13. RowByRow(L, M)
  <2> SUFFICES ASSUME NEW v \in Visits, f[v] # L.visits[v], NEW u \in OccasionsAt(L, f[v].place)
               PROVE  L.visits[u].ordinal # f[v].ordinal
    BY <1>12 DEF RowByRow
  <2>1. v = x /\ f[v] = row BY <1>4
  <2> QED BY <1>1, <1>3, <1>6, <2>1
<1> QED BY <1>3, <1>4, <1>11, <1>12, <1>13 DEF M

\* The ordinal of a row of an array is below the array's length.
LEMMA ArrayOrdinal ==
    ASSUME NEW m \in Nat, NEW i \in 1 .. m
    PROVE  i - 1 \in Nat /\ i = (i - 1) + 1 /\ \A n \in Nat : n >= m => n # i - 1
OBVIOUS

\* Writing an array of occasions to a place whose stored ordinals are all above
\* the array's is safe.
LEMMA Upserted ==
    ASSUME NEW L, Lawful(L), NEW p \in Places, L.places[p] # NoRow,
           NEW m \in Nat, NEW visits \in [1 .. m -> VisitWrites],
           TripsPresent(L, visits), ~HeldElsewhere(L, p, visits),
           \A i \in 1 .. m : visits[i].note # "",
           \A v \in OccasionsAt(L, p) : L.visits[v].ordinal >= m
    PROVE  LET M == UpsertVisits(L, p, visits)
           IN  /\ Lawful(M) /\ RowByRow(L, M) /\ OnlyVisits(L, M)
               /\ \A v \in Visits \ VisitIds(visits) : M.visits[v] = L.visits[v]
               /\ \A v \in VisitIds(visits) : M.visits[v] \in VisitRow /\ M.visits[v].place = p
<1> DEFINE ids == VisitIds(visits)
           Sent(v) == CHOOSE i \in DOMAIN visits : visits[i].id = v
           Row(v) == [place |-> p, trip |-> visits[Sent(v)].trip, ordinal |-> Sent(v) - 1,
                      at |-> visits[Sent(v)].at, note |-> visits[Sent(v)].note]
           f == [v \in Visits |-> IF v \notin ids THEN L.visits[v] ELSE Row(v)]
           M == UpsertVisits(L, p, visits)
<1>0. L \in Tables /\ Uniques(L) BY DEF Lawful
<1>1. M = [L EXCEPT !.visits = f] BY DEF UpsertVisits
<1>2. \A v \in ids : Sent(v) \in 1 .. m /\ visits[Sent(v)].id = v BY DEF VisitIds
<1>3. \A v \in ids : v \in Visits BY DEF VisitIds, VisitWrites
<1> HIDE DEF Sent
<1>4. ASSUME NEW v \in ids
      PROVE  /\ Row(v) \in VisitRow /\ Row(v).place = p /\ Row(v).trip = visits[Sent(v)].trip
             /\ Row(v).ordinal = Sent(v) - 1 /\ Row(v).note = visits[Sent(v)].note
  <2>1. Sent(v) \in 1 .. m /\ visits[Sent(v)] \in VisitWrites BY <1>2
  <2>2. /\ visits[Sent(v)].trip \in Trips /\ visits[Sent(v)].at \in Times
        /\ visits[Sent(v)].note \in Opt(Texts)
    BY <2>1 DEF VisitWrites
  <2>3. Sent(v) - 1 \in Nat BY <2>1, ArrayOrdinal, Zenon
  <2> QED BY <2>2, <2>3 DEF VisitRow
<1>5. \A v \in Visits : f[v] = IF v \in ids THEN Row(v) ELSE L.visits[v] OBVIOUS
<1>6. f = [v \in Visits |-> f[v]] OBVIOUS
<1> HIDE DEF Row, f, M, ids
<1>7. f \in [Visits -> VisitRow \cup {NoRow}]
  <2>1. \A v \in Visits : f[v] \in VisitRow \cup {NoRow} BY <1>0, <1>4, <1>5, TableFields
  <2> QED BY <1>6, <2>1
<1>8. \A v \in ids : Row(v) # NoRow BY <1>4, MarkersAreNoRows
<1>9. ASSUME NEW v \in Visits, f[v] \notin {NoRow, L.visits[v]}
      PROVE  L.places[f[v].place] # NoRow /\ L.trips[f[v].trip] # NoRow /\ f[v].note # ""
  <2>1. v \in ids /\ f[v] = Row(v) BY <1>5, <1>9
  <2>2. L.trips[visits[Sent(v)].trip] # NoRow BY <1>2, <2>1 DEF TripsPresent
  <2>3. visits[Sent(v)].note # "" BY <1>2, <2>1
  <2> QED BY <1>4, <2>1, <2>2, <2>3
<1>10. ASSUME NEW u \in OccasionsAt(L, p), NEW v \in ids PROVE L.visits[u].ordinal # Row(v).ordinal
  <2>1. L.visits[u].ordinal \in Nat /\ L.visits[u].ordinal >= m BY <1>0, RowTypes DEF OccasionsAt
  <2>2. Row(v).ordinal = Sent(v) - 1 BY <1>4
  <2>3. \A n \in Nat : n >= m => n # Sent(v) - 1 BY <1>2, ArrayOrdinal, Zenon
  <2> QED BY <2>1, <2>2, <2>3, Zenon
<1>11. ASSUME NEW u \in Visits, NEW v \in Visits, f[u] # NoRow, f[v] # NoRow, f[u].place = f[v].place,
              f[u].ordinal = f[v].ordinal
       PROVE  u = v
  <2>1. CASE u \notin ids /\ v \notin ids
    <3>1. f[u] = L.visits[u] /\ f[v] = L.visits[v] BY <1>5, <2>1
    <3>2. f[u].place \in Places BY <1>0, <1>11, <3>1, RowTypes
    <3>3. u \in OccasionsAt(L, f[u].place) /\ v \in OccasionsAt(L, f[u].place)
      BY <1>11, <3>1 DEF OccasionsAt
    <3> QED BY <1>0, <1>11, <3>1, <3>2, <3>3 DEF Uniques
  <2>2. CASE u \in ids /\ v \notin ids
    <3>1. f[u] = Row(u) /\ f[v] = L.visits[v] BY <1>5, <2>2
    <3>2. v \in OccasionsAt(L, p) BY <1>4, <1>11, <2>2, <3>1 DEF OccasionsAt
    <3> QED BY <1>10, <1>11, <2>2, <3>1, <3>2
  <2>3. CASE u \notin ids /\ v \in ids
    <3>1. f[v] = Row(v) /\ f[u] = L.visits[u] BY <1>5, <2>3
    <3>2. u \in OccasionsAt(L, p) BY <1>4, <1>11, <2>3, <3>1 DEF OccasionsAt
    <3> QED BY <1>10, <1>11, <2>3, <3>1, <3>2
  <2>4. CASE u \in ids /\ v \in ids
    <3>1. f[v] = Row(v) /\ f[u] = Row(u) BY <1>5, <2>4
    <3>2. Sent(u) - 1 = Sent(v) - 1 BY <1>4, <1>11, <2>4, <3>1
    <3>3. Sent(u) = (Sent(u) - 1) + 1 /\ Sent(v) = (Sent(v) - 1) + 1 BY <1>2, <2>4, ArrayOrdinal, Zenon
    <3>4. Sent(u) = Sent(v) BY <3>2, <3>3, Zenon
    <3> QED BY <1>2, <2>4, <3>4
  <2> QED BY <2>1, <2>2, <2>3, <2>4
<1>12. \A v \in Visits : L.visits[v] # NoRow => f[v] # NoRow BY <1>5, <1>8
<1>13. Lawful(M) BY <1>1, <1>7, <1>9, <1>11, <1>12, VisitsWritten
<1>14. OnlyVisits(L, M) /\ M.visits = f BY <1>0, <1>1, VisitsTable
<1>15. RowByRow(L, M)
  <2> SUFFICES ASSUME NEW v \in Visits, f[v] # L.visits[v], NEW u \in OccasionsAt(L, f[v].place)
               PROVE  L.visits[u].ordinal # f[v].ordinal
    BY <1>14 DEF RowByRow
  <2>1. v \in ids /\ f[v] = Row(v) BY <1>5
  <2> QED BY <1>4, <1>10, <2>1
<1> QED BY <1>3, <1>4, <1>5, <1>13, <1>14, <1>15 DEF M, ids

-----------------------------------------------------------------------------
(***************************************************************************)
(* Transactions that go through.                                           *)
(***************************************************************************)

\* A statement that writes no occasion meets no other's ordinal.
LEMMA QuietRows ==
    ASSUME NEW L, NEW M, \A v \in Visits : M.visits[v] \in {NoRow, L.visits[v]}
    PROVE  RowByRow(L, M)
BY DEF RowByRow

\* A transaction of lawful statements, each safe row by row, commits: of one,
LEMMA OneCommits ==
    ASSUME NEW L, NEW a, Lawful(a), RowByRow(L, a)
    PROVE  Commit(L, <<a>>) = [log |-> a, answer |-> "ok"]
<1> DEFINE s == <<a>>
<1>1. Len(s) = 1 /\ DOMAIN s = {1} /\ s[1] = a OBVIOUS
<1> HIDE DEF s
<1>2. Executes(L, s) BY <1>1 DEF Executes
<1>3. Commit(L, s) = [log |-> a, answer |-> "ok"] BY <1>1, <1>2 DEF Commit
<1> QED BY <1>3 DEF s

\* of two,
LEMMA TwoCommits ==
    ASSUME NEW L, NEW a, NEW b, Lawful(a), Lawful(b), RowByRow(L, a), RowByRow(a, b)
    PROVE  Commit(L, <<a, b>>) = [log |-> b, answer |-> "ok"]
<1> DEFINE s == <<a, b>>
<1>1. Len(s) = 2 /\ DOMAIN s = {1, 2} /\ s[1] = a /\ s[2] = b OBVIOUS
<1> HIDE DEF s
<1>2. Executes(L, s) BY <1>1 DEF Executes
<1>3. Commit(L, s) = [log |-> b, answer |-> "ok"] BY <1>1, <1>2 DEF Commit
<1> QED BY <1>3 DEF s

\* and of four.
LEMMA FourCommits ==
    ASSUME NEW L, NEW a, NEW b, NEW c, NEW d, Lawful(a), Lawful(b), Lawful(c), Lawful(d),
           RowByRow(L, a), RowByRow(a, b), RowByRow(b, c), RowByRow(c, d)
    PROVE  Commit(L, <<a, b, c, d>>) = [log |-> d, answer |-> "ok"]
<1> DEFINE s == <<a, b, c, d>>
<1>1. Len(s) = 4 /\ DOMAIN s = {1, 2, 3, 4} /\ s[1] = a /\ s[2] = b /\ s[3] = c /\ s[4] = d
  OBVIOUS
<1> HIDE DEF s
<1>2. Executes(L, s) BY <1>1 DEF Executes
<1>3. Commit(L, s) = [log |-> d, answer |-> "ok"] BY <1>1, <1>2 DEF Commit
<1> QED BY <1>3 DEF s

\* An array a body carries is a function on an initial segment.
LEMMA ArrayOf ==
    ASSUME NEW S, NEW n \in Nat, NEW s \in BoundedSeq(S, n)
    PROVE  Len(s) \in Nat /\ s \in [1 .. Len(s) -> S] /\ DOMAIN s = 1 .. Len(s)
<1>1. PICK m \in 0 .. n : s \in [1 .. m -> S] BY DEF BoundedSeq, SeqOf
<1>2. m \in Nat BY <1>1
<1>3. s \in Seq(S) BY <1>1, <1>2
<1>4. Len(s) = m BY <1>1, <1>2, <1>3
<1> QED BY <1>1, <1>2, <1>4

\* Writing an array of occasions leaves the occasions it does not name alone.
LEMMA UpsertedRows ==
    ASSUME NEW L \in Tables, NEW p, NEW visits
    PROVE  LET M == UpsertVisits(L, p, visits)
           IN  OnlyVisits(L, M) /\ \A v \in Visits \ VisitIds(visits) : M.visits[v] = L.visits[v]
<1> DEFINE f == UpsertVisits(L, p, visits).visits
           M == UpsertVisits(L, p, visits)
<1>1. \A v \in Visits \ VisitIds(visits) : f[v] = L.visits[v] BY DEF UpsertVisits, Tables
<1>2. OnlyVisits(L, M) BY VisitsTable DEF UpsertVisits
<1> QED BY <1>1, <1>2

\* The log's occasions stay finitely many when a write opens finitely many.
LEMMA HeldGrows ==
    ASSUME NEW L, IsFiniteSet(Held(L)), NEW M, NEW S, IsFiniteSet(S),
           \A v \in Visits \ S : M.visits[v] # NoRow => L.visits[v] # NoRow
    PROVE  IsFiniteSet(Held(M))
<1>1. IsFiniteSet(Held(L) \cup S) BY FS_Union
<1>2. Held(M) \in SUBSET (Held(L) \cup S) BY DEF Held
<1> QED BY <1>1, <1>2, FS_Subset

\* An array names finitely many occasions.
LEMMA FiniteIds ==
    ASSUME NEW m \in Nat, NEW S, NEW visits \in [1 .. m -> S]
    PROVE  IsFiniteSet(VisitIds(visits))
<1> DEFINE f == [i \in 1 .. m |-> visits[i].id]
<1>1. IsFiniteSet(1 .. m) BY FS_Interval
<1>2. VisitIds(visits) = {f[i] : i \in 1 .. m} BY DEF VisitIds
<1> HIDE DEF f
<1> QED BY <1>1, <1>2, FiniteValues

\* PutPlace writes places and visits.  It drops no occasion that has
\* photographs, so it unfiles none.
LEMMA PutPlaceTables ==
    ASSUME NEW L, Lawful(L), IsFiniteSet(Held(L)), NEW p \in Places, NEW w \in PlaceWrites
    PROVE  LET N == PutPlace(L, p, w).log
           IN  SameWays(L, N) /\ SameFilings(L, N) /\ IsFiniteSet(Held(N))
<1> DEFINE old == IF L.places[p] = NoRow THEN [city |-> None, plan |-> None, cover |-> None]
                  ELSE L.places[p]
           row == [city |-> Merge(w.city, old.city), plan |-> Merge(w.plan, old.plan),
                   cover |-> Merge(w.cover, old.cover)]
           upserted == [L EXCEPT !.places = [L.places EXCEPT ![p] = row]]
           parked   == ParkVisits(upserted, p, Len(w.visits))
           replaced == UpsertVisits(parked, p, w.visits)
           final    == DeleteDeparted(replaced, p, w.visits)
           Good(N) == SameWays(L, N) /\ SameFilings(L, N) /\ IsFiniteSet(Held(N))
           R == PutPlace(L, p, w)
<1>0. L \in Tables BY DEF Lawful
<1>1. Good(L) BY DEF SameWays, SameFilings
<1>2. SameWays(L, upserted) /\ SameFiles(L, upserted) BY <1>0, OneTable DEF SameWays, SameFiles
<1>3. Held(upserted) = Held(L) /\ OccasionsAt(upserted, p) = OccasionsAt(L, p)
  BY <1>2 DEF SameFiles, Held, OccasionsAt
<1>4. Good(upserted) BY <1>2, <1>3 DEF SameFiles, SameFilings
<1> HIDE DEF upserted
<1>5. ASSUME Lawful(upserted), Lawful(parked), Lawful(replaced),
             w.visits \notin {Unsent, <<>>}, VisitsWritable(L, p, w.visits)
      PROVE  Good(final)
  <2> DEFINE ids == VisitIds(w.visits)
             n == Len(w.visits)
             gone == OccasionsAt(replaced, p) \ ids
  <2>0. upserted \in Tables /\ parked \in Tables /\ replaced \in Tables BY <1>5 DEF Lawful
  <2>1. w.visits \in BoundedSeq(VisitWrites, MaxVisits) BY <1>5 DEF PlaceWrites, Body
  <2>2. n \in Nat /\ w.visits \in [1 .. n -> VisitWrites] BY <2>1, ArrayOf, BoundsNat
  <2>3. IsFiniteSet(ids) BY <2>2, FiniteIds
  <2>4. /\ OnlyVisits(upserted, parked)
        /\ \A v \in Visits : v \notin OccasionsAt(L, p) => parked.visits[v] = upserted.visits[v]
        /\ \A v \in OccasionsAt(L, p) : ButForOrdinal(parked.visits[v], upserted.visits[v])
    BY <1>3, <1>5, <2>2, Parked
  <2>5. OnlyVisits(parked, replaced) /\ \A v \in Visits \ ids : replaced.visits[v] = parked.visits[v]
    BY <2>0, UpsertedRows
  <2> HIDE DEF parked, replaced, ids, n
  <2>6. \A v \in gone : v \in OccasionsAt(L, p) /\ v \notin ids
    <3> SUFFICES ASSUME NEW v \in Visits, v \notin ids, replaced.visits[v] # NoRow, replaced.visits[v].place = p,
                        v \notin OccasionsAt(L, p)
                 PROVE  FALSE
      BY DEF OccasionsAt
    <3>1. replaced.visits[v] = L.visits[v] BY <1>2, <2>4, <2>5 DEF SameFiles
    <3> QED BY <3>1 DEF OccasionsAt
  <2>7. \A v \in gone : FiledTo(L, v) = {} BY <1>5, <2>6 DEF VisitsWritable, DropsOccupied, ids
  <2>8. SameWays(L, replaced) /\ replaced.photos = L.photos
    BY <1>2, <2>4, <2>5 DEF OnlyVisits, SameWays, SameFiles
  <2>9. final = DeleteVisits(replaced, gone) BY DEF DeleteDeparted, ids
  <2> HIDE DEF final, gone
  <2>10. /\ final.tripCities = replaced.tripCities /\ final.links = replaced.links
         /\ VisitsGone(replaced, final, gone)
    BY <2>0, <2>9, VisitsDeleted
  <2>11. SameFilings(L, final)
    <3> SUFFICES ASSUME NEW h \in Photos, L.photos[h] # NoRow
                 PROVE  final.photos[h].place = L.photos[h].place /\ final.photos[h].visit = L.photos[h].visit
      BY DEF SameFilings
    <3>1. L.photos[h].visit \notin gone BY <2>7 DEF FiledTo
    <3> QED BY <2>8, <2>10, <3>1 DEF VisitsGone
  <2>12. ASSUME NEW v \in Visits \ ids, final.visits[v] # NoRow PROVE L.visits[v] # NoRow
    <3>1. replaced.visits[v] # NoRow /\ replaced.visits[v] = parked.visits[v]
      BY <2>5, <2>10, <2>12 DEF VisitsGone
    <3>2. CASE v \in OccasionsAt(L, p) BY <3>2 DEF OccasionsAt
    <3>3. CASE v \notin OccasionsAt(L, p) BY <1>2, <2>4, <3>1, <3>3 DEF SameFiles
    <3> QED BY <3>2, <3>3
  <2>13. IsFiniteSet(Held(final)) BY <2>3, <2>12, HeldGrows
  <2> QED BY <2>8, <2>10, <2>11, <2>13 DEF SameWays
<1> HIDE DEF Good, parked, replaced, final, R
<1>6. R = Refuse(L, "invalid") => Good(R.log) BY <1>1, RefuseLog
<1>7. R = Commit(L, <<upserted>>) => Good(R.log) BY <1>1, <1>4, OneLog
<1>8. ASSUME w.visits \notin {Unsent, <<>>}, VisitsWritable(L, p, w.visits),
             R = Commit(L, <<upserted, parked, replaced, final>>)
      PROVE  Good(R.log)
  <2>1. \/ R.log = L
        \/ R.log = final /\ Lawful(upserted) /\ Lawful(parked) /\ Lawful(replaced)
    BY <1>8, FourLog
  <2> QED BY <1>1, <1>5, <1>8, <2>1
<1>9. \/ R = Refuse(L, "invalid") \/ R = Commit(L, <<upserted>>)
      \/ /\ w.visits \notin {Unsent, <<>>} /\ VisitsWritable(L, p, w.visits)
         /\ R = Commit(L, <<upserted, parked, replaced, final>>)
  BY DEF PutPlace, R, upserted, parked, replaced, final
<1> QED BY <1>6, <1>7, <1>8, <1>9 DEF Good, R

\* Two photographs with the same columns are the same.
LEMMA SamePhoto ==
    ASSUME NEW x \in PhotoRow, NEW y \in PhotoRow, x.trip = y.trip, x.city = y.city, x.place = y.place,
           x.visit = y.visit, x.asset = y.asset, x.caption = y.caption, x.filedLater = y.filedLater
    PROVE  x = y
BY DEF PhotoRow

\* Deleting a place leaves the photographs filed elsewhere as they were, and
\* those filed there filed nowhere: none is filed to an occasion there only.
LEMMA PlacePhotos ==
    ASSUME NEW L, Lawful(L), PairsCoherent(L), NEW p \in Places, NEW h \in Photos, L.photos[h] # NoRow
    PROVE  LET N == DeletePlaceRow(L, p)
           IN  /\ L.photos[h].place # p => N.photos[h] = L.photos[h]
               /\ L.photos[h].place = p => N.photos[h] = [L.photos[h] EXCEPT !.place = None, !.visit = None]
<1> DEFINE N == DeletePlaceRow(L, p)
           x == L.photos[h]
           y == N.photos[h]
           z == [x EXCEPT !.place = None, !.visit = None]
<1>0. L \in Tables BY DEF Lawful
<1>1. FilingAside(L, N) /\ PlaceGone(L, N, p) BY <1>0, PlaceDeleted
<1>2. x \in PhotoRow /\ x.visit \in Opt(Visits) BY <1>0, RowTypes
<1>3. /\ y \in PhotoRow /\ x.trip = y.trip /\ x.city = y.city /\ x.asset = y.asset
      /\ x.caption = y.caption /\ x.filedLater = y.filedLater
  <2> HIDE DEF N
  <2> QED BY <1>1 DEF FilingAside
<1>4. /\ y.place = IF x.place = p THEN None ELSE x.place
      /\ y.visit = IF x.visit \in OccasionsAt(L, p) THEN None ELSE x.visit
  <2> HIDE DEF N
  <2> QED BY <1>1 DEF PlaceGone
<1>5. x.visit # None => x.visit \in Visits /\ L.visits[x.visit] # NoRow /\ L.visits[x.visit].place = x.place
  BY <1>2 DEF PairsCoherent, Opt
<1>6. /\ z \in PhotoRow /\ z.trip = x.trip /\ z.city = x.city /\ z.asset = x.asset /\ z.place = None
      /\ z.visit = None /\ z.caption = x.caption /\ z.filedLater = x.filedLater
  <2> HIDE DEF x
  <2> QED BY <1>2 DEF PhotoRow, Opt
<1> HIDE DEF N, x, y, z
<1>7. CASE x.place # p
  <2>1. x.visit \notin OccasionsAt(L, p)
    <3>1. CASE x.visit = None
      <4>1. None \in OccasionsAt(L, p) => None \in Nat BY VisitIdsOrdered DEF OccasionsAt
      <4> QED BY <3>1, <4>1, MarkersAreNoRows
    <3>2. CASE x.visit # None BY <1>5, <1>7, <3>2 DEF OccasionsAt
    <3> QED BY <3>1, <3>2
  <2>2. y = x BY <1>2, <1>3, <1>4, <1>7, <2>1, SamePhoto
  <2> QED BY <1>7, <2>2 DEF N, x, y
<1>8. CASE x.place = p
  <2>1. y.visit = None BY <1>4, <1>5, <1>8 DEF OccasionsAt
  <2>2. y = z BY <1>3, <1>4, <1>6, <1>8, <2>1, SamePhoto
  <2> QED BY <1>8, <2>2 DEF N, x, y, z
<1> QED BY <1>7, <1>8

\* D2's promise to the photographs when place p goes with disposition d.
Promised(L, N, p, d) ==
    \A h \in Photos : L.photos[h] # NoRow =>
        IF L.photos[h].place # p THEN N.photos[h] = L.photos[h]
        ELSE IF d # "keep" THEN N.photos[h] = NoRow
        ELSE N.photos[h] = [L.photos[h] EXCEPT !.place = None, !.visit = None]

\* RemovePlace keeps its promise to the photographs, and takes occasions only.
LEMMA RemovePlaceTables ==
    ASSUME NEW L, Coherent(L), IsFiniteSet(Held(L)), NEW p \in Places, NEW d
    PROVE  LET R == RemovePlace(L, p, d)
           IN  /\ R.answer # "constraint" /\ SameWays(L, R.log) /\ IsFiniteSet(Held(R.log))
               /\ R.log = L \/ R.answer = "ok"
               /\ R.answer = "ok" => Promised(L, R.log, p, d)
<1> DEFINE K == DeletePhotos(L, PhotosAt(L, p))
           R == RemovePlace(L, p, d)
<1>0. Lawful(L) /\ PairsCoherent(L) /\ L \in Tables BY DEF Coherent, Lawful
<1>1. Lawful(K) /\ PairsCoherent(K) /\ K \in Tables
  BY <1>0, DeletePhotosLawful, DeletePhotosConsistent DEF Coherent, Consistent, Lawful
<1>2. /\ K.tripCities = L.tripCities /\ K.links = L.links /\ K.visits = L.visits
      /\ \A h \in Photos : K.photos[h] = IF h \in PhotosAt(L, p) THEN NoRow ELSE L.photos[h]
  BY <1>0 DEF DeletePhotos, Tables
<1>3. RowByRow(L, K) BY <1>2, QuietRows
<1> HIDE DEF K
<1>4. ASSUME NEW M, Lawful(M), M.visits = L.visits, M.tripCities = L.tripCities, M.links = L.links
      PROVE  /\ Lawful(DeletePlaceRow(M, p)) /\ RowByRow(M, DeletePlaceRow(M, p))
             /\ SameWays(L, DeletePlaceRow(M, p)) /\ IsFiniteSet(Held(DeletePlaceRow(M, p)))
  <2> DEFINE N == DeletePlaceRow(M, p)
  <2>1. M \in Tables BY <1>4 DEF Lawful
  <2>2. N.tripCities = M.tripCities /\ N.links = M.links /\ PlaceGone(M, N, p) BY <2>1, PlaceDeleted
  <2>3. Lawful(N) BY <1>4, DeletePlaceLawful
  <2> HIDE DEF N
  <2>4. \A v \in Visits : N.visits[v] \in {NoRow, M.visits[v]} BY <2>2 DEF PlaceGone
  <2>5. IsFiniteSet(Held(N)) BY <1>4, <2>4, FS_EmptySet, HeldGrows
  <2> QED BY <1>4, <2>2, <2>3, <2>4, <2>5, QuietRows DEF SameWays, N
<1>5. CASE L.places[p] = NoRow
  <2>1. R = Refuse(L, "miss") BY <1>5 DEF RemovePlace
  <2> HIDE DEF R
  <2>2. R.log = L /\ R.answer = "miss" BY <2>1, RefuseLog
  <2>3. /\ R.answer # "constraint" /\ SameWays(L, R.log) /\ IsFiniteSet(Held(R.log)) /\ R.answer # "ok"
        /\ R.log = L
    BY <2>2 DEF SameWays
  <2> QED BY <2>3 DEF R
<1>6. CASE L.places[p] # NoRow /\ d = "keep"
  <2> DEFINE N == DeletePlaceRow(L, p)
  <2>1. R = Commit(L, <<N>>) BY <1>6 DEF RemovePlace
  <2>2. Lawful(N) /\ RowByRow(L, N) /\ SameWays(L, N) /\ IsFiniteSet(Held(N)) BY <1>0, <1>4
  <2>3. \A h \in Photos : L.photos[h] # NoRow =>
           /\ L.photos[h].place # p => N.photos[h] = L.photos[h]
           /\ L.photos[h].place = p => N.photos[h] = [L.photos[h] EXCEPT !.place = None, !.visit = None]
    BY <1>0, PlacePhotos
  <2> HIDE DEF R, N
  <2>4. R = [log |-> N, answer |-> "ok"] BY <2>1, <2>2, OneCommits
  <2>5. R.log = N /\ R.answer = "ok" BY <2>4
  <2>6. Promised(L, R.log, p, d) BY <1>6, <2>3, <2>5 DEF Promised
  <2>7. R.answer # "constraint" /\ SameWays(L, R.log) /\ IsFiniteSet(Held(R.log)) BY <2>2, <2>5
  <2> QED BY <1>6, <2>5, <2>6, <2>7 DEF R
<1>7. CASE L.places[p] # NoRow /\ d # "keep"
  <2> DEFINE N == DeletePlaceRow(K, p)
  <2>1. R = Commit(L, <<K, N>>) BY <1>7 DEF RemovePlace, K
  <2>2. Lawful(N) /\ RowByRow(K, N) /\ SameWays(L, N) /\ IsFiniteSet(Held(N)) BY <1>1, <1>2, <1>4
  <2>3. \A h \in Photos : K.photos[h] # NoRow /\ K.photos[h].place # p => N.photos[h] = K.photos[h]
    BY <1>1, PlacePhotos
  <2>4. \A h \in Photos : K.photos[h] = NoRow => N.photos[h] = NoRow
    BY <1>1, PlaceDeleted DEF FilingAside
  <2> HIDE DEF R, N
  <2>5. R = [log |-> N, answer |-> "ok"] BY <1>1, <1>3, <2>1, <2>2, TwoCommits
  <2>6. R.log = N /\ R.answer = "ok" BY <2>5
  <2>7. Promised(L, R.log, p, d) BY <1>2, <1>7, <2>3, <2>4, <2>6 DEF PhotosAt, Promised
  <2>8. R.answer # "constraint" /\ SameWays(L, R.log) /\ IsFiniteSet(Held(R.log)) BY <2>2, <2>6
  <2> QED BY <1>7, <2>6, <2>7, <2>8 DEF R
<1> QED BY <1>5, <1>6, <1>7

\* DeleteTrip is never failed by the schema, and takes what TripGone says.
LEMMA DeleteTripTables ==
    ASSUME NEW L, Lawful(L), IsFiniteSet(Held(L)), NEW t \in Trips
    PROVE  LET R == DeleteTrip(L, t)
           IN  /\ R.answer # "constraint" /\ IsFiniteSet(Held(R.log))
               /\ \/ R.log = L /\ R.answer # "ok"
                  \/ /\ TripGone(L, R.log, t)
                     /\ R.log.cities = L.cities /\ R.log.places = L.places /\ R.log.media = L.media
<1> DEFINE N == DeleteTripRow(L, t)
           R == DeleteTrip(L, t)
<1>1. Lawful(N) /\ TripGone(L, N, t) /\ N.cities = L.cities /\ N.places = L.places /\ N.media = L.media
  BY TripDeleted
<1> HIDE DEF N
<1>2. \A v \in Visits : N.visits[v] \in {NoRow, L.visits[v]} BY <1>1 DEF TripGone
<1>3. RowByRow(L, N) BY <1>2, QuietRows
<1>4. IsFiniteSet(Held(N)) BY <1>2, FS_EmptySet, HeldGrows
<1>5. CASE L.trips[t] = NoRow
  <2>1. R = Refuse(L, "miss") BY <1>5 DEF DeleteTrip
  <2> HIDE DEF R
  <2>2. R.log = L /\ R.answer = "miss" BY <2>1, RefuseLog
  <2> QED BY <2>2 DEF R
<1>6. CASE L.trips[t] # NoRow
  <2>1. R = Commit(L, <<N>>) BY <1>6 DEF DeleteTrip, N
  <2> HIDE DEF R
  <2>2. R = [log |-> N, answer |-> "ok"] BY <1>1, <1>3, <2>1, OneCommits
  <2>3. R.log = N /\ R.answer = "ok" BY <2>2
  <2>4. /\ R.answer # "constraint" /\ IsFiniteSet(Held(R.log)) /\ TripGone(L, R.log, t)
        /\ R.log.cities = L.cities /\ R.log.places = L.places /\ R.log.media = L.media
    BY <1>1, <1>4, <2>3
  <2> QED BY <2>4 DEF R
<1> QED BY <1>5, <1>6

\* Filing a photograph writes its row only.
LEMMA PhotoFiled ==
    ASSUME NEW L, Lawful(L), NEW h \in Photos, L.photos[h] # NoRow, NEW p \in Places, L.places[p] # NoRow,
           NEW v \in Visits, L.visits[v] # NoRow
    PROVE  LET M == FilePhoto(L, h, p, v)
           IN  /\ Lawful(M) /\ RowByRow(L, M) /\ SameWays(L, M) /\ M.visits = L.visits
               /\ \A g \in Photos : g # h => M.photos[g] = L.photos[g]
<1> DEFINE row == [L.photos[h] EXCEPT !.place = p, !.visit = v]
           f == [L.photos EXCEPT ![h] = row]
           M == FilePhoto(L, h, p, v)
<1>0. L \in Tables /\ References(L) /\ Checks(L) BY DEF Lawful
<1>1. L.photos[h] \in PhotoRow BY <1>0, TableFields
<1>2. /\ row \in PhotoRow /\ row.place = p /\ row.visit = v /\ row.trip = L.photos[h].trip
      /\ row.city = L.photos[h].city /\ row.asset = L.photos[h].asset /\ row.caption = L.photos[h].caption
  BY <1>1 DEF PhotoRow, Opt
<1>3. M = [L EXCEPT !.photos = f] BY DEF FilePhoto
<1> HIDE DEF row, M
<1>4. \A g \in Photos : f[g] = IF g = h THEN row ELSE L.photos[g] BY <1>0, TableFields
<1>5. f \in [Photos -> PhotoRow \cup {NoRow}] BY <1>0, <1>2, TableFields
<1> HIDE DEF f
<1>6. ASSUME NEW g \in Photos, f[g] \notin {NoRow, L.photos[g]}
      PROVE  /\ L.trips[f[g].trip] # NoRow /\ L.cities[f[g].city] # NoRow
             /\ f[g].place = None \/ L.places[f[g].place] # NoRow
             /\ f[g].visit = None \/ L.visits[f[g].visit] # NoRow
             /\ HasObject(L, f[g].asset) /\ f[g].caption # ""
  <2>1. f[g] = row /\ g = h BY <1>4, <1>6
  <2>2. /\ L.trips[L.photos[h].trip] # NoRow /\ L.cities[L.photos[h].city] # NoRow
        /\ HasObject(L, L.photos[h].asset)
    BY <1>0 DEF References
  <2>3. L.photos[h].caption # "" BY <1>0 DEF Checks
  <2> QED BY <1>2, <2>1, <2>2, <2>3
<1>7. Lawful(M)
  <2>1. Lawful([L EXCEPT !.photos = f]) BY <1>5, <1>6, PhotosWritten
  <2> QED BY <1>3, <2>1
<1>8. M.tripCities = L.tripCities /\ M.visits = L.visits /\ M.links = L.links /\ M.photos = f
  BY <1>0, <1>3, OneTable
<1>9. RowByRow(L, M) BY <1>8, QuietRows
<1> QED BY <1>4, <1>7, <1>8, <1>9 DEF SameWays, M

\* The occasions of a place as a minting refile leaves them.
InTimeOrder(L, p) ==
    LET here == OccasionsAt(L, p)
    IN  /\ {L.visits[v].ordinal : v \in here} = 0 .. Cardinality(here) - 1
        /\ \A u, v \in here : L.visits[u].ordinal < L.visits[v].ordinal => L.visits[u].at >= L.visits[v].at

\* Opening an occasion, parking its place's ordinals and renumbering them by
\* time goes through, and leaves the place in time order.
LEMMA OccasionMinted ==
    ASSUME NEW L, Lawful(L), IsFiniteSet(Held(L)), NEW x \in Visits, L.visits[x] = NoRow,
           NEW p \in Places, L.places[p] # NoRow, NEW t \in Trips, L.trips[t] # NoRow, NEW at \in Times
    PROVE  LET I == InsertVisit(L, x, p, t, at)
               K == ParkVisits(I, p, Cardinality(OccasionsAt(I, p)))
               M == RenumberByTime(K, p)
           IN  /\ Lawful(I) /\ Lawful(K) /\ Lawful(M)
               /\ RowByRow(L, I) /\ RowByRow(I, K) /\ RowByRow(K, M)
               /\ OnlyVisits(L, M) /\ IsFiniteSet(Held(M))
               /\ M.visits[x] # NoRow /\ InTimeOrder(M, p)
<1> DEFINE I == InsertVisit(L, x, p, t, at)
           S == OccasionsAt(I, p)
           n == Cardinality(S)
           K == ParkVisits(I, p, n)
           M == RenumberByTime(K, p)
<1>1. /\ Lawful(I) /\ RowByRow(L, I) /\ OnlyVisits(L, I)
      /\ \A v \in Visits : v # x => I.visits[v] = L.visits[v]
      /\ I.visits[x] \in VisitRow /\ I.visits[x].place = p
  BY Inserted
<1> HIDE DEF I
<1>2. I \in Tables BY <1>1 DEF Lawful
<1>3. IsFiniteSet(Held(I))
  <2>1. IsFiniteSet({x}) BY FS_Singleton
  <2>2. \A v \in Visits \ {x} : I.visits[v] # NoRow => L.visits[v] # NoRow BY <1>1
  <2> QED BY <2>1, <2>2, HeldGrows
<1>4. IsFiniteSet(S) /\ n \in Nat BY <1>2, <1>3, FiniteOccasions
<1>5. x \in S BY <1>1, MarkersAreNoRows DEF OccasionsAt
<1>6. /\ Lawful(K) /\ RowByRow(I, K) /\ OnlyVisits(I, K)
      /\ \A v \in Visits : v \notin S => K.visits[v] = I.visits[v]
      /\ \A v \in S : ButForOrdinal(K.visits[v], I.visits[v]) /\ K.visits[v].ordinal >= n
  <2> HIDE DEF n
  <2> QED BY <1>1, <1>3, <1>4, Parked
<1> HIDE DEF K, S
<1>7. K \in Tables BY <1>6 DEF Lawful
<1>8. OccasionsAt(K, p) = S BY <1>6, MarkersAreNoRows DEF OccasionsAt, ButForOrdinal, S
<1>9. IsFiniteSet(Held(K))
  <2>1. \A v \in S : I.visits[v] # NoRow BY DEF S, OccasionsAt
  <2>2. \A v \in Visits : K.visits[v] # NoRow => I.visits[v] # NoRow BY <1>6, <2>1
  <2> QED BY <1>3, <2>2, FS_EmptySet, HeldGrows
<1>10. /\ Lawful(M) /\ RowByRow(K, M) /\ OnlyVisits(K, M)
       /\ \A v \in Visits : v \notin S => M.visits[v] = K.visits[v]
       /\ \A v \in S : ButForOrdinal(M.visits[v], K.visits[v]) /\ M.visits[v].ordinal = Rank(K, p, v)
  BY <1>6, <1>8, <1>9, Renumbered
<1> HIDE DEF M
<1>11. OccasionsAt(M, p) = S
  <2>1. \A v \in S : v \in Visits /\ K.visits[v] # NoRow /\ K.visits[v].place = p BY <1>8 DEF OccasionsAt
  <2>2. \A v \in S : M.visits[v] # NoRow /\ M.visits[v].place = p
    BY <1>10, <2>1, MarkersAreNoRows DEF ButForOrdinal
  <2>3. \A v \in Visits : M.visits[v] # NoRow /\ M.visits[v].place = p => v \in S
    BY <1>8, <1>10 DEF OccasionsAt
  <2> QED BY <2>1, <2>2, <2>3 DEF OccasionsAt
<1>12. IsFiniteSet(Held(M))
  <2>1. \A v \in S : K.visits[v] # NoRow BY <1>8 DEF OccasionsAt
  <2>2. \A v \in Visits : M.visits[v] # NoRow => K.visits[v] # NoRow BY <1>10, <2>1
  <2> QED BY <1>9, <2>2, FS_EmptySet, HeldGrows
<1>13. InTimeOrder(M, p)
  <2>1. /\ \A v \in S : Rank(K, p, v) \in Nat
        /\ \A u, v \in S : Precedes(K, u, v) => Rank(K, p, u) < Rank(K, p, v)
        /\ {Rank(K, p, v) : v \in S} = 0 .. Cardinality(S) - 1
    BY <1>4, <1>7, <1>8, Ranks
  <2>2. \A v \in S : M.visits[v].ordinal = Rank(K, p, v) /\ M.visits[v].at = K.visits[v].at
    BY <1>10 DEF ButForOrdinal
  <2>3. \A v \in S : K.visits[v].at \in Nat BY <1>7, <1>8, RowTypes DEF OccasionsAt
  <2>4. {M.visits[v].ordinal : v \in S} = 0 .. Cardinality(S) - 1 BY <2>1, <2>2
  <2>5. ASSUME NEW u \in S, NEW v \in S, M.visits[u].ordinal < M.visits[v].ordinal
        PROVE  M.visits[u].at >= M.visits[v].at
    <3> SUFFICES ASSUME K.visits[v].at > K.visits[u].at PROVE FALSE BY <2>2, <2>3
    <3>1. Precedes(K, v, u) BY DEF Precedes
    <3>2. Rank(K, p, v) < Rank(K, p, u) BY <2>1, <3>1
    <3> QED BY <2>1, <2>2, <2>5, <3>2
  <2> QED BY <1>11, <2>4, <2>5 DEF InTimeOrder
<1>14. M.visits[x] # NoRow BY <1>5, <1>11 DEF OccasionsAt
<1>15. OnlyVisits(L, M) BY <1>1, <1>6, <1>10 DEF OnlyVisits
<1> QED BY <1>1, <1>6, <1>10, <1>12, <1>13, <1>14, <1>15 DEF I, K, M, S

\* Filing photographs moves no occasion.
LEMMA SameOrder ==
    ASSUME NEW L, NEW M, M.visits = L.visits, NEW p, InTimeOrder(L, p)
    PROVE  InTimeOrder(M, p)
<1>1. OccasionsAt(M, p) = OccasionsAt(L, p) BY DEF OccasionsAt
<1> QED BY <1>1 DEF InTimeOrder

\* RefilePhoto is never failed by the schema, files no other photograph, and
\* leaves a place where it opens an occasion in time order.
LEMMA RefilePhotoTables ==
    ASSUME NEW L, Lawful(L), IsFiniteSet(Held(L)), NEW h \in Photos, NEW w \in Refilings
    PROVE  LET R == RefilePhoto(L, h, w)
           IN  /\ R.answer # "constraint" /\ SameWays(L, R.log) /\ IsFiniteSet(Held(R.log))
               /\ \A g \in Photos : g # h => R.log.photos[g] = L.photos[g]
               /\ R.answer = "ok" /\ L.visits[w.visit] = NoRow => InTimeOrder(R.log, w.place)
<1> DEFINE trip       == L.photos[h].trip
           inserted   == InsertVisit(L, w.visit, w.place, trip, w.at)
           parked     == ParkVisits(inserted, w.place, Cardinality(OccasionsAt(inserted, w.place)))
           renumbered == RenumberByTime(parked, w.place)
           filed      == FilePhoto(renumbered, h, w.place, w.visit)
           direct     == FilePhoto(L, h, w.place, w.visit)
           R          == RefilePhoto(L, h, w)
           Bad        == \/ L.places[w.place] = NoRow
                         \/ L.places[w.place].city # L.photos[h].city
                         \/ IF L.visits[w.visit] = NoRow THEN w.at = Unsent
                            ELSE ~OccasionBelongs(L, w.visit, w.place, trip)
<1>0. L \in Tables /\ References(L) BY DEF Lawful
<1>1. w.place \in Places /\ w.visit \in Visits /\ w.at \in Body(Times) BY DEF Refilings
<1>2. L.photos[h] # NoRow => trip \in Trips /\ L.trips[trip] # NoRow BY <1>0, RowTypes DEF References
<1>3. CASE R = Refuse(L, "notFound") \/ R = Refuse(L, "invalid")
  <2> HIDE DEF R
  <2>1. R.log = L /\ R.answer \in {"notFound", "invalid"} BY <1>3, RefuseLog
  <2>2. /\ R.answer # "constraint" /\ SameWays(L, R.log) /\ IsFiniteSet(Held(R.log))
        /\ \A g \in Photos : g # h => R.log.photos[g] = L.photos[g]
        /\ R.answer # "ok"
    BY <2>1 DEF SameWays
  <2> QED BY <2>2 DEF R
<1>4. CASE L.photos[h] # NoRow /\ ~Bad /\ L.visits[w.visit] # NoRow
  <2>1. R = Commit(L, <<direct>>) BY <1>4 DEF RefilePhoto
  <2>2. /\ Lawful(direct) /\ RowByRow(L, direct) /\ SameWays(L, direct) /\ direct.visits = L.visits
        /\ \A g \in Photos : g # h => direct.photos[g] = L.photos[g]
    BY <1>1, <1>4, PhotoFiled
  <2> HIDE DEF R, direct
  <2>3. R = [log |-> direct, answer |-> "ok"] BY <2>1, <2>2, OneCommits
  <2>4. R.log = direct /\ R.answer = "ok" BY <2>3
  <2>5. IsFiniteSet(Held(direct)) BY <2>2 DEF Held
  <2>6. /\ R.answer # "constraint" /\ SameWays(L, R.log) /\ IsFiniteSet(Held(R.log))
        /\ \A g \in Photos : g # h => R.log.photos[g] = L.photos[g]
    BY <2>2, <2>4, <2>5
  <2> QED BY <1>4, <2>6 DEF R
<1>5. CASE L.photos[h] # NoRow /\ ~Bad /\ L.visits[w.visit] = NoRow
  <2>1. R = Commit(L, <<inserted, parked, renumbered, filed>>) BY <1>5 DEF RefilePhoto
  <2>2. w.at \in Times BY <1>1, <1>5 DEF Body
  <2>3. L.places[w.place] # NoRow BY <1>5
  <2>4. /\ Lawful(inserted) /\ Lawful(parked) /\ Lawful(renumbered)
        /\ RowByRow(L, inserted) /\ RowByRow(inserted, parked) /\ RowByRow(parked, renumbered)
        /\ OnlyVisits(L, renumbered) /\ IsFiniteSet(Held(renumbered))
        /\ renumbered.visits[w.visit] # NoRow /\ InTimeOrder(renumbered, w.place)
    <3> HIDE DEF trip
    <3> QED BY <1>1, <1>2, <1>5, <2>2, <2>3, OccasionMinted
  <2> HIDE DEF R, inserted, parked, renumbered, trip, Bad
  <2>5. renumbered.photos = L.photos /\ renumbered.places = L.places /\ SameWays(L, renumbered)
    BY <2>4 DEF OnlyVisits, SameWays
  <2>6. /\ Lawful(filed) /\ RowByRow(renumbered, filed) /\ SameWays(renumbered, filed)
        /\ filed.visits = renumbered.visits
        /\ \A g \in Photos : g # h => filed.photos[g] = renumbered.photos[g]
    BY <1>1, <1>5, <2>3, <2>4, <2>5, PhotoFiled
  <2> HIDE DEF filed
  <2>7. R = [log |-> filed, answer |-> "ok"] BY <2>1, <2>4, <2>6, FourCommits
  <2>8. R.log = filed /\ R.answer = "ok" BY <2>7
  <2>9. IsFiniteSet(Held(filed)) BY <2>4, <2>6 DEF Held
  <2>10. InTimeOrder(filed, w.place) BY <2>4, <2>6, SameOrder
  <2>11. /\ R.answer # "constraint" /\ SameWays(L, R.log) /\ IsFiniteSet(Held(R.log))
         /\ \A g \in Photos : g # h => R.log.photos[g] = L.photos[g]
         /\ InTimeOrder(R.log, w.place)
    BY <2>5, <2>6, <2>8, <2>9, <2>10 DEF SameWays
  <2> QED BY <2>11 DEF R
<1>6. \/ R = Refuse(L, "notFound") \/ R = Refuse(L, "invalid")
      \/ L.photos[h] # NoRow /\ ~Bad
  BY DEF RefilePhoto
<1> QED BY <1>3, <1>4, <1>5, <1>6

-----------------------------------------------------------------------------
(***************************************************************************)
(* Itineraries.                                                            *)
(***************************************************************************)

\* One trip's rows of trip_cities, finitely many and numbered 0..n-1.
Dense(f) ==
    LET on == {c \in Cities : f[c] # None}
    IN  IsFiniteSet(on) /\ {f[c] : c \in on} = 0 .. Cardinality(on) - 1

Numbered(L) == \A t \in Trips : Dense(L.tripCities[t])

\* An itinerary with no city is dense.
LEMMA EmptyDense ==
    ASSUME NEW f, \A c \in Cities : f[c] = None
    PROVE  Dense(f)
<1> DEFINE on == {c \in Cities : f[c] # None}
<1>1. on = {} OBVIOUS
<1> HIDE DEF on
<1>2. IsFiniteSet(on) /\ Cardinality(on) = 0 BY <1>1, FS_EmptySet
<1>3. {f[c] : c \in on} = {} BY <1>1
<1>4. 0 .. 0 - 1 = {} OBVIOUS
<1> QED BY <1>2, <1>3, <1>4 DEF Dense, on

\* A trip's array of cities, none of them twice, numbers them 0..n-1.
LEMMA ArrayDense ==
    ASSUME NEW m \in Nat, NEW s \in [1 .. m -> Cities], IsInjective(s)
    PROVE  Dense(ArrayRow(s))
<1> DEFINE At(c) == CHOOSE i \in DOMAIN s : s[i] = c
           f == [c \in Cities |-> IF c \in ToSet(s) THEN At(c) - 1 ELSE None]
           on == {c \in Cities : f[c] # None}
<1>1. \A c \in ToSet(s) : c \in Cities /\ At(c) \in 1 .. m /\ s[At(c)] = c BY DEF ToSet
<1>2. \A i \in 1 .. m : s[i] \in ToSet(s) /\ At(s[i]) = i
  <2> SUFFICES ASSUME NEW i \in 1 .. m PROVE s[i] \in ToSet(s) /\ At(s[i]) = i OBVIOUS
  <2>1. s[i] \in ToSet(s) BY DEF ToSet
  <2>2. At(s[i]) \in 1 .. m /\ s[At(s[i])] = s[i] BY <1>1, <2>1
  <2> HIDE DEF At
  <2> QED BY <2>1, <2>2 DEF IsInjective
<1> HIDE DEF At
<1>3. \A c \in ToSet(s) : At(c) - 1 \in Nat
  <2>1. \A i \in 1 .. m : i - 1 \in Nat OBVIOUS
  <2> QED BY <1>1, <2>1, Zenon
<1>4. on = ToSet(s) BY <1>1, <1>3, MarkersAreNoRows
<1>5. \A c \in ToSet(s) : f[c] = At(c) - 1 BY <1>1
<1> HIDE DEF f, on
<1>6. s \in Bijection(1 .. m, ToSet(s))
  BY <1>2 DEF Bijection, Injection, Surjection, ToSet
<1>7. IsFiniteSet(1 .. m) /\ Cardinality(1 .. m) = m BY FS_Interval
<1>8. IsFiniteSet(on) /\ Cardinality(on) = m BY <1>4, <1>6, <1>7, FS_Bijection DEF ExistsBijection
<1>9. {f[c] : c \in on} = 0 .. m - 1
  <2>1. ASSUME NEW c \in on PROVE f[c] \in 0 .. m - 1
    <3>1. f[c] = At(c) - 1 /\ At(c) \in 1 .. m BY <1>1, <1>4, <1>5
    <3>2. \A i \in 1 .. m : i - 1 \in 0 .. m - 1 OBVIOUS
    <3> QED BY <3>1, <3>2, Zenon
  <2>2. ASSUME NEW j \in 0 .. m - 1 PROVE \E c \in on : f[c] = j
    <3>1. j + 1 \in 1 .. m /\ (j + 1) - 1 = j OBVIOUS
    <3>2. s[j + 1] \in on /\ f[s[j + 1]] = (j + 1) - 1 BY <1>2, <1>4, <1>5, <3>1, Zenon
    <3> QED BY <3>1, <3>2, Zenon
  <2> QED BY <2>1, <2>2
<1>10. Dense(f) BY <1>8, <1>9 DEF Dense, on
<1> QED BY <1>10 DEF f, At, ArrayRow

\* Appending a city to a dense itinerary leaves it dense.
LEMMA AppendDense ==
    ASSUME NEW f \in [Cities -> Opt(Nat)], Dense(f), NEW c \in Cities, f[c] = None
    PROVE  Dense([f EXCEPT ![c] = NextOrdinal({f[d] : d \in {e \in Cities : f[e] # None}})])
<1> DEFINE on == {e \in Cities : f[e] # None}
           n == Cardinality(on)
           taken == {f[d] : d \in on}
           next == NextOrdinal(taken)
           g == [f EXCEPT ![c] = next]
           on2 == {e \in Cities : g[e] # None}
<1>1. IsFiniteSet(on) /\ taken = 0 .. n - 1 BY DEF Dense
<1>2. n \in Nat BY <1>1, FS_CardinalityType
<1> HIDE DEF taken, n
<1>3. next = n
  <2>0. taken \in SUBSET Nat /\ IsFiniteSet(taken)
    <3>1. \A j \in 0 .. n - 1 : j \in Nat BY <1>2
    <3>2. IsFiniteSet(0 .. n - 1) BY <1>2, FS_Interval
    <3> QED BY <1>1, <3>1, <3>2
  <2>1. CASE n = 0
    <3>1. taken = {} BY <1>1, <2>1
    <3> QED BY <2>1, <3>1 DEF NextOrdinal
  <2>2. CASE n # 0
    <3>1. n - 1 \in taken /\ taken # {} BY <1>1, <1>2, <2>2
    <3>2. Max(taken) \in taken /\ \A j \in taken : j <= Max(taken) BY <2>0, <3>1, MaxExists
    <3>3. next = Max(taken) + 1 BY <3>1 DEF NextOrdinal
    <3>4. Max(taken) \in 0 .. n - 1 /\ n - 1 <= Max(taken) BY <1>1, <3>1, <3>2
    <3>5. Max(taken) = n - 1 BY <1>2, <3>4
    <3> QED BY <1>2, <3>3, <3>5
  <2> QED BY <2>1, <2>2
<1> HIDE DEF next
<1>4. \A e \in Cities : g[e] = IF e = c THEN n ELSE f[e] BY <1>3
<1>5. g = [f EXCEPT ![c] = next] OBVIOUS
<1>6. on2 = on \cup {c} BY <1>2, <1>4, MarkersAreNoRows
<1>7. c \notin on OBVIOUS
<1>8. IsFiniteSet(on2) /\ Cardinality(on2) = n + 1 BY <1>1, <1>6, <1>7, FS_AddElement DEF n
<1> HIDE DEF g
<1>9. {g[e] : e \in on2} = taken \cup {n} BY <1>4, <1>6, <1>7 DEF taken
<1>10. (0 .. n - 1) \cup {n} = 0 .. (n + 1) - 1 BY <1>2
<1>11. {g[e] : e \in on2} = 0 .. Cardinality(on2) - 1 BY <1>1, <1>8, <1>9, <1>10
<1>12. Dense(g) BY <1>8, <1>11 DEF Dense
<1> QED BY <1>5, <1>12 DEF next, taken

-----------------------------------------------------------------------------
(***************************************************************************)
(* The requests that write neither occasions nor itineraries.              *)
(***************************************************************************)

\* The requests that write photographs, other than a refile, move no filing.
LEMMA PhotosAside ==
    ASSUME NEW L, Lawful(L), NEW r, Asked(r), NEW now, r.op \in {"PutPhoto", "DeletePhoto", "SnoozePhotos"}
    PROVE  LET N == Perform(L, r, now).log
           IN  N.visits = L.visits /\ SameWays(L, N) /\ SameFilings(L, N)
<1> DEFINE N == Perform(L, r, now).log
           Q(M) == M.visits = L.visits /\ SameWays(L, M) /\ SameFilings(L, M)
<1>1. \A M \in {PutPhoto(L, r.id, r.body).log, DeletePhoto(L, r.id).log,
                SnoozePhotos(L, r.id, r.body).log} : Q(M)
  BY PhotoTables
<1> HIDE DEF Q
<1>2. N \in {PutPhoto(L, r.id, r.body).log, DeletePhoto(L, r.id).log, SnoozePhotos(L, r.id, r.body).log}
  BY AskedCases
<1>3. Q(N) BY <1>1, <1>2
<1> QED BY <1>3 DEF Q

\* The requests for walks, share flags, the name and objects touch nothing else.
LEMMA OthersAside ==
    ASSUME NEW L, Lawful(L), NEW r, Asked(r), NEW now,
           r.op \in {"PutWalk", "SetShareOptions", "SetTravellerName", "BeginMedia", "MarkMediaUploaded"}
    PROVE  LET N == Perform(L, r, now).log IN SameFiles(L, N) /\ SameWays(L, N)
<1> DEFINE N == Perform(L, r, now).log
           Q(M) == SameFiles(L, M) /\ SameWays(L, M)
<1>1. \A M \in {PutWalk(L, r.id, r.body).log, SetShareOptions(L, r.id, r.body).log,
                SetTravellerName(L, r.body).log, BeginMedia(L, r.id).log,
                MarkMediaUploaded(L, r.id).log} : Q(M)
  BY AsideTables
<1> HIDE DEF Q
<1>2. N \in {PutWalk(L, r.id, r.body).log, SetShareOptions(L, r.id, r.body).log,
             SetTravellerName(L, r.body).log, BeginMedia(L, r.id).log, MarkMediaUploaded(L, r.id).log}
  BY AskedCases
<1>3. Q(N) BY <1>1, <1>2
<1> QED BY <1>3 DEF Q

\* Only the cities' ordinals matter.
LEMMA SameDense ==
    ASSUME NEW f, Dense(f), NEW g, \A c \in Cities : g[c] = f[c]
    PROVE  Dense(g)
<1>1. {c \in Cities : g[c] # None} = {c \in Cities : f[c] # None} OBVIOUS
<1>2. {g[c] : c \in {d \in Cities : g[d] # None}} = {f[c] : c \in {d \in Cities : f[d] # None}}
  BY <1>1
<1> QED BY <1>1, <1>2 DEF Dense

\* PutTrip's array replaces one trip's itinerary.
LEMMA PutTripNumbers ==
    ASSUME NEW L, Lawful(L), Numbered(L), NEW t \in Trips, NEW w \in TripWrites
    PROVE  Numbered(PutTrip(L, t, w).log)
<1> DEFINE N == PutTrip(L, t, w).log
           row == ArrayRow(w.cityIds)
           Replaced == \A s \in Trips : N.tripCities[s] = IF s = t THEN row ELSE L.tripCities[s]
<1>1. N.tripCities = L.tripCities \/ (TripWritable(L, t, w) /\ w.cityIds # Unsent /\ Replaced)
  BY PutTripTables
<1> HIDE DEF N
<1>2. CASE N.tripCities = L.tripCities BY <1>2 DEF Numbered, N
<1>3. CASE TripWritable(L, t, w) /\ w.cityIds # Unsent /\ Replaced
  <2>1. w.cityIds \in BoundedSeq(Cities, MaxItinerary) BY <1>3 DEF TripWrites, Body
  <2>2. IsInjective(w.cityIds) BY <1>3 DEF TripWritable
  <2>3. Len(w.cityIds) \in Nat /\ w.cityIds \in [1 .. Len(w.cityIds) -> Cities]
    BY <2>1, ArrayOf, BoundsNat
  <2>4. Dense(row) BY <2>2, <2>3, ArrayDense
  <2> HIDE DEF row
  <2> QED BY <1>3, <2>4 DEF Numbered, N
<1> QED BY <1>1, <1>2, <1>3

\* PutCity's attachment comes at the end of one trip's itinerary.
LEMMA PutCityNumbers ==
    ASSUME NEW L, Lawful(L), Numbered(L), NEW c \in Cities, NEW w \in CityWrites
    PROVE  Numbered(PutCity(L, c, w).log)
<1> DEFINE N == PutCity(L, c, w).log
           t == w.attachTo
           f == L.tripCities[t]
           g == [f EXCEPT ![c] = NextOrdinal({L.tripCities[t][d] : d \in Itinerary(L, t)})]
<1>0. L.tripCities \in [Trips -> [Cities -> Opt(Nat)]] BY DEF Lawful, Tables
<1>1. \/ N.tripCities = L.tripCities
      \/ t \in Trips /\ c \notin Itinerary(L, t) /\ N.tripCities = [L.tripCities EXCEPT ![t] = g]
  BY PutCityTables
<1> HIDE DEF N
<1>2. CASE N.tripCities = L.tripCities BY <1>2 DEF Numbered, N
<1>3. CASE t \in Trips /\ c \notin Itinerary(L, t) /\ N.tripCities = [L.tripCities EXCEPT ![t] = g]
  <2>1. f \in [Cities -> Opt(Nat)] /\ Dense(f) BY <1>0, <1>3 DEF Numbered
  <2>2. f[c] = None /\ Itinerary(L, t) = {e \in Cities : f[e] # None} BY <1>3 DEF Itinerary
  <2>3. g = [f EXCEPT ![c] = NextOrdinal({f[d] : d \in {e \in Cities : f[e] # None}})] BY <2>2
  <2> HIDE DEF f
  <2>4. Dense([f EXCEPT ![c] = NextOrdinal({f[d] : d \in {e \in Cities : f[e] # None}})])
    BY <2>1, <2>2, AppendDense
  <2>5. Dense(g) BY <2>3, <2>4
  <2> HIDE DEF g
  <2>6. N.tripCities[t] = g /\ \A s \in Trips : s # t => N.tripCities[s] = L.tripCities[s]
    BY <1>0, <1>3
  <2> QED BY <2>5, <2>6 DEF Numbered, N
<1> QED BY <1>1, <1>2, <1>3

\* A deleted trip's itinerary is empty, and the others are as they were.
LEMMA DeleteTripNumbers ==
    ASSUME NEW L, Lawful(L), IsFiniteSet(Held(L)), Numbered(L), NEW t \in Trips
    PROVE  Numbered(DeleteTrip(L, t).log)
<1> DEFINE N == DeleteTrip(L, t).log
<1>1. N = L \/ TripGone(L, N, t) BY DeleteTripTables
<1> HIDE DEF N
<1>2. CASE N = L BY <1>2 DEF N
<1>3. CASE TripGone(L, N, t)
  <2>1. \A s \in Trips, c \in Cities : N.tripCities[s][c] = IF s = t THEN None ELSE L.tripCities[s][c]
    BY <1>3 DEF TripGone
  <2>2. ASSUME NEW s \in Trips PROVE Dense(N.tripCities[s])
    <3>1. CASE s = t BY <2>1, <3>1, EmptyDense
    <3>2. CASE s # t BY <2>1, <3>2, SameDense DEF Numbered
    <3> QED BY <3>1, <3>2
  <2> QED BY <2>2 DEF Numbered, N
<1> QED BY <1>1, <1>2, <1>3

-----------------------------------------------------------------------------
(***************************************************************************)
(* The inductive invariant of every step: IInv, and what keeps the numbers *)
(* of a log's rows within the schema's reach.                              *)
(***************************************************************************)

Counted(L) == IsFiniteSet(Held(L)) /\ Numbered(L)

JInv == IInv /\ Counted(log)

\* A write that leaves both tables alone keeps both counts.
LEMMA SameCounts ==
    ASSUME NEW L, Counted(L), NEW N, N.visits = L.visits, N.tripCities = L.tripCities
    PROVE  Counted(N)
BY DEF Counted, Held, Numbered

\* Every request a client can send keeps them.
LEMMA PerformCounted ==
    ASSUME NEW L, Coherent(L), Counted(L), NEW r, Asked(r), NEW now \in Moments
    PROVE  Counted(Perform(L, r, now).log)
<1> DEFINE N == Perform(L, r, now).log
<1>0. Lawful(L) /\ IsFiniteSet(Held(L)) /\ Numbered(L) BY DEF Coherent, Counted
<1>a. \A M : SameFiles(L, M) /\ M.tripCities = L.tripCities => Counted(M)
  BY SameCounts DEF SameFiles
<1>b. \A M : M.visits = L.visits /\ SameWays(L, M) => Counted(M) BY SameCounts DEF SameWays
<1>c. \A M : SameFiles(L, M) /\ Numbered(M) => Counted(M) BY <1>0 DEF SameFiles, Held, Counted
<1>d. \A M : SameWays(L, M) /\ IsFiniteSet(Held(M)) => Counted(M) BY <1>0 DEF SameWays, Numbered, Counted
<1>e. r.op \in Ops BY AskedCases
<1>1. CASE r.op = "PutTrip"
  <2>1. r.id \in Trips /\ r.body \in TripWrites /\ N = PutTrip(L, r.id, r.body).log
    BY <1>1, AskedCases
  <2> QED BY <1>0, <1>c, <2>1, PutTripTables, PutTripNumbers
<1>2. CASE r.op = "DeleteTrip"
  <2>1. r.id \in Trips /\ N = DeleteTrip(L, r.id).log BY <1>2, AskedCases
  <2> QED BY <1>0, <2>1, DeleteTripTables, DeleteTripNumbers DEF Counted
<1>3. CASE r.op = "PutCity"
  <2>1. r.id \in Cities /\ r.body \in CityWrites /\ N = PutCity(L, r.id, r.body).log
    BY <1>3, AskedCases
  <2> QED BY <1>0, <1>c, <2>1, PutCityTables, PutCityNumbers
<1>4. CASE r.op = "PutPlace"
  <2>1. r.id \in Places /\ r.body \in PlaceWrites /\ N = PutPlace(L, r.id, r.body).log
    BY <1>4, AskedCases
  <2> QED BY <1>0, <1>d, <2>1, PutPlaceTables
<1>5. CASE r.op = "RemovePlace"
  <2>1. r.id \in Places /\ N = RemovePlace(L, r.id, r.body).log BY <1>5, AskedCases
  <2> QED BY <1>0, <1>d, <2>1, RemovePlaceTables
<1>6. CASE r.op \in {"PutPhoto", "DeletePhoto", "SnoozePhotos"}
  <2>1. N.visits = L.visits /\ SameWays(L, N) BY <1>0, <1>6, PhotosAside
  <2> QED BY <1>b, <2>1
<1>7. CASE r.op = "RefilePhoto"
  <2>1. r.id \in Photos /\ r.body \in Refilings /\ N = RefilePhoto(L, r.id, r.body).log
    BY <1>7, AskedCases
  <2> QED BY <1>0, <1>d, <2>1, RefilePhotoTables
<1>8. CASE r.op \in {"PutWalk", "SetShareOptions", "SetTravellerName", "BeginMedia", "MarkMediaUploaded"}
  <2>1. SameFiles(L, N) /\ SameWays(L, N) BY <1>0, <1>8, OthersAside
  <2> QED BY <1>b, <2>1 DEF SameFiles
<1>9. CASE r.op = "NewShareLink"
  <2>1. r.body \in Tokens /\ N = NewShareLink(L, r.id, r.body, now).log BY <1>9, AskedCases
  <2> QED BY <1>0, <1>a, <2>1, NewShareLinkTables
<1>10. CASE r.op = "StopSharing"
  <2>1. r.id \in Trips /\ N = StopSharing(L, r.id, now).log BY <1>10, AskedCases
  <2> QED BY <1>0, <1>a, <2>1, StopSharingTables
<1> QED BY <1>e, <1>1, <1>2, <1>3, <1>4, <1>5, <1>6, <1>7, <1>8, <1>9, <1>10 DEF Ops

\* Every step is a request served on a log the invariant describes.
LEMMA StepServes ==
    ASSUME JInv, Next
    PROVE  \E r : \E now \in Moments :
                  /\ Asked(r) /\ request' = r /\ began' = now
                  /\ log' = Perform(log, r, now).log /\ answer' = Perform(log, r, now).answer
BY NextAsked DEF Serve

\* Whatever requests are served, a log holds finitely many occasions, and its
\* itineraries are numbered without a gap.
THEOREM CountedInvariance == Spec => []JInv
<1>1. Init => JInv
  <2> SUFFICES ASSUME Init PROVE JInv OBVIOUS
  <2>1. log = EmptyLog /\ IInv BY EmptyLogLawful DEF Init, IInv, Answers
  <2>2. Held(log) = {} BY <2>1 DEF EmptyLog, Held
  <2>3. \A t \in Trips, c \in Cities : log.tripCities[t][c] = None BY <2>1 DEF EmptyLog
  <2>4. Numbered(log) BY <2>3, EmptyDense DEF Numbered
  <2> QED BY <2>1, <2>2, <2>4, FS_EmptySet DEF JInv, Counted
<1>2. JInv /\ [Next]_vars => JInv'
  <2> SUFFICES ASSUME JInv, [Next]_vars PROVE JInv' OBVIOUS
  <2>1. CASE Next
    <3>1. PICK r, now : now \in Moments /\ Asked(r) /\ log' = Perform(log, r, now).log BY <2>1, StepServes
    <3>2. Coherent(log) /\ Counted(log) BY DEF JInv, IInv
    <3>3. Counted(Perform(log, r, now).log) BY <3>1, <3>2, PerformCounted
    <3>4. Counted(log') BY <3>1, <3>3
    <3>5. Kept BY <2>1, <3>2, NextKeeps
    <3> QED BY <3>4, <3>5
          DEF JInv, IInv, Kept, Coherent, Lawful, References, Uniques, Checks, Counted, Numbered, Held
  <2>2. CASE UNCHANGED vars BY <2>2 DEF JInv, IInv, vars
  <2> QED BY <2>1, <2>2
<1> QED BY <1>1, <1>2, PTL DEF Spec

\* No mix of PutTrip's arrays and PutCity's attachments, with trips deleted in
\* between, leaves a gap in an itinerary or numbers two cities alike: the next
\* attachment's max(ordinal) + 1 is the itinerary's length.
THEOREM ItinerariesDense == Spec => []ItineraryDense
<1>1. JInv => ItineraryDense
  BY DEF JInv, Counted, Numbered, Dense, ItineraryDense, Itinerary
<1> QED BY <1>1, CountedInvariance, PTL

-----------------------------------------------------------------------------
(***************************************************************************)
(* What a step may never do.                                               *)
(***************************************************************************)

\* A refile that opens an occasion is never left half-numbered: whatever
\* ordinals PutPlace stored there, the place comes out 0..n-1, newest first.
THEOREM MintingSorts == Spec => MintedOccasionsInTimeOrder
<1> DEFINE Minted == request'.op = "RefilePhoto" /\ answer' = "ok" /\ log.visits[request'.body.visit] = NoRow
           Sorted == LET here == OccasionsAt(log', request'.body.place)
                     IN  /\ {log'.visits[v].ordinal : v \in here} = 0 .. Cardinality(here) - 1
                         /\ \A u, v \in here :
                               log'.visits[u].ordinal < log'.visits[v].ordinal =>
                                   log'.visits[u].at >= log'.visits[v].at
<1>1. JInv /\ [Next]_vars => [Minted => Sorted]_vars
  <2> SUFFICES ASSUME JInv, Next, Minted PROVE Sorted OBVIOUS
  <2>1. PICK r, now : /\ now \in Moments /\ Asked(r) /\ request' = r /\ began' = now
                      /\ log' = Perform(log, r, now).log /\ answer' = Perform(log, r, now).answer
    BY StepServes
  <2>2. r.id \in Photos /\ r.body \in Refilings /\ Perform(log, r, now) = RefilePhoto(log, r.id, r.body)
    BY <2>1, AskedCases
  <2>3. Lawful(log) /\ IsFiniteSet(Held(log)) BY DEF JInv, IInv, Coherent, Counted
  <2>4. InTimeOrder(log', r.body.place) BY <2>1, <2>2, <2>3, RefilePhotoTables
  <2> QED BY <2>1, <2>4 DEF InTimeOrder
<1> QED BY <1>1, CountedInvariance, PTL DEF Spec, MintedOccasionsInTimeOrder

\* What is left of the photographs and occasions once a trip is gone.
LEMMA TripGoneScope ==
    ASSUME NEW L, L \in Tables, NEW N, NEW t, TripGone(L, N, t)
    PROVE  /\ \A v \in Visits : L.visits[v] # NoRow /\ L.visits[v].trip # t => N.visits[v] = L.visits[v]
           /\ \A h \in Photos : L.photos[h] # NoRow /\ L.photos[h].trip # t => N.photos[h] # NoRow
           /\ \A w \in Walks : L.walks[w] # NoRow /\ L.walks[w].trip # t => N.walks[w] = L.walks[w]
           /\ \A k \in Tokens : L.links[k] # NoRow /\ L.links[k].trip # t => N.links[k] = L.links[k]
           /\ \A s \in Trips \ {t} : N.trips[s] = L.trips[s] /\ N.tripCities[s] = L.tripCities[s]
           /\ VisitsOn(N, t) = {} /\ PhotosOn(N, t) = {}
<1>1. \A v \in Visits : N.visits[v] = IF v \in VisitsOn(L, t) THEN NoRow ELSE L.visits[v]
  BY DEF TripGone
<1>2. \A h \in Photos : L.photos[h] = NoRow \/ h \in PhotosOn(L, t) => N.photos[h] = NoRow
  BY DEF TripGone
<1>3. \A h \in Photos : L.photos[h] # NoRow /\ h \notin PhotosOn(L, t) =>
         N.photos[h] \in PhotoRow /\ N.photos[h].trip = L.photos[h].trip
  BY DEF TripGone
<1>4. \A v \in Visits : L.visits[v] # NoRow /\ L.visits[v].trip # t => N.visits[v] = L.visits[v]
  BY <1>1 DEF VisitsOn
<1>5. \A h \in Photos : L.photos[h] # NoRow /\ L.photos[h].trip # t => N.photos[h] # NoRow
  BY <1>3, MarkersAreNoRows DEF PhotosOn
<1>6. VisitsOn(N, t) = {} BY <1>1 DEF VisitsOn
<1>7. PhotosOn(N, t) = {} BY <1>2, <1>3 DEF PhotosOn
<1>8. /\ \A w \in Walks : L.walks[w] # NoRow /\ L.walks[w].trip # t => N.walks[w] = L.walks[w]
      /\ \A s \in Trips \ {t} : N.trips[s] = L.trips[s] /\ N.tripCities[s] = L.tripCities[s]
  BY DEF TripGone
<1>9. \A k \in Tokens : L.links[k] # NoRow /\ L.links[k].trip # t => N.links[k] = L.links[k]
  BY DEF TripGone, LinksOn
<1> QED BY <1>4, <1>5, <1>6, <1>7, <1>8, <1>9

\* Deleting a trip takes its own rows and no other trip's, and no city, pin or
\* object.
THEOREM TripDeletionScoped == Spec => TripDeletionScope
<1> DEFINE Scoped ==
         /\ log'.cities = log.cities /\ log'.places = log.places /\ log'.media = log.media
         /\ \A v \in Visits : log.visits[v] # NoRow /\ log.visits[v].trip # request'.id =>
               log'.visits[v] = log.visits[v]
         /\ \A h \in Photos : log.photos[h] # NoRow /\ log.photos[h].trip # request'.id =>
               log'.photos[h] # NoRow
         /\ \A t \in Trips \ {request'.id} :
               log'.trips[t] = log.trips[t] /\ log'.tripCities[t] = log.tripCities[t]
         /\ \A w \in Walks : log.walks[w] # NoRow /\ log.walks[w].trip # request'.id =>
               log'.walks[w] = log.walks[w]
         /\ \A k \in Tokens : log.links[k] # NoRow /\ log.links[k].trip # request'.id =>
               log'.links[k] = log.links[k]
         /\ answer' = "ok" => VisitsOn(log', request'.id) = {} /\ PhotosOn(log', request'.id) = {}
<1>1. JInv /\ [Next]_vars => [request'.op = "DeleteTrip" => Scoped]_vars
  <2> SUFFICES ASSUME JInv, Next, request'.op = "DeleteTrip" PROVE Scoped OBVIOUS
  <2>1. PICK r, now : /\ now \in Moments /\ Asked(r) /\ request' = r /\ began' = now
                      /\ log' = Perform(log, r, now).log /\ answer' = Perform(log, r, now).answer
    BY StepServes
  <2>2. r.id \in Trips /\ Perform(log, r, now) = DeleteTrip(log, r.id) BY <2>1, AskedCases
  <2>3. Lawful(log) /\ log \in Tables /\ IsFiniteSet(Held(log))
    BY DEF JInv, IInv, Coherent, Lawful, Counted
  <2>4. \/ log' = log /\ answer' # "ok"
        \/ /\ TripGone(log, log', r.id)
           /\ log'.cities = log.cities /\ log'.places = log.places /\ log'.media = log.media
    BY <2>1, <2>2, <2>3, DeleteTripTables
  <2>5. CASE log' = log /\ answer' # "ok" BY <2>5
  <2>6. CASE /\ TripGone(log, log', r.id)
             /\ log'.cities = log.cities /\ log'.places = log.places /\ log'.media = log.media
    BY <2>1, <2>3, <2>6, TripGoneScope
  <2> QED BY <2>4, <2>5, <2>6
<1> QED BY <1>1, CountedInvariance, PTL DEF Spec, TripDeletionScope

\* D2: "delete" takes exactly the photographs filed at the place, "keep" takes
\* none and leaves them filed nowhere, occasion and place both.
THEOREM RemovalPromise == Spec => RemovalKeepsItsPromise
<1> DEFINE Removed == request'.op = "RemovePlace" /\ answer' = "ok"
           Promise == \A h \in Photos : log.photos[h] # NoRow =>
                IF log.photos[h].place # request'.id THEN log'.photos[h] = log.photos[h]
                ELSE IF request'.body = "delete" THEN log'.photos[h] = NoRow
                ELSE log'.photos[h] = [log.photos[h] EXCEPT !.place = None, !.visit = None]
<1>1. JInv /\ [Next]_vars => [Removed => Promise]_vars
  <2> SUFFICES ASSUME JInv, Next, Removed PROVE Promise OBVIOUS
  <2>1. PICK r, now : /\ now \in Moments /\ Asked(r) /\ request' = r /\ began' = now
                      /\ log' = Perform(log, r, now).log /\ answer' = Perform(log, r, now).answer
    BY StepServes
  <2>2. /\ r.id \in Places /\ r.body \in Dispositions
        /\ Perform(log, r, now) = RemovePlace(log, r.id, r.body)
    BY <2>1, AskedCases
  <2>3. Coherent(log) /\ IsFiniteSet(Held(log)) BY DEF JInv, IInv, Counted
  <2>4. r.body = "delete" <=> r.body # "keep" BY <2>2 DEF Dispositions
  <2>5. Promised(log, log', r.id, r.body) BY <2>1, <2>2, <2>3, RemovePlaceTables
  <2> QED BY <2>1, <2>4, <2>5 DEF Promised
<1> QED BY <1>1, CountedInvariance, PTL DEF Spec, RemovalKeepsItsPromise

\* No request opens a revoked link again.
LEMMA PerformRevokes ==
    ASSUME NEW L, Coherent(L), Counted(L), NEW r, Asked(r), NEW now \in Moments
    PROVE  KeepsRevoked(L, Perform(L, r, now).log)
<1> DEFINE N == Perform(L, r, now).log
<1>0. Lawful(L) /\ IsFiniteSet(Held(L)) BY DEF Coherent, Counted
<1>a. \A M : M.links = L.links => KeepsRevoked(L, M) BY DEF KeepsRevoked
<1>b. \A M : SameWays(L, M) => KeepsRevoked(L, M) BY <1>a DEF SameWays
<1>c. r.op \in Ops BY AskedCases
<1>1. CASE r.op = "PutTrip"
  <2>1. N = PutTrip(L, r.id, r.body).log BY <1>1, AskedCases
  <2> QED BY <1>0, <1>a, <2>1, PutTripTables
<1>2. CASE r.op = "DeleteTrip"
  <2>1. r.id \in Trips /\ N = DeleteTrip(L, r.id).log BY <1>2, AskedCases
  <2>2. N = L \/ TripGone(L, N, r.id) BY <1>0, <2>1, DeleteTripTables
  <2> HIDE DEF N
  <2>3. \A k \in Tokens : N.links[k] \in {L.links[k], NoRow} BY <2>2 DEF TripGone
  <2> QED BY <2>3 DEF KeepsRevoked, N
<1>3. CASE r.op = "PutCity"
  <2>1. r.id \in Cities /\ r.body \in CityWrites /\ N = PutCity(L, r.id, r.body).log
    BY <1>3, AskedCases
  <2> QED BY <1>0, <1>a, <2>1, PutCityTables
<1>4. CASE r.op = "PutPlace"
  <2>1. r.id \in Places /\ r.body \in PlaceWrites /\ N = PutPlace(L, r.id, r.body).log
    BY <1>4, AskedCases
  <2> QED BY <1>0, <1>b, <2>1, PutPlaceTables
<1>5. CASE r.op = "RemovePlace"
  <2>1. r.id \in Places /\ N = RemovePlace(L, r.id, r.body).log BY <1>5, AskedCases
  <2> QED BY <1>0, <1>b, <2>1, RemovePlaceTables
<1>6. CASE r.op \in {"PutPhoto", "DeletePhoto", "SnoozePhotos"} BY <1>0, <1>6, <1>b, PhotosAside
<1>7. CASE r.op = "RefilePhoto"
  <2>1. r.id \in Photos /\ r.body \in Refilings /\ N = RefilePhoto(L, r.id, r.body).log
    BY <1>7, AskedCases
  <2> QED BY <1>0, <1>b, <2>1, RefilePhotoTables
<1>8. CASE r.op \in {"PutWalk", "SetShareOptions", "SetTravellerName", "BeginMedia", "MarkMediaUploaded"}
  BY <1>0, <1>8, <1>b, OthersAside
<1>9. CASE r.op = "NewShareLink"
  <2>1. r.body \in Tokens /\ N = NewShareLink(L, r.id, r.body, now).log BY <1>9, AskedCases
  <2> QED BY <1>0, <2>1, NewShareLinkTables
<1>10. CASE r.op = "StopSharing"
  <2>1. r.id \in Trips /\ N = StopSharing(L, r.id, now).log BY <1>10, AskedCases
  <2> QED BY <1>0, <2>1, StopSharingTables
<1> QED BY <1>c, <1>1, <1>2, <1>3, <1>4, <1>5, <1>6, <1>7, <1>8, <1>9, <1>10 DEF Ops

\* A link that was taken back opens nothing again, whatever is shared, stopped
\* and shared anew; and a trip that stopped being shared has its default flags.
THEOREM RevocationFinal == Spec => RevokedStaysRevoked
<1> DEFINE Revoked == \A k \in Tokens : log.links[k] # NoRow /\ log.links[k].revoked # None =>
                          log'.links[k] \in {log.links[k], NoRow}
           Stopped == request'.op = "StopSharing" /\ answer' = "ok" =>
                          /\ LiveLinks(log', request'.id) = {}
                          /\ log'.trips[request'.id].sharePhotos
                          /\ log'.trips[request'.id].shareNotes
                          /\ ~log'.trips[request'.id].shareCoordinates
<1>1. JInv /\ [Next]_vars => [Revoked /\ Stopped]_vars
  <2> SUFFICES ASSUME JInv, Next PROVE Revoked /\ Stopped OBVIOUS
  <2>1. PICK r, now : /\ now \in Moments /\ Asked(r) /\ request' = r /\ began' = now
                      /\ log' = Perform(log, r, now).log /\ answer' = Perform(log, r, now).answer
    BY StepServes
  <2>2. Coherent(log) /\ Lawful(log) /\ Counted(log) BY DEF JInv, IInv, Coherent
  <2>3. KeepsRevoked(log, log') BY <2>1, <2>2, PerformRevokes
  <2>4. ASSUME r.op = "StopSharing", answer' = "ok"
        PROVE  LiveLinks(log', r.id) = {} /\ DefaultFlags(log'.trips[r.id])
    <3>1. r.id \in Trips /\ Perform(log, r, now) = StopSharing(log, r.id, now) BY <2>1, <2>4, AskedCases
    <3> DEFINE R == StopSharing(log, r.id, now)
    <3>2. R.answer = "ok" => LiveLinks(R.log, r.id) = {} /\ DefaultFlags(R.log.trips[r.id])
      BY <2>1, <2>2, <3>1, StopSharingTables
    <3>3. log' = R.log /\ answer' = R.answer BY <2>1, <3>1
    <3> HIDE DEF R
    <3> QED BY <2>4, <3>2, <3>3
  <2>5. Revoked BY <2>3 DEF KeepsRevoked
  <2>6. ASSUME request'.op = "StopSharing", answer' = "ok"
        PROVE  LiveLinks(log', request'.id) = {} /\ DefaultFlags(log'.trips[request'.id])
    BY <2>1, <2>4, <2>6
  <2>7. Stopped BY <2>6, Zenon DEF DefaultFlags
  <2> QED BY <2>5, <2>7
<1> QED BY <1>1, CountedInvariance, PTL DEF Spec, RevokedStaysRevoked

\* What becomes of a photograph's filing.
Filed(L, N, r, h) ==
    LET old == L.photos[h]
        new == N.photos[h]
    IN  old # NoRow /\ new # NoRow =>
            \/ new.place = old.place /\ new.visit = old.visit
            \/ r.op = "RefilePhoto" /\ r.id = h
            \/ r.op = "RemovePlace" /\ r.id = old.place /\ new.place = None /\ new.visit = None
            \/ /\ r.op = "DeleteTrip" /\ L.visits[old.visit].trip = r.id
               /\ new.place = old.place /\ new.visit = None

\* Deleting a trip unfiles the photographs of its occasions only.
LEMMA TripGoneFilings ==
    ASSUME NEW L, Lawful(L), NEW N, NEW t, TripGone(L, N, t), NEW h \in Photos,
           L.photos[h] # NoRow, N.photos[h] # NoRow
    PROVE  /\ N.photos[h].place = L.photos[h].place
           /\ \/ N.photos[h].visit = L.photos[h].visit
              \/ N.photos[h].visit = None /\ L.visits[L.photos[h].visit].trip = t
<1>1. h \notin PhotosOn(L, t) BY DEF TripGone
<1>2. /\ N.photos[h].place = L.photos[h].place
      /\ N.photos[h].visit = IF L.photos[h].visit \in VisitsOn(L, t) THEN None ELSE L.photos[h].visit
  BY <1>1 DEF TripGone
<1> QED BY <1>2 DEF VisitsOn

\* No request loses a filing but the three that say so.
LEMMA PerformFiles ==
    ASSUME NEW L, Coherent(L), Counted(L), NEW r, Asked(r), NEW now \in Moments, NEW h \in Photos
    PROVE  Filed(L, Perform(L, r, now).log, r, h)
<1> DEFINE N == Perform(L, r, now).log
<1>0. Lawful(L) /\ IsFiniteSet(Held(L)) BY DEF Coherent, Counted
<1>a. \A M : SameFilings(L, M) => Filed(L, M, r, h) BY DEF SameFilings, Filed
<1>b. \A M : SameFiles(L, M) => Filed(L, M, r, h) BY DEF SameFiles, Filed
<1>c. r.op \in Ops BY AskedCases
<1>1. CASE r.op = "PutTrip"
  <2>1. N = PutTrip(L, r.id, r.body).log BY <1>1, AskedCases
  <2> QED BY <1>0, <1>b, <2>1, PutTripTables
<1>2. CASE r.op = "DeleteTrip"
  <2>1. r.id \in Trips /\ N = DeleteTrip(L, r.id).log BY <1>2, AskedCases
  <2>2. N = L \/ TripGone(L, N, r.id) BY <1>0, <2>1, DeleteTripTables
  <2> HIDE DEF N
  <2>3. CASE N = L BY <2>3 DEF Filed, N
  <2>4. CASE TripGone(L, N, r.id)
    <3>1. ASSUME L.photos[h] # NoRow, N.photos[h] # NoRow
          PROVE  /\ N.photos[h].place = L.photos[h].place
                 /\ \/ N.photos[h].visit = L.photos[h].visit
                    \/ N.photos[h].visit = None /\ L.visits[L.photos[h].visit].trip = r.id
      BY <1>0, <2>4, <3>1, TripGoneFilings
    <3> QED BY <1>2, <3>1 DEF Filed, N
  <2> QED BY <2>2, <2>3, <2>4
<1>3. CASE r.op = "PutCity"
  <2>1. r.id \in Cities /\ r.body \in CityWrites /\ N = PutCity(L, r.id, r.body).log
    BY <1>3, AskedCases
  <2> QED BY <1>0, <1>b, <2>1, PutCityTables
<1>4. CASE r.op = "PutPlace"
  <2>1. r.id \in Places /\ r.body \in PlaceWrites /\ N = PutPlace(L, r.id, r.body).log
    BY <1>4, AskedCases
  <2> QED BY <1>0, <1>a, <2>1, PutPlaceTables
<1>5. CASE r.op = "RemovePlace"
  <2>1. r.id \in Places /\ N = RemovePlace(L, r.id, r.body).log BY <1>5, AskedCases
  <2>2. N = L \/ Promised(L, N, r.id, r.body) BY <1>0, <2>1, RemovePlaceTables
  <2> HIDE DEF N
  <2>3. CASE N = L BY <2>3 DEF Filed, N
  <2>4. CASE Promised(L, N, r.id, r.body)
    <3> SUFFICES ASSUME L.photos[h] # NoRow, N.photos[h] # NoRow PROVE Filed(L, N, r, h)
      BY DEF Filed, N
    <3>1. CASE L.photos[h].place # r.id BY <2>4, <3>1 DEF Promised, Filed
    <3>2. CASE L.photos[h].place = r.id
      <4>1. N.photos[h] = [L.photos[h] EXCEPT !.place = None, !.visit = None]
        BY <2>4, <3>2 DEF Promised
      <4>2. L.photos[h] \in PhotoRow BY <1>0 DEF Lawful, Tables
      <4>3. N.photos[h].place = None /\ N.photos[h].visit = None BY <4>1, <4>2 DEF PhotoRow
      <4> QED BY <1>5, <3>2, <4>3 DEF Filed
    <3> QED BY <3>1, <3>2
  <2> QED BY <2>2, <2>3, <2>4
<1>6. CASE r.op \in {"PutPhoto", "DeletePhoto", "SnoozePhotos"} BY <1>0, <1>6, <1>a, PhotosAside
<1>7. CASE r.op = "RefilePhoto"
  <2>1. r.id \in Photos /\ r.body \in Refilings /\ N = RefilePhoto(L, r.id, r.body).log
    BY <1>7, AskedCases
  <2>2. h # r.id => N.photos[h] = L.photos[h] BY <1>0, <2>1, RefilePhotoTables
  <2> HIDE DEF N
  <2> QED BY <1>7, <2>2 DEF Filed, N
<1>8. CASE r.op \in {"PutWalk", "SetShareOptions", "SetTravellerName", "BeginMedia", "MarkMediaUploaded"}
  BY <1>0, <1>8, <1>b, OthersAside
<1>9. CASE r.op = "NewShareLink"
  <2>1. r.body \in Tokens /\ N = NewShareLink(L, r.id, r.body, now).log BY <1>9, AskedCases
  <2> QED BY <1>0, <1>b, <2>1, NewShareLinkTables
<1>10. CASE r.op = "StopSharing"
  <2>1. r.id \in Trips /\ N = StopSharing(L, r.id, now).log BY <1>10, AskedCases
  <2> QED BY <1>0, <1>b, <2>1, StopSharingTables
<1> QED BY <1>c, <1>1, <1>2, <1>3, <1>4, <1>5, <1>6, <1>7, <1>8, <1>9, <1>10 DEF Ops

\* A photograph is unfiled by its own refile, by the removal of its place or by
\* the deletion of its occasion's trip, and by nothing else: not by a PutPlace
\* that replaces the occasions of its place, nor by a PutPhoto of its own row.
THEOREM FilingsSurvive == Spec => FilingsLostOnlyToDeletion
<1>1. JInv /\ [Next]_vars => [\A h \in Photos : FilingKept(h)]_vars
  <2> SUFFICES ASSUME JInv, Next, NEW h \in Photos PROVE FilingKept(h) OBVIOUS
  <2>1. PICK r, now : /\ now \in Moments /\ Asked(r) /\ request' = r /\ began' = now
                      /\ log' = Perform(log, r, now).log /\ answer' = Perform(log, r, now).answer
    BY StepServes
  <2>2. Coherent(log) /\ Counted(log) BY DEF JInv, IInv
  <2>3. Filed(log, log', r, h) BY <2>1, <2>2, PerformFiles
  <2> QED BY <2>1, <2>3 DEF Filed, FilingKept
<1> QED BY <1>1, CountedInvariance, PTL DEF Spec, FilingsLostOnlyToDeletion

-----------------------------------------------------------------------------
(***************************************************************************)
(* The Go rules come before the schema: what each operation lets through   *)
(* is lawful, statement by statement.                                      *)
(***************************************************************************)

\* A column of a body, over the column the row had.
LEMMA MergedColumn ==
    ASSUME NEW T, NEW S \in SUBSET T, NEW x \in Nullable(S), NEW y \in Opt(T)
    PROVE  Merge(x, y) \in Opt(T)
BY DEF Nullable, Body, Opt, Merge

\* A cover that the rules let through is an object the log has.
LEMMA CoverStored ==
    ASSUME NEW L, NEW x, CoverCommitted(L, x), NEW y, HasObject(L, y)
    PROVE  HasObject(L, Merge(x, y))
BY DEF CoverCommitted, HasObject, Merge

\* A statement that writes no occasion commits if it is lawful.
LEMMA OneServed ==
    ASSUME NEW L, NEW a, Lawful(a), a.visits = L.visits
    PROVE  Commit(L, <<a>>) = [log |-> a, answer |-> "ok"]
<1>1. RowByRow(L, a) BY QuietRows
<1> QED BY <1>1, OneCommits

\* So do two.
LEMMA TwoServed ==
    ASSUME NEW L, NEW a, NEW b, Lawful(a), Lawful(b), a.visits = L.visits, b.visits = L.visits
    PROVE  Commit(L, <<a, b>>) = [log |-> b, answer |-> "ok"]
<1>1. RowByRow(L, a) /\ RowByRow(a, b) BY QuietRows
<1> QED BY <1>1, TwoCommits

\* An array's ordinals are naturals, one for each of its cities.
LEMMA ArrayInjective ==
    ASSUME NEW m \in Nat, NEW s \in [1 .. m -> Cities]
    PROVE  /\ ArrayRow(s) \in [Cities -> Opt(Nat)]
           /\ \A c \in Cities : ArrayRow(s)[c] # None => c \in ToSet(s)
           /\ \A c, d \in Cities : ArrayRow(s)[c] # None /\ ArrayRow(s)[c] = ArrayRow(s)[d] => c = d
<1> DEFINE At(c) == CHOOSE i \in DOMAIN s : s[i] = c
<1>1. \A c \in ToSet(s) : c \in Cities /\ At(c) \in 1 .. m /\ s[At(c)] = c BY DEF ToSet
<1>2. ArrayRow(s) = [c \in Cities |-> IF c \in ToSet(s) THEN At(c) - 1 ELSE None] BY DEF ArrayRow
<1> HIDE DEF At
<1>3. \A c \in ToSet(s) : At(c) - 1 \in Nat /\ At(c) = (At(c) - 1) + 1
  <2>1. \A i \in 1 .. m : i - 1 \in Nat /\ i = (i - 1) + 1 OBVIOUS
  <2> QED BY <1>1, <2>1, Zenon
<1>4. ArrayRow(s) \in [Cities -> Opt(Nat)] BY <1>2, <1>3 DEF Opt
<1>5. \A c \in Cities : ArrayRow(s)[c] = IF c \in ToSet(s) THEN At(c) - 1 ELSE None BY <1>2
<1>6. \A c \in Cities : ArrayRow(s)[c] # None => c \in ToSet(s) BY <1>5
<1>7. ASSUME NEW c \in Cities, NEW d \in Cities, ArrayRow(s)[c] # None, ArrayRow(s)[c] = ArrayRow(s)[d]
      PROVE  c = d
  <2>1. c \in ToSet(s) /\ d \in ToSet(s) BY <1>6, <1>7
  <2>2. At(c) - 1 = At(d) - 1 BY <1>5, <1>7, <2>1
  <2>3. At(c) = At(d) BY <1>3, <2>1, <2>2
  <2> QED BY <1>1, <2>1, <2>3
<1> QED BY <1>4, <1>6, <1>7

\* The empty text, which the checks of 0003 refuse.
Blank(x) == x = ""

\* A body that sends it.
BlankSent(x) == x # Unsent /\ Blank(x)

\* PutTrip's rules leave the schema nothing to refuse but an empty summary.
LEMMA PutTripServed ==
    ASSUME NEW L, Lawful(L), NEW t \in Trips, NEW w \in TripWrites, ~BlankSent(w.summary)
    PROVE  PutTrip(L, t, w).answer # "constraint"
<1> DEFINE old == BeforeTrip(L, t)
           row == [old EXCEPT !.start = Merge(w.start, old.start), !.end = Merge(w.end, old.end),
                              !.summary = Merge(w.summary, old.summary),
                              !.cover = Merge(w.cover, old.cover)]
           upserted == [L EXCEPT !.trips = [L.trips EXCEPT ![t] = row]]
           replaced == ReplaceTripCities(upserted, t, w.cityIds)
           s == w.cityIds
<1>0. L \in Tables /\ L.trips \in [Trips -> TripRow \cup {NoRow}] BY TableFields DEF Lawful
<1>1. CASE ~TripWritable(L, t, w) BY <1>1, RefuseLog DEF PutTrip
<1>2. ASSUME TripWritable(L, t, w)
      PROVE  /\ Lawful(upserted) /\ upserted.visits = L.visits /\ upserted.cities = L.cities
             /\ upserted.trips[t] # NoRow
  <2>1. old \in TripRow BY <1>0 DEF BeforeTrip, NewTrip, TripRow, Opt
  <2>2. /\ w.start \in Nullable(Days) /\ w.end \in Nullable(Days) /\ w.summary \in Nullable(Texts)
        /\ w.cover \in Nullable(Covers)
    BY DEF TripWrites
  <2>3. /\ old.start \in Opt(Days) /\ old.end \in Opt(Days) /\ old.summary \in Opt(Texts)
        /\ old.cover \in Opt(Media)
    BY <2>1 DEF TripRow
  <2>4. /\ Merge(w.start, old.start) \in Opt(Days) /\ Merge(w.end, old.end) \in Opt(Days)
        /\ Merge(w.summary, old.summary) \in Opt(Texts) /\ Merge(w.cover, old.cover) \in Opt(Media)
    BY <2>2, <2>3, MergedColumn, CoversAreMedia
  <2>5. row \in TripRow BY <2>1, <2>4 DEF TripRow
  <2>6. /\ row.start = Merge(w.start, old.start) /\ row.end = Merge(w.end, old.end)
        /\ row.summary = Merge(w.summary, old.summary) /\ row.cover = Merge(w.cover, old.cover)
    BY <2>1 DEF TripRow
  <2>7. HasObject(L, old.cover)
    BY DEF BeforeTrip, NewTrip, HasObject, Lawful, References
  <2>8. ~Blank(old.summary)
    BY MarkersAreNoRows DEF BeforeTrip, NewTrip, Lawful, Checks, Blank
  <2>9. Merge(w.start, old.start) = None \/ Merge(w.end, old.end) = None
        \/ Merge(w.start, old.start) <= Merge(w.end, old.end)
    BY <1>2 DEF TripWritable, DatesOrdered
  <2> HIDE DEF old, row
  <2>10. HasObject(L, row.cover) BY <1>2, <2>6, <2>7, CoverStored DEF TripWritable
  <2>11. ~Blank(row.summary) BY <2>6, <2>8 DEF Merge, BlankSent
  <2>12. row.start = None \/ row.end = None \/ row.start <= row.end BY <2>6, <2>9
  <2>13. Lawful(upserted) BY <2>5, <2>10, <2>11, <2>12, TripWritten DEF Blank
  <2>14. upserted.visits = L.visits /\ upserted.cities = L.cities /\ upserted.trips[t] = row
    BY <1>0 DEF Tables
  <2> QED BY <2>5, <2>13, <2>14, MarkersAreNoRows
<1>3. CASE TripWritable(L, t, w) /\ w.cityIds = Unsent
  <2>1. PutTrip(L, t, w) = Commit(L, <<upserted>>) BY <1>3 DEF PutTrip
  <2> HIDE DEF upserted
  <2>2. PutTrip(L, t, w) = [log |-> upserted, answer |-> "ok"] BY <1>2, <1>3, <2>1, OneServed
  <2> QED BY <2>2
<1>4. CASE TripWritable(L, t, w) /\ w.cityIds # Unsent
  <2>1. PutTrip(L, t, w) = Commit(L, <<upserted, replaced>>) BY <1>4 DEF PutTrip
  <2>2. replaced = [upserted EXCEPT !.tripCities = [upserted.tripCities EXCEPT ![t] = ArrayRow(s)]]
    BY DEF ReplaceTripCities, ArrayRow
  <2> HIDE DEF upserted, replaced
  <2>3. s \in BoundedSeq(Cities, MaxItinerary) BY <1>4 DEF TripWrites, Body
  <2>4. Len(s) \in Nat /\ s \in [1 .. Len(s) -> Cities] BY <2>3, ArrayOf, BoundsNat
  <2>5. /\ ArrayRow(s) \in [Cities -> Opt(Nat)]
        /\ \A c \in Cities : ArrayRow(s)[c] # None => c \in ToSet(s)
        /\ \A c, d \in Cities : ArrayRow(s)[c] # None /\ ArrayRow(s)[c] = ArrayRow(s)[d] => c = d
    BY <2>4, ArrayInjective
  <2>6. CitiesPresent(L, s) BY <1>4 DEF TripWritable
  <2>7. \A c \in Cities : ArrayRow(s)[c] # None => upserted.cities[c] # NoRow
    BY <1>2, <1>4, <2>5, <2>6 DEF CitiesPresent
  <2>8. Lawful(replaced) BY <1>2, <1>4, <2>2, <2>5, <2>7, ItineraryWritten
  <2>9. upserted \in Tables BY <1>2, <1>4 DEF Lawful
  <2>a. replaced.visits = upserted.visits BY <2>2, <2>9, OneTable
  <2>10. PutTrip(L, t, w) = [log |-> replaced, answer |-> "ok"]
    BY <1>2, <1>4, <2>1, <2>8, <2>a, TwoServed
  <2> QED BY <2>10
<1> QED BY <1>1, <1>3, <1>4

\* An itinerary with a city at its end.
Appended(f, c) == [f EXCEPT ![c] = NextOrdinal({f[d] : d \in {e \in Cities : f[e] # None}})]

\* No two cities of an itinerary have one ordinal.
Distinct(f) == \A d, e \in Cities : f[d] # None /\ f[d] = f[e] => d = e

\* Appending a city gives it an ordinal no other city of the itinerary has.
LEMMA AppendDistinct ==
    ASSUME NEW f \in [Cities -> Opt(Nat)], Dense(f), Distinct(f), NEW c \in Cities, f[c] = None
    PROVE  /\ Appended(f, c) \in [Cities -> Opt(Nat)] /\ Distinct(Appended(f, c))
           /\ \A d \in Cities : d # c => Appended(f, c)[d] = f[d]
<1> DEFINE on == {e \in Cities : f[e] # None}
           taken == {f[d] : d \in on}
           next == NextOrdinal(taken)
           g == [f EXCEPT ![c] = next]
<1>0. Appended(f, c) = g BY DEF Appended
<1>1. IsFiniteSet(taken) BY FiniteValues DEF Dense
<1>2. taken \in SUBSET Nat BY DEF Opt
<1>3. next \in Nat /\ \A x \in taken : x < next BY <1>1, <1>2, NextIsAbove
<1>4. \A x \in taken : x # next BY <1>2, <1>3
<1> HIDE DEF next
<1>5. g \in [Cities -> Opt(Nat)] /\ \A d \in Cities : g[d] = IF d = c THEN next ELSE f[d]
  BY <1>3 DEF Opt
<1>6. \A d \in Cities : f[d] # next BY <1>3, <1>4, MarkersAreNoRows
<1> HIDE DEF g
<1>7. Distinct(g) BY <1>5, <1>6 DEF Distinct
<1>8. \A d \in Cities : d # c => g[d] = f[d] BY <1>5
<1> QED BY <1>0, <1>5, <1>7, <1>8

\* PutCity's rules leave the schema nothing to refuse.
LEMMA PutCityServed ==
    ASSUME NEW L, Lawful(L), Numbered(L), NEW c \in Cities, NEW w \in CityWrites
    PROVE  PutCity(L, c, w).answer # "constraint"
<1> DEFINE old == IF L.cities[c] = NoRow THEN [cover |-> None] ELSE L.cities[c]
           row == [cover |-> Merge(w.cover, old.cover)]
           upserted == [L EXCEPT !.cities = [L.cities EXCEPT ![c] = row]]
           attached == AttachCity(upserted, w.attachTo, c)
           Refused == \/ L.cities[c] = NoRow /\ ~w.complete
                      \/ ~CoverCommitted(L, w.cover)
                      \/ w.attachTo # Unsent /\ L.trips[w.attachTo] = NoRow
<1>0. L \in Tables /\ L.cities \in [Cities -> CityRow \cup {NoRow}] BY TableFields DEF Lawful
<1>1. CASE Refused
  <2>1. PutCity(L, c, w) = Refuse(L, "invalid") BY <1>1 DEF PutCity
  <2> QED BY <2>1, RefuseLog
<1>2. ASSUME CoverCommitted(L, w.cover)
      PROVE  /\ Lawful(upserted) /\ upserted.visits = L.visits /\ upserted.trips = L.trips
             /\ upserted.tripCities = L.tripCities /\ upserted.cities[c] # NoRow
             /\ \A d \in Cities : L.cities[d] # NoRow => upserted.cities[d] # NoRow
  <2>1. old.cover \in Opt(Media) /\ HasObject(L, old.cover)
    <3>1. CASE L.cities[c] = NoRow BY <3>1 DEF Opt, HasObject
    <3>2. CASE L.cities[c] # NoRow BY <1>0, <3>2 DEF CityRow, Lawful, References
    <3> QED BY <3>1, <3>2
  <2>2. w.cover \in Nullable(Covers) BY DEF CityWrites
  <2> HIDE DEF old
  <2>3. Merge(w.cover, old.cover) \in Opt(Media) BY <2>1, <2>2, MergedColumn, CoversAreMedia
  <2>4. row \in CityRow /\ row.cover = Merge(w.cover, old.cover) BY <2>3 DEF CityRow
  <2>5. HasObject(L, row.cover) BY <1>2, <2>1, <2>4, CoverStored
  <2> HIDE DEF row
  <2>6. Lawful(upserted) BY <2>4, <2>5, CityWritten
  <2>7. /\ upserted.visits = L.visits /\ upserted.trips = L.trips /\ upserted.tripCities = L.tripCities
        /\ upserted.cities = [L.cities EXCEPT ![c] = row]
    BY <1>0 DEF Tables
  <2> HIDE DEF upserted
  <2>8. \A d \in Cities : upserted.cities[d] = IF d = c THEN row ELSE L.cities[d] BY <1>0, <2>7
  <2> QED BY <2>4, <2>6, <2>7, <2>8, MarkersAreNoRows
<1>3. CASE ~Refused /\ w.attachTo = Unsent
  <2>1. PutCity(L, c, w) = Commit(L, <<upserted>>) BY <1>3 DEF PutCity
  <2> HIDE DEF upserted
  <2>2. PutCity(L, c, w) = [log |-> upserted, answer |-> "ok"] BY <1>2, <1>3, <2>1, OneServed
  <2> QED BY <2>2
<1>4. CASE ~Refused /\ w.attachTo # Unsent
  <2> DEFINE t == w.attachTo
             f == L.tripCities[t]
             g == Appended(f, c)
  <2>1. PutCity(L, c, w) = Commit(L, <<upserted, attached>>) BY <1>4 DEF PutCity
  <2>2. CoverCommitted(L, w.cover) /\ t \in Trips /\ L.trips[t] # NoRow BY <1>4 DEF CityWrites, Body
  <2>3. f \in [Cities -> Opt(Nat)] /\ Dense(f) BY <1>0, <2>2 DEF Tables, Numbered
  <2>4. Distinct(f) BY <2>2 DEF Lawful, Uniques, Itinerary, Distinct
  <2> HIDE DEF upserted, attached
  <2>5. upserted \in Tables BY <1>2, <2>2 DEF Lawful
  <2>6. Lawful(attached) /\ attached.visits = upserted.visits
    <3>1. CASE c \in Itinerary(upserted, t)
      <4>1. attached = upserted BY <3>1 DEF attached, AttachCity
      <4> QED BY <1>2, <2>2, <4>1
    <3>2. CASE c \notin Itinerary(upserted, t)
      <4>1. f[c] = None /\ Itinerary(upserted, t) = {e \in Cities : f[e] # None}
        BY <1>2, <2>2, <3>2 DEF Itinerary
      <4>2. {upserted.tripCities[t][d] : d \in Itinerary(upserted, t)}
                = {f[d] : d \in {e \in Cities : f[e] # None}}
        BY <1>2, <2>2, <4>1
      <4>3. upserted.tripCities[t] = f BY <1>2, <2>2
      <4>4. attached = [upserted EXCEPT !.tripCities = [upserted.tripCities EXCEPT ![t] = g]]
        BY <3>2, <4>2, <4>3 DEF attached, AttachCity, Appended
      <4> HIDE DEF f
      <4>5. /\ g \in [Cities -> Opt(Nat)] /\ Distinct(g)
            /\ \A d \in Cities : d # c => g[d] = f[d]
        BY <2>3, <2>4, <4>1, AppendDistinct
      <4> HIDE DEF g
      <4>6. ASSUME NEW d \in Cities, g[d] # None PROVE upserted.cities[d] # NoRow
        <5>1. CASE d = c BY <1>2, <2>2, <5>1
        <5>2. CASE d # c
          <6>1. f[d] # None BY <4>5, <4>6, <5>2
          <6>2. L.cities[d] # NoRow BY <2>2, <6>1 DEF Lawful, References, Itinerary, f
          <6> QED BY <1>2, <2>2, <6>2
        <5> QED BY <5>1, <5>2
      <4>7. upserted.trips[t] # NoRow BY <1>2, <2>2
      <4>8. Lawful(attached) BY <1>2, <2>2, <4>4, <4>5, <4>6, <4>7, ItineraryWritten DEF Distinct
      <4>9. attached.visits = upserted.visits BY <2>5, <4>4, OneTable
      <4> QED BY <4>8, <4>9
    <3> QED BY <3>1, <3>2
  <2>7. PutCity(L, c, w) = [log |-> attached, answer |-> "ok"] BY <1>2, <2>1, <2>2, <2>6, TwoServed
  <2> QED BY <2>7
<1> QED BY <1>1, <1>3, <1>4

\* The notes of an array, none of them empty.
Noted(visits) == \A i \in DOMAIN visits : ~Blank(visits[i].note)

\* A place's row that PutPlace's rules let through is lawful.
LEMMA PlaceUpserted ==
    ASSUME NEW L, Lawful(L), NEW p \in Places, NEW w \in PlaceWrites, ~BlankSent(w.plan),
           CoverCommitted(L, w.cover), ~(L.places[p] = NoRow /\ w.city = Unsent)
    PROVE  LET old == IF L.places[p] = NoRow THEN [city |-> None, plan |-> None, cover |-> None]
                      ELSE L.places[p]
               row == [city |-> Merge(w.city, old.city), plan |-> Merge(w.plan, old.plan),
                       cover |-> Merge(w.cover, old.cover)]
               M == [L EXCEPT !.places = [L.places EXCEPT ![p] = row]]
           IN  L.cities[row.city] # NoRow =>
                   /\ Lawful(M) /\ M.visits = L.visits /\ M.trips = L.trips /\ M.places[p] # NoRow
<1> DEFINE old == IF L.places[p] = NoRow THEN [city |-> None, plan |-> None, cover |-> None]
                  ELSE L.places[p]
           row == [city |-> Merge(w.city, old.city), plan |-> Merge(w.plan, old.plan),
                   cover |-> Merge(w.cover, old.cover)]
           M == [L EXCEPT !.places = [L.places EXCEPT ![p] = row]]
<1>0. L \in Tables /\ L.places \in [Places -> PlaceRow \cup {NoRow}] BY TableFields DEF Lawful
<1>1. /\ old.plan \in Opt(Texts) /\ old.cover \in Opt(Media) /\ HasObject(L, old.cover)
      /\ L.places[p] # NoRow => old.city \in Cities
  <2>1. CASE L.places[p] = NoRow BY <2>1 DEF Opt, HasObject
  <2>2. CASE L.places[p] # NoRow BY <1>0, <2>2 DEF PlaceRow, Lawful, References
  <2> QED BY <2>1, <2>2
<1>2. ~Blank(old.plan)
  <2>1. CASE L.places[p] = NoRow
    <3>1. old.plan = None BY <2>1
    <3> QED BY <3>1, MarkersAreNoRows, Zenon DEF Blank
  <2>2. CASE L.places[p] # NoRow BY <2>2 DEF Lawful, Checks, Blank
  <2> QED BY <2>1, <2>2
<1>3. w.city \in Body(Cities) /\ w.plan \in Nullable(Texts) /\ w.cover \in Nullable(Covers)
  BY DEF PlaceWrites
<1> HIDE DEF old
<1>4. Merge(w.city, old.city) \in Cities BY <1>1, <1>3 DEF Merge, Body
<1>5. Merge(w.plan, old.plan) \in Opt(Texts) /\ Merge(w.cover, old.cover) \in Opt(Media)
  BY <1>1, <1>3, MergedColumn, CoversAreMedia
<1>6. row \in PlaceRow BY <1>4, <1>5 DEF PlaceRow
<1>7. HasObject(L, row.cover) BY <1>1, CoverStored
<1>8. ~Blank(row.plan) BY <1>2 DEF Merge, BlankSent
<1> HIDE DEF row
<1>9. L.cities[row.city] # NoRow => Lawful(M) BY <1>6, <1>7, <1>8, PlaceWritten DEF Blank
<1>10. M.visits = L.visits /\ M.trips = L.trips /\ M.places = [L.places EXCEPT ![p] = row]
  BY <1>0 DEF Tables
<1>11. M.places[p] = row BY <1>0, <1>10
<1>12. M.places[p] # NoRow BY <1>6, <1>11, MarkersAreNoRows
<1> HIDE DEF M
<1> QED BY <1>9, <1>10, <1>12 DEF M, row, old

\* Replacing a place's occasions goes through: parked, the stored ordinals are
\* out of the array's way, whatever order its rows are written in.
LEMMA OccasionsReplaced ==
    ASSUME NEW L, Lawful(L), IsFiniteSet(Held(L)), NEW p \in Places, L.places[p] # NoRow,
           NEW n \in Nat, NEW visits \in [1 .. n -> VisitWrites], Noted(visits),
           TripsPresent(L, visits), ~HeldElsewhere(L, p, visits)
    PROVE  LET parked   == ParkVisits(L, p, n)
               replaced == UpsertVisits(parked, p, visits)
               final    == DeleteDeparted(replaced, p, visits)
           IN  /\ Lawful(parked) /\ Lawful(replaced) /\ Lawful(final)
               /\ RowByRow(L, parked) /\ RowByRow(parked, replaced) /\ RowByRow(replaced, final)
<1> DEFINE parked   == ParkVisits(L, p, n)
           replaced == UpsertVisits(parked, p, visits)
           final    == DeleteDeparted(replaced, p, visits)
<1>1. /\ Lawful(parked) /\ RowByRow(L, parked) /\ OnlyVisits(L, parked)
      /\ \A v \in Visits : v \notin OccasionsAt(L, p) => parked.visits[v] = L.visits[v]
      /\ \A v \in OccasionsAt(L, p) :
            ButForOrdinal(parked.visits[v], L.visits[v]) /\ parked.visits[v].ordinal >= n
  BY Parked
<1> HIDE DEF parked
<1>2. \A v \in Visits : parked.visits[v] # NoRow => L.visits[v] # NoRow /\ parked.visits[v].place = L.visits[v].place
  <2> SUFFICES ASSUME NEW v \in Visits, parked.visits[v] # NoRow
               PROVE  L.visits[v] # NoRow /\ parked.visits[v].place = L.visits[v].place
    OBVIOUS
  <2>1. CASE v \in OccasionsAt(L, p) BY <1>1, <2>1 DEF OccasionsAt, ButForOrdinal
  <2>2. CASE v \notin OccasionsAt(L, p) BY <1>1, <2>2
  <2> QED BY <2>1, <2>2
<1>3. parked.places[p] # NoRow /\ TripsPresent(parked, visits) BY <1>1 DEF OnlyVisits, TripsPresent
<1>4. ~HeldElsewhere(parked, p, visits)
  <2>1. \A v \in VisitIds(visits) : v \in Visits BY DEF VisitIds, VisitWrites
  <2> QED BY <1>2, <2>1 DEF HeldElsewhere
<1>5. \A v \in OccasionsAt(parked, p) : parked.visits[v].ordinal >= n
  BY <1>1, <1>2 DEF OccasionsAt
<1>6. \A i \in 1 .. n : visits[i].note # ""
  <2>1. DOMAIN visits = 1 .. n OBVIOUS
  <2> QED BY <2>1, Zenon DEF Noted, Blank
<1>7. Lawful(replaced) /\ RowByRow(parked, replaced)
  BY <1>1, <1>3, <1>4, <1>5, <1>6, Upserted
<1> HIDE DEF replaced
<1>8. replaced \in Tables BY <1>7 DEF Lawful
<1> DEFINE gone == OccasionsAt(replaced, p) \ VisitIds(visits)
<1>9. final = DeleteVisits(replaced, gone) BY DEF DeleteDeparted
<1> HIDE DEF final, gone
<1>10. Lawful(final) BY <1>7, <1>9, DeleteVisitsLawful
<1>11. VisitsGone(replaced, final, gone) BY <1>8, <1>9, VisitsDeleted
<1>12. RowByRow(replaced, final) BY <1>11, QuietRows DEF VisitsGone
<1> QED BY <1>1, <1>7, <1>10, <1>12 DEF parked, replaced, final

\* PutPlace's rules leave the schema nothing to refuse but an empty plan or note.
LEMMA PutPlaceServed ==
    ASSUME NEW L, Lawful(L), IsFiniteSet(Held(L)), NEW p \in Places, NEW w \in PlaceWrites,
           ~BlankSent(w.plan), w.visits = Unsent \/ Noted(w.visits)
    PROVE  PutPlace(L, p, w).answer # "constraint"
<1> DEFINE old == IF L.places[p] = NoRow THEN [city |-> None, plan |-> None, cover |-> None]
                  ELSE L.places[p]
           row == [city |-> Merge(w.city, old.city), plan |-> Merge(w.plan, old.plan),
                   cover |-> Merge(w.cover, old.cover)]
           upserted == [L EXCEPT !.places = [L.places EXCEPT ![p] = row]]
           parked   == ParkVisits(upserted, p, Len(w.visits))
           replaced == UpsertVisits(parked, p, w.visits)
           final    == DeleteDeparted(replaced, p, w.visits)
           Refused == \/ L.places[p] = NoRow /\ (w.city = Unsent \/ ~w.complete)
                      \/ L.cities[row.city] = NoRow
                      \/ ~CoverCommitted(L, w.cover)
                      \/ w.visits # Unsent /\ ~VisitsWritable(L, p, w.visits)
<1>1. CASE Refused
  <2>1. PutPlace(L, p, w) = Refuse(L, "invalid") BY <1>1 DEF PutPlace
  <2> QED BY <2>1, RefuseLog
<1>2. ASSUME ~Refused
      PROVE  /\ Lawful(upserted) /\ upserted.visits = L.visits /\ upserted.trips = L.trips
             /\ upserted.places[p] # NoRow
  <2>1. /\ CoverCommitted(L, w.cover) /\ L.cities[row.city] # NoRow
        /\ ~(L.places[p] = NoRow /\ w.city = Unsent)
    BY <1>2
  <2> QED BY <2>1, PlaceUpserted
<1>3. CASE ~Refused /\ w.visits \in {Unsent, <<>>}
  <2>1. PutPlace(L, p, w) = Commit(L, <<upserted>>) BY <1>3 DEF PutPlace
  <2>2. Lawful(upserted) /\ upserted.visits = L.visits BY <1>2, <1>3
  <2> HIDE DEF upserted
  <2>3. PutPlace(L, p, w) = [log |-> upserted, answer |-> "ok"] BY <2>1, <2>2, OneServed
  <2> QED BY <2>3
<1>4. CASE ~Refused /\ w.visits \notin {Unsent, <<>>}
  <2>1. PutPlace(L, p, w) = Commit(L, <<upserted, parked, replaced, final>>) BY <1>4 DEF PutPlace
  <2>2. /\ Lawful(upserted) /\ upserted.visits = L.visits /\ upserted.trips = L.trips
        /\ upserted.places[p] # NoRow
    BY <1>2, <1>4
  <2>3. VisitsWritable(L, p, w.visits) /\ Noted(w.visits) BY <1>4
  <2>4. w.visits \in BoundedSeq(VisitWrites, MaxVisits) BY <1>4 DEF PlaceWrites, Body
  <2>5. Len(w.visits) \in Nat /\ w.visits \in [1 .. Len(w.visits) -> VisitWrites]
    BY <2>4, ArrayOf, BoundsNat
  <2> HIDE DEF upserted
  <2>6. TripsPresent(upserted, w.visits) /\ ~HeldElsewhere(upserted, p, w.visits)
    BY <1>4, <2>2, <2>3 DEF VisitsWritable, TripsPresent, HeldElsewhere
  <2>7. IsFiniteSet(Held(upserted)) BY <2>2 DEF Held
  <2>8. /\ Lawful(parked) /\ Lawful(replaced) /\ Lawful(final)
        /\ RowByRow(upserted, parked) /\ RowByRow(parked, replaced) /\ RowByRow(replaced, final)
    BY <2>2, <2>3, <2>5, <2>6, <2>7, OccasionsReplaced
  <2>9. RowByRow(L, upserted) BY <2>2, QuietRows
  <2> HIDE DEF parked, replaced, final
  <2>10. PutPlace(L, p, w) = [log |-> final, answer |-> "ok"]
    BY <2>1, <2>2, <2>8, <2>9, FourCommits
  <2> QED BY <2>10
<1> QED BY <1>1, <1>3, <1>4

\* A caption as it is stored is not empty.
LEMMA CaptionStored ==
    ASSUME NEW x \in Nullable(Texts), NEW y \in Opt(Texts), ~Blank(y)
    PROVE  LET z == Merge(StoredCaption(x), y) IN z \in Opt(Texts) /\ ~Blank(z)
<1>1. StoredCaption(x) \in Body(Opt(Texts)) /\ ~Blank(StoredCaption(x))
  <2>1. CASE Blank(x)
    <3>1. StoredCaption(x) = None BY <2>1, Zenon DEF StoredCaption, Blank
    <3>2. ~Blank(None) BY MarkersAreNoRows, Zenon DEF Blank
    <3> QED BY <3>1, <3>2 DEF Body, Opt
  <2>2. CASE ~Blank(x)
    <3>1. StoredCaption(x) = x BY <2>2, Zenon DEF StoredCaption, Blank
    <3> QED BY <2>2, <3>1 DEF Nullable, Body, Opt
  <2> QED BY <2>1, <2>2
<1> HIDE DEF StoredCaption
<1> QED BY <1>1 DEF Merge, Body

\* A photograph's columns before anything is known of what they name.
AnyPhoto == [trip : Opt(Trips), city : Opt(Cities), place : Opt(Places), visit : Opt(Visits),
             asset : Opt(Media), caption : Opt(Texts), filedLater : Opt(Laters)]

\* PutPhoto's rules leave the schema nothing to refuse: StoredCaption sees to
\* the empty caption.
LEMMA PutPhotoServed ==
    ASSUME NEW L, Lawful(L), NEW h \in Photos, NEW w \in PhotoWrites
    PROVE  PutPhoto(L, h, w).answer # "constraint"
<1> DEFINE old == IF L.photos[h] = NoRow THEN NewPhoto ELSE L.photos[h]
           row == [old EXCEPT !.trip = Merge(w.trip, old.trip), !.city = Merge(w.city, old.city),
                              !.asset = Merge(w.asset, old.asset),
                              !.caption = Merge(StoredCaption(w.caption), old.caption),
                              !.filedLater = Merge(w.filedLater, old.filedLater)]
           f == [L.photos EXCEPT ![h] = row]
           M == [L EXCEPT !.photos = f]
           Refused == \/ L.photos[h] = NoRow /\ (Unsent \in {w.trip, w.city, w.asset} \/ ~w.takenAt)
                      \/ L.trips[row.trip] = NoRow
                      \/ L.cities[row.city] = NoRow
                      \/ w.asset # Unsent /\ L.media[w.asset] # "committed"
<1>0. L \in Tables /\ L.photos \in [Photos -> PhotoRow \cup {NoRow}] BY TableFields DEF Lawful
<1>1. CASE Refused
  <2>1. PutPhoto(L, h, w) = Refuse(L, "invalid") BY <1>1 DEF PutPhoto
  <2> QED BY <2>1, RefuseLog
<1>2. CASE ~Refused
  <2>1. PutPhoto(L, h, w) = Commit(L, <<M>>) BY <1>2 DEF PutPhoto
  <2>2. /\ w.trip \in Body(Trips) /\ w.city \in Body(Cities) /\ w.asset \in Body(Media)
        /\ w.caption \in Nullable(Texts) /\ w.filedLater \in Nullable(Laters)
    BY DEF PhotoWrites
  <2>3. /\ old.place \in Opt(Places) /\ old.visit \in Opt(Visits)
        /\ old.caption \in Opt(Texts) /\ old.filedLater \in Opt(Laters)
        /\ L.photos[h] # NoRow => old.trip \in Trips /\ old.city \in Cities /\ old.asset \in Media
        /\ old \in AnyPhoto
    <3>1. CASE L.photos[h] = NoRow BY <3>1 DEF NewPhoto, Opt, AnyPhoto
    <3>2. CASE L.photos[h] # NoRow BY <1>0, <3>2 DEF PhotoRow, Opt, AnyPhoto
    <3> QED BY <3>1, <3>2
  <2>4. /\ old.place = None \/ L.places[old.place] # NoRow
        /\ old.visit = None \/ L.visits[old.visit] # NoRow
        /\ L.photos[h] # NoRow => HasObject(L, old.asset)
    <3>1. CASE L.photos[h] = NoRow BY <3>1 DEF NewPhoto
    <3>2. CASE L.photos[h] # NoRow BY <3>2 DEF Lawful, References
    <3> QED BY <3>1, <3>2
  <2>5. ~Blank(old.caption)
    <3>1. CASE L.photos[h] = NoRow
      <4>1. old.caption = None BY <3>1 DEF NewPhoto
      <4> QED BY <4>1, MarkersAreNoRows, Zenon DEF Blank
    <3>2. CASE L.photos[h] # NoRow BY <3>2 DEF Lawful, Checks, Blank
    <3> QED BY <3>1, <3>2
  <2>6. /\ row.trip = Merge(w.trip, old.trip) /\ row.city = Merge(w.city, old.city)
        /\ row.place = old.place /\ row.visit = old.visit /\ row.asset = Merge(w.asset, old.asset)
        /\ row.caption = Merge(StoredCaption(w.caption), old.caption)
        /\ row.filedLater = Merge(w.filedLater, old.filedLater)
    <3> HIDE DEF old
    <3> QED BY <2>3 DEF AnyPhoto
  <2>7. L.photos[h] = NoRow => w.trip # Unsent /\ w.city # Unsent /\ w.asset # Unsent BY <1>2
  <2>8. L.trips[row.trip] # NoRow /\ L.cities[row.city] # NoRow BY <1>2
  <2>9. w.asset # Unsent => L.media[w.asset] = "committed" BY <1>2
  <2> HIDE DEF old
  <2>10. /\ Merge(w.trip, old.trip) \in Trips /\ Merge(w.city, old.city) \in Cities
         /\ Merge(w.asset, old.asset) \in Media
    BY <2>2, <2>3, <2>7 DEF Merge, Body
  <2>11. LET z == Merge(StoredCaption(w.caption), old.caption) IN z \in Opt(Texts) /\ ~Blank(z)
    BY <2>2, <2>3, <2>5, CaptionStored
  <2>12. Merge(w.filedLater, old.filedLater) \in Opt(Laters) BY <2>2, <2>3, MergedColumn
  <2>13. row \in PhotoRow BY <2>3, <2>10, <2>11, <2>12 DEF PhotoRow, AnyPhoto
  <2> HIDE DEF row
  <2>14. HasObject(L, row.asset)
    <3>1. CASE w.asset = Unsent BY <2>4, <2>6, <2>7, <3>1 DEF Merge
    <3>2. CASE w.asset # Unsent BY <2>6, <2>9, <3>2 DEF Merge, HasObject
    <3> QED BY <3>1, <3>2
  <2>15. f \in [Photos -> PhotoRow \cup {NoRow}] /\ \A g \in Photos : f[g] = IF g = h THEN row ELSE L.photos[g]
    BY <1>0, <2>13
  <2>16. M.visits = L.visits BY <1>0, OneTable
  <2> HIDE DEF f
  <2>17. ASSUME NEW g \in Photos, f[g] \notin {NoRow, L.photos[g]}
         PROVE  /\ L.trips[f[g].trip] # NoRow /\ L.cities[f[g].city] # NoRow
                /\ f[g].place = None \/ L.places[f[g].place] # NoRow
                /\ f[g].visit = None \/ L.visits[f[g].visit] # NoRow
                /\ HasObject(L, f[g].asset) /\ ~Blank(f[g].caption)
    <3>1. f[g] = row BY <2>15, <2>17
    <3>2. ~Blank(row.caption) BY <2>6, <2>11
    <3> QED BY <2>4, <2>6, <2>8, <2>14, <3>1, <3>2
  <2>18. Lawful(M) BY <2>15, <2>17, PhotosWritten DEF Blank
  <2> HIDE DEF M
  <2>19. PutPhoto(L, h, w) = [log |-> M, answer |-> "ok"] BY <2>1, <2>16, <2>18, OneServed
  <2> QED BY <2>19
<1> QED BY <1>1, <1>2

\* Deleting a photograph goes through.
LEMMA DeletePhotoServed ==
    ASSUME NEW L, Lawful(L), NEW h \in Photos
    PROVE  DeletePhoto(L, h).answer # "constraint"
<1> DEFINE M == DeletePhotos(L, {h})
<1>0. L \in Tables BY DEF Lawful
<1>1. Lawful(M) BY DeletePhotosLawful
<1>2. M.visits = L.visits BY <1>0 DEF DeletePhotos, Tables
<1>3. DeletePhoto(L, h) \in {Refuse(L, "miss"), Commit(L, <<M>>)} BY DEF DeletePhoto
<1> HIDE DEF M
<1>4. Commit(L, <<M>>) = [log |-> M, answer |-> "ok"] BY <1>1, <1>2, OneServed
<1> QED BY <1>3, <1>4, RefuseLog

\* Snoozing writes a column the schema asks nothing of.
LEMMA SnoozePhotosServed ==
    ASSUME NEW L, Lawful(L), NEW S, NEW until \in Laters
    PROVE  SnoozePhotos(L, S, until).answer # "constraint"
<1> DEFINE Later(g) == [L.photos[g] EXCEPT !.filedLater = until]
           f == [g \in Photos |-> IF g \in S /\ L.photos[g] # NoRow THEN Later(g) ELSE L.photos[g]]
           M == [L EXCEPT !.photos = f]
<1>0. L \in Tables /\ L.photos \in [Photos -> PhotoRow \cup {NoRow}] BY TableFields DEF Lawful
<1>1. SnoozePhotos(L, S, until) \in {Refuse(L, "miss"), Commit(L, <<M>>)} BY DEF SnoozePhotos
<1>2. \A g \in Photos : L.photos[g] # NoRow =>
         /\ Later(g) \in PhotoRow /\ Later(g).trip = L.photos[g].trip /\ Later(g).city = L.photos[g].city
         /\ Later(g).place = L.photos[g].place /\ Later(g).visit = L.photos[g].visit
         /\ Later(g).asset = L.photos[g].asset /\ Later(g).caption = L.photos[g].caption
  BY <1>0 DEF PhotoRow, Opt
<1> HIDE DEF Later
<1>3. /\ f \in [Photos -> PhotoRow \cup {NoRow}]
      /\ \A g \in Photos : f[g] \notin {NoRow, L.photos[g]} => f[g] = Later(g) /\ L.photos[g] # NoRow
  BY <1>0, <1>2
<1>4. M.visits = L.visits BY <1>0, OneTable
<1> HIDE DEF f
<1>5. \A g \in Photos : L.photos[g] # NoRow => ~Blank(L.photos[g].caption) BY DEF Lawful, Checks, Blank
<1>6. ASSUME NEW g \in Photos, f[g] \notin {NoRow, L.photos[g]}
      PROVE  /\ L.trips[f[g].trip] # NoRow /\ L.cities[f[g].city] # NoRow
             /\ f[g].place = None \/ L.places[f[g].place] # NoRow
             /\ f[g].visit = None \/ L.visits[f[g].visit] # NoRow
             /\ HasObject(L, f[g].asset) /\ ~Blank(f[g].caption)
  <2>1. f[g] = Later(g) /\ L.photos[g] # NoRow BY <1>3, <1>6
  <2>2. /\ L.trips[L.photos[g].trip] # NoRow /\ L.cities[L.photos[g].city] # NoRow
        /\ L.photos[g].place = None \/ L.places[L.photos[g].place] # NoRow
        /\ L.photos[g].visit = None \/ L.visits[L.photos[g].visit] # NoRow
        /\ HasObject(L, L.photos[g].asset)
    BY <2>1 DEF Lawful, References
  <2> QED BY <1>2, <1>5, <2>1, <2>2
<1>7. Lawful(M) BY <1>3, <1>6, PhotosWritten DEF Blank
<1> HIDE DEF M
<1>8. Commit(L, <<M>>) = [log |-> M, answer |-> "ok"] BY <1>4, <1>7, OneServed
<1> QED BY <1>1, <1>8, RefuseLog

\* PutWalk's rules leave the schema nothing to refuse.
LEMMA PutWalkServed ==
    ASSUME NEW L, Lawful(L), NEW k \in Walks, NEW w \in WalkWrites
    PROVE  PutWalk(L, k, w).answer # "constraint"
<1> DEFINE old == IF L.walks[k] = NoRow THEN [trip |-> None, city |-> None, dismissed |-> FALSE]
                  ELSE L.walks[k]
           row == [trip |-> Merge(w.trip, old.trip), city |-> Merge(w.city, old.city),
                   dismissed |-> Merge(w.dismissed, old.dismissed)]
           M == [L EXCEPT !.walks = [L.walks EXCEPT ![k] = row]]
           Refused == \/ L.walks[k] = NoRow /\ (Unsent \in {w.trip, w.city} \/ ~w.complete)
                      \/ L.trips[row.trip] = NoRow
                      \/ L.cities[row.city] = NoRow
<1>0. L \in Tables /\ L.walks \in [Walks -> WalkRow \cup {NoRow}] BY OtherFields DEF Lawful
<1>1. CASE Refused
  <2>1. PutWalk(L, k, w) = Refuse(L, "invalid") BY <1>1 DEF PutWalk
  <2> QED BY <2>1, RefuseLog
<1>2. CASE ~Refused
  <2>1. PutWalk(L, k, w) = Commit(L, <<M>>) BY <1>2 DEF PutWalk
  <2>2. w.trip \in Body(Trips) /\ w.city \in Body(Cities) /\ w.dismissed \in Body(Flags)
    BY DEF WalkWrites
  <2>3. old.dismissed \in BOOLEAN /\ (L.walks[k] # NoRow => old.trip \in Trips /\ old.city \in Cities)
    <3>1. CASE L.walks[k] = NoRow BY <3>1
    <3>2. CASE L.walks[k] # NoRow BY <1>0, <3>2 DEF WalkRow
    <3> QED BY <3>1, <3>2
  <2>4. L.walks[k] = NoRow => w.trip # Unsent /\ w.city # Unsent BY <1>2
  <2>5. L.trips[row.trip] # NoRow /\ L.cities[row.city] # NoRow BY <1>2
  <2> HIDE DEF old
  <2>6. Merge(w.trip, old.trip) \in Trips /\ Merge(w.city, old.city) \in Cities
    BY <2>2, <2>3, <2>4 DEF Merge, Body
  <2>7. Merge(w.dismissed, old.dismissed) \in BOOLEAN BY <2>2, <2>3, FlagsBoolean, Zenon DEF Merge, Body
  <2>8. row \in WalkRow BY <2>6, <2>7 DEF WalkRow
  <2> HIDE DEF row
  <2>9. Lawful(M) BY <2>5, <2>8, WalkWritten
  <2>10. M.visits = L.visits BY <1>0, OneTable
  <2> HIDE DEF M
  <2>11. PutWalk(L, k, w) = [log |-> M, answer |-> "ok"] BY <2>1, <2>9, <2>10, OneServed
  <2> QED BY <2>11
<1> QED BY <1>1, <1>2

\* Share flags are three booleans the schema asks nothing else of.
LEMMA FlagsWritten ==
    ASSUME NEW L, Lawful(L), NEW t \in Trips, L.trips[t] # NoRow,
           NEW x \in BOOLEAN, NEW y \in BOOLEAN, NEW z \in BOOLEAN
    PROVE  LET M == SetFlags(L, t, x, y, z) IN Lawful(M) /\ M.visits = L.visits
<1> DEFINE old == L.trips[t]
           row == [old EXCEPT !.sharePhotos = x, !.shareNotes = y, !.shareCoordinates = z]
           M == [L EXCEPT !.trips = [L.trips EXCEPT ![t] = row]]
<1>0. L \in Tables /\ old \in TripRow BY TableFields DEF Lawful
<1>1. /\ HasObject(L, old.cover)
      /\ old.start = None \/ old.end = None \/ old.start <= old.end
      /\ ~Blank(old.summary)
  <2>1. HasObject(L, old.cover) BY DEF Lawful, References
  <2>2. old.start = None \/ old.end = None \/ old.start <= old.end BY DEF Lawful, Checks
  <2>3. ~Blank(old.summary) BY DEF Lawful, Checks, Blank
  <2> QED BY <2>1, <2>2, <2>3
<1> HIDE DEF old
<1>2. row \in TripRow BY <1>0 DEF TripRow
<1>3. row.cover = old.cover /\ row.start = old.start /\ row.end = old.end /\ row.summary = old.summary
  BY <1>0 DEF TripRow
<1>4. SetFlags(L, t, x, y, z) = M BY DEF SetFlags, old
<1> HIDE DEF row
<1>5. HasObject(L, row.cover) /\ (row.start = None \/ row.end = None \/ row.start <= row.end)
  BY <1>1, <1>3
<1>6. ~Blank(row.summary) BY <1>1, <1>3
<1>7. Lawful(M) BY <1>2, <1>5, <1>6, TripWritten DEF Blank
<1>8. M.visits = L.visits BY <1>0, OneTable
<1> HIDE DEF M
<1> QED BY <1>4, <1>7, <1>8

\* SetShareOptions goes through.
LEMMA SetShareOptionsServed ==
    ASSUME NEW L, Lawful(L), NEW t \in Trips, NEW w \in ShareWrites
    PROVE  SetShareOptions(L, t, w).answer # "constraint"
<1> DEFINE x == Merge(w.photos, L.trips[t].sharePhotos)
           y == Merge(w.notes, L.trips[t].shareNotes)
           z == Merge(w.coordinates, L.trips[t].shareCoordinates)
           M == SetFlags(L, t, x, y, z)
<1>1. CASE L.trips[t] = NoRow
  <2>1. SetShareOptions(L, t, w) = Refuse(L, "notFound") BY <1>1 DEF SetShareOptions
  <2> QED BY <2>1, RefuseLog
<1>2. CASE L.trips[t] # NoRow
  <2>1. SetShareOptions(L, t, w) = Commit(L, <<M>>) BY <1>2 DEF SetShareOptions
  <2>2. w.photos \in Body(Flags) /\ w.notes \in Body(Flags) /\ w.coordinates \in Body(Flags)
    BY DEF ShareWrites
  <2>3. L.trips[t] \in TripRow BY <1>2, TableFields DEF Lawful
  <2>4. /\ L.trips[t].sharePhotos \in BOOLEAN /\ L.trips[t].shareNotes \in BOOLEAN
        /\ L.trips[t].shareCoordinates \in BOOLEAN
    BY <2>3 DEF TripRow
  <2>5. \A a \in Body(Flags), b \in BOOLEAN : Merge(a, b) \in BOOLEAN
    BY FlagsBoolean, Zenon DEF Merge, Body
  <2>6. x \in BOOLEAN /\ y \in BOOLEAN /\ z \in BOOLEAN BY <2>2, <2>4, <2>5, Zenon
  <2> HIDE DEF x, y, z
  <2>7. Lawful(M) /\ M.visits = L.visits BY <1>2, <2>6, FlagsWritten
  <2> HIDE DEF M
  <2>8. SetShareOptions(L, t, w) = [log |-> M, answer |-> "ok"] BY <2>1, <2>7, OneServed
  <2> QED BY <2>8
<1> QED BY <1>1, <1>2

\* A live link of the trip is younger than the transaction that revokes it.
MintedSince(L, t, now) == \E k \in LiveLinks(L, t) : L.links[k].created > now

\* Revoking goes through, if the link was there when the transaction began.
LEMMA RevokedLawful ==
    ASSUME NEW L, Lawful(L), NEW t, NEW now \in Moments, ~MintedSince(L, t, now)
    PROVE  Lawful(RevokeLive(L, t, now))
<1> DEFINE M == RevokeLive(L, t, now)
           f == M.links
<1>0. L \in Tables BY DEF Lawful
<1>1. /\ M \in Tables /\ f \in [Tokens -> LinkRow \cup {NoRow}]
      /\ \A k \in LiveLinks(L, t) : f[k].trip = t /\ f[k].created = L.links[k].created /\ f[k].revoked = now
      /\ \A k \in Tokens : k \notin LiveLinks(L, t) => f[k] = L.links[k]
  BY LiveRevoked
<1>2. M = [L EXCEPT !.links = f] BY <1>0 DEF RevokeLive, Tables
<1> HIDE DEF M, f
<1>3. \A k \in Tokens : f[k] \notin {NoRow, L.links[k]} => L.trips[f[k].trip] # NoRow
  <2> SUFFICES ASSUME NEW k \in Tokens, f[k] \notin {NoRow, L.links[k]} PROVE L.trips[f[k].trip] # NoRow
    OBVIOUS
  <2>1. k \in LiveLinks(L, t) BY <1>1
  <2>2. f[k].trip = t /\ L.links[k] # NoRow /\ L.links[k].trip = t BY <1>1, <2>1 DEF LiveLinks
  <2> QED BY <2>2 DEF Lawful, References
<1>4. \A k \in Tokens : f[k] # NoRow /\ f[k].revoked = None => f[k] = L.links[k]
  <2>1. now # None BY MomentsOrdered, MarkersAreNoRows
  <2>2. \A k \in LiveLinks(L, t) : f[k].revoked = now BY <1>1
  <2> QED BY <1>1, <2>1, <2>2
<1>5. ASSUME NEW j \in Tokens, NEW k \in Tokens, f[j] # NoRow, f[k] # NoRow, f[j].revoked = None,
             f[k].revoked = None, f[j].trip = f[k].trip
      PROVE  j = k
  <2>1. f[j] = L.links[j] /\ f[k] = L.links[k] BY <1>4, <1>5
  <2>2. L.links[j].trip \in Trips BY <1>0, <1>5, <2>1, RowTypes
  <2>3. j \in LiveLinks(L, L.links[j].trip) /\ k \in LiveLinks(L, L.links[j].trip)
    BY <1>5, <2>1 DEF LiveLinks
  <2> QED BY <2>2, <2>3 DEF Lawful, Uniques
<1>6. \A k \in Tokens : f[k] \notin {NoRow, L.links[k]} => f[k].revoked = None \/ f[k].revoked >= f[k].created
  <2> SUFFICES ASSUME NEW k \in Tokens, f[k] \notin {NoRow, L.links[k]} PROVE f[k].revoked >= f[k].created
    OBVIOUS
  <2>1. k \in LiveLinks(L, t) BY <1>1
  <2>2. L.links[k].created \in Moments BY <1>0, <2>1, RowTypes DEF LiveLinks
  <2>3. f[k].revoked = now /\ f[k].created = L.links[k].created BY <1>1, <2>1
  <2>4. ~(L.links[k].created > now) BY <2>1 DEF MintedSince
  <2>5. now \in Nat /\ L.links[k].created \in Nat BY <2>2, MomentsOrdered
  <2>6. now >= L.links[k].created BY <2>4, <2>5
  <2> QED BY <2>3, <2>6
<1>7. Lawful([L EXCEPT !.links = f]) BY <1>1, <1>3, <1>5, <1>6, LinksWritten
<1> QED BY <1>2, <1>7 DEF M

\* So does StopSharing.
LEMMA StopSharingServed ==
    ASSUME NEW L, Lawful(L), NEW t \in Trips, NEW now \in Moments, ~MintedSince(L, t, now)
    PROVE  StopSharing(L, t, now).answer # "constraint"
<1> DEFINE M == RevokeLive(L, t, now)
           N == SetFlags(M, t, TRUE, TRUE, FALSE)
<1>1. CASE L.trips[t] = NoRow
  <2>1. StopSharing(L, t, now) = Refuse(L, "notFound") BY <1>1 DEF StopSharing
  <2> QED BY <2>1, RefuseLog
<1>2. CASE L.trips[t] # NoRow
  <2>1. StopSharing(L, t, now) = Commit(L, <<M, N>>) BY <1>2 DEF StopSharing
  <2>2. Lawful(M) /\ M.visits = L.visits /\ M.trips = L.trips
    BY RevokedLawful, LiveRevoked DEF SameFiles
  <2> HIDE DEF M
  <2>3. Lawful(N) /\ N.visits = M.visits BY <1>2, <2>2, FlagsWritten
  <2> HIDE DEF N
  <2>4. StopSharing(L, t, now) = [log |-> N, answer |-> "ok"] BY <2>1, <2>2, <2>3, TwoServed
  <2> QED BY <2>4
<1> QED BY <1>1, <1>2

\* A new link goes through if its digest is not there yet.
LEMMA NewShareLinkServed ==
    ASSUME NEW L, Lawful(L), NEW t \in Trips, NEW token \in Tokens, L.links[token] = NoRow,
           NEW now \in Moments, ~MintedSince(L, t, now)
    PROVE  NewShareLink(L, t, token, now).answer # "constraint"
<1> DEFINE M == RevokeLive(L, t, now)
           new == [trip |-> t, created |-> now, revoked |-> None]
           f == [M.links EXCEPT ![token] = new]
           N == [M EXCEPT !.links = f]
<1>1. CASE L.trips[t] = NoRow
  <2>1. NewShareLink(L, t, token, now) = Refuse(L, "notFound") BY <1>1 DEF NewShareLink
  <2> QED BY <2>1, RefuseLog
<1>2. CASE L.trips[t] # NoRow
  <2>1. NewShareLink(L, t, token, now) = Commit(L, <<M, N>>) BY <1>2 DEF NewShareLink
  <2>2. /\ Lawful(M) /\ M.visits = L.visits /\ M.trips = L.trips /\ LiveLinks(M, t) = {}
        /\ M.links \in [Tokens -> LinkRow \cup {NoRow}]
    BY RevokedLawful, LiveRevoked DEF SameFiles
  <2> HIDE DEF M
  <2>3. M \in Tables BY <2>2 DEF Lawful
  <2>4. new \in LinkRow /\ new.trip = t /\ new.revoked = None BY DEF LinkRow, Opt
  <2> HIDE DEF new
  <2>5. /\ f \in [Tokens -> LinkRow \cup {NoRow}]
        /\ \A k \in Tokens : f[k] = IF k = token THEN new ELSE M.links[k]
    BY <2>2, <2>4
  <2>6. N.visits = M.visits BY <2>3, OneTable
  <2> HIDE DEF f
  <2>7. \A k \in Tokens : f[k] \notin {NoRow, M.links[k]} => M.trips[f[k].trip] # NoRow
    BY <1>2, <2>2, <2>4, <2>5
  <2>8. \A k \in Tokens : k # token /\ f[k] # NoRow /\ f[k].revoked = None => f[k].trip # t
    BY <2>2, <2>5 DEF LiveLinks
  <2>9. ASSUME NEW j \in Tokens, NEW k \in Tokens, f[j] # NoRow, f[k] # NoRow, f[j].revoked = None,
               f[k].revoked = None, f[j].trip = f[k].trip
        PROVE  j = k
    <3>1. CASE j = token \/ k = token BY <2>4, <2>5, <2>8, <2>9, <3>1
    <3>2. CASE j # token /\ k # token
      <4>1. f[j] = M.links[j] /\ f[k] = M.links[k] BY <2>5, <3>2
      <4>2. M.links[j].trip \in Trips BY <2>3, <2>9, <4>1, RowTypes
      <4>3. j \in LiveLinks(M, M.links[j].trip) /\ k \in LiveLinks(M, M.links[j].trip)
        BY <2>9, <4>1 DEF LiveLinks
      <4> QED BY <2>2, <4>2, <4>3 DEF Lawful, Uniques
    <3> QED BY <3>1, <3>2
  <2>10. \A k \in Tokens : f[k] \notin {NoRow, M.links[k]} => f[k].revoked = None BY <2>4, <2>5
  <2>11. Lawful(N) BY <2>2, <2>5, <2>7, <2>9, <2>10, LinksWritten
  <2> HIDE DEF N
  <2>12. NewShareLink(L, t, token, now) = [log |-> N, answer |-> "ok"]
    BY <2>1, <2>2, <2>6, <2>11, TwoServed
  <2> QED BY <2>12
<1> QED BY <1>1, <1>2

\* A name goes through.
LEMMA SetTravellerNameServed ==
    ASSUME NEW L, Lawful(L), NEW name \in Names
    PROVE  SetTravellerName(L, name).answer # "constraint"
<1> DEFINE M == [L EXCEPT !.name = name]
<1>1. Lawful(M) BY NameWritten
<1>2. M.visits = L.visits BY OneTable DEF Lawful
<1>3. SetTravellerName(L, name) = Commit(L, <<M>>) BY DEF SetTravellerName
<1> HIDE DEF M
<1>4. SetTravellerName(L, name) = [log |-> M, answer |-> "ok"] BY <1>1, <1>2, <1>3, OneServed
<1> QED BY <1>4

\* Objects go through.
LEMMA MediaServed ==
    ASSUME NEW L, Lawful(L), NEW m \in Media
    PROVE  BeginMedia(L, m).answer # "constraint" /\ MarkMediaUploaded(L, m).answer # "constraint"
<1> DEFINE B == [L EXCEPT !.media = [L.media EXCEPT ![m] = "begun"]]
           C == [L EXCEPT !.media = [L.media EXCEPT ![m] = "committed"]]
<1>0. L \in Tables BY DEF Lawful
<1>1. Lawful(B) /\ Lawful(C) BY ObjectWritten
<1>2. B.visits = L.visits /\ C.visits = L.visits BY <1>0, OneTable
<1>3. BeginMedia(L, m) \in {Commit(L, <<B>>), Commit(L, <<L>>)} BY DEF BeginMedia
<1>4. MarkMediaUploaded(L, m) \in {Refuse(L, "notFound"), Commit(L, <<C>>)} BY DEF MarkMediaUploaded
<1> HIDE DEF B, C
<1>5. /\ Commit(L, <<B>>) = [log |-> B, answer |-> "ok"] /\ Commit(L, <<C>>) = [log |-> C, answer |-> "ok"]
      /\ Commit(L, <<L>>) = [log |-> L, answer |-> "ok"]
  BY <1>1, <1>2, OneServed
<1> QED BY <1>3, <1>4, <1>5, RefuseLog

-----------------------------------------------------------------------------
(***************************************************************************)
(* When the schema answers.                                                *)
(***************************************************************************)

\* A body with an empty text where a check of 0003 forbids one.
CarriesBlank(r) ==
    \/ r.op = "PutTrip" /\ BlankSent(r.body.summary)
    \/ /\ r.op = "PutPlace"
       /\ BlankSent(r.body.plan) \/ (r.body.visits # Unsent /\ ~Noted(r.body.visits))

\* A write on links that began before the link it revokes was minted.
RevokesYounger(L, r, now) ==
    r.op \in {"NewShareLink", "StopSharing"} /\ MintedSince(L, r.id, now)

\* Whatever a client sends, the schema refuses an empty text, a share token it
\* already holds or the revocation of a link the transaction is older than, and
\* nothing else.
LEMMA PerformServed ==
    ASSUME NEW L, Coherent(L), Counted(L), NEW r, Asked(r), NEW now \in Moments, ~CarriesBlank(r),
           ~(r.op = "NewShareLink" /\ L.links[r.body] # NoRow), ~RevokesYounger(L, r, now)
    PROVE  Perform(L, r, now).answer # "constraint"
<1> DEFINE A == Perform(L, r, now).answer
<1>0. Lawful(L) /\ IsFiniteSet(Held(L)) /\ Numbered(L) BY DEF Coherent, Counted
<1>a. r.op \in Ops BY AskedCases
<1>1. CASE r.op = "PutTrip"
  <2>1. r.id \in Trips /\ r.body \in TripWrites /\ A = PutTrip(L, r.id, r.body).answer
    BY <1>1, AskedCases
  <2>2. ~BlankSent(r.body.summary) BY <1>1 DEF CarriesBlank
  <2> QED BY <1>0, <2>1, <2>2, PutTripServed
<1>2. CASE r.op = "DeleteTrip"
  <2>1. r.id \in Trips /\ A = DeleteTrip(L, r.id).answer BY <1>2, AskedCases
  <2> QED BY <1>0, <2>1, DeleteTripTables
<1>3. CASE r.op = "PutCity"
  <2>1. r.id \in Cities /\ r.body \in CityWrites /\ A = PutCity(L, r.id, r.body).answer
    BY <1>3, AskedCases
  <2> QED BY <1>0, <2>1, PutCityServed
<1>4. CASE r.op = "PutPlace"
  <2>1. r.id \in Places /\ r.body \in PlaceWrites /\ A = PutPlace(L, r.id, r.body).answer
    BY <1>4, AskedCases
  <2>2. ~BlankSent(r.body.plan) /\ (r.body.visits = Unsent \/ Noted(r.body.visits))
    BY <1>4 DEF CarriesBlank
  <2> QED BY <1>0, <2>1, <2>2, PutPlaceServed
<1>5. CASE r.op = "RemovePlace"
  <2>1. r.id \in Places /\ A = RemovePlace(L, r.id, r.body).answer BY <1>5, AskedCases
  <2> QED BY <1>0, <2>1, RemovePlaceTables
<1>6. CASE r.op = "PutPhoto"
  <2>1. r.id \in Photos /\ r.body \in PhotoWrites /\ A = PutPhoto(L, r.id, r.body).answer
    BY <1>6, AskedCases
  <2> QED BY <1>0, <2>1, PutPhotoServed
<1>7. CASE r.op = "DeletePhoto"
  <2>1. r.id \in Photos /\ A = DeletePhoto(L, r.id).answer BY <1>7, AskedCases
  <2> QED BY <1>0, <2>1, DeletePhotoServed
<1>8. CASE r.op = "SnoozePhotos"
  <2>1. r.body \in Laters /\ A = SnoozePhotos(L, r.id, r.body).answer BY <1>8, AskedCases
  <2> QED BY <1>0, <2>1, SnoozePhotosServed
<1>9. CASE r.op = "RefilePhoto"
  <2>1. r.id \in Photos /\ r.body \in Refilings /\ A = RefilePhoto(L, r.id, r.body).answer
    BY <1>9, AskedCases
  <2> QED BY <1>0, <2>1, RefilePhotoTables
<1>10. CASE r.op = "PutWalk"
  <2>1. r.id \in Walks /\ r.body \in WalkWrites /\ A = PutWalk(L, r.id, r.body).answer
    BY <1>10, AskedCases
  <2> QED BY <1>0, <2>1, PutWalkServed
<1>11. CASE r.op = "SetShareOptions"
  <2>1. r.id \in Trips /\ r.body \in ShareWrites /\ A = SetShareOptions(L, r.id, r.body).answer
    BY <1>11, AskedCases
  <2> QED BY <1>0, <2>1, SetShareOptionsServed
<1>12. CASE r.op = "NewShareLink"
  <2>1. r.id \in Trips /\ r.body \in Tokens /\ A = NewShareLink(L, r.id, r.body, now).answer
    BY <1>12, AskedCases
  <2>2. L.links[r.body] = NoRow /\ ~MintedSince(L, r.id, now) BY <1>12 DEF RevokesYounger
  <2> QED BY <1>0, <2>1, <2>2, NewShareLinkServed
<1>13. CASE r.op = "StopSharing"
  <2>1. r.id \in Trips /\ A = StopSharing(L, r.id, now).answer BY <1>13, AskedCases
  <2>2. ~MintedSince(L, r.id, now) BY <1>13 DEF RevokesYounger
  <2> QED BY <1>0, <2>1, <2>2, StopSharingServed
<1>14. CASE r.op = "SetTravellerName"
  <2>1. r.body \in Names /\ A = SetTravellerName(L, r.body).answer BY <1>14, AskedCases
  <2> QED BY <1>0, <2>1, SetTravellerNameServed
<1>15. CASE r.op = "BeginMedia"
  <2>1. r.id \in Media /\ A = BeginMedia(L, r.id).answer BY <1>15, AskedCases
  <2> QED BY <1>0, <2>1, MediaServed
<1>16. CASE r.op = "MarkMediaUploaded"
  <2>1. r.id \in Media /\ A = MarkMediaUploaded(L, r.id).answer BY <1>16, AskedCases
  <2> QED BY <1>0, <2>1, MediaServed
<1> QED BY <1>a, <1>1, <1>2, <1>3, <1>4, <1>5, <1>6, <1>7, <1>8, <1>9, <1>10, <1>11, <1>12,
           <1>13, <1>14, <1>15, <1>16 DEF Ops

\* The complete list of the requests that end in a 500 for a broken constraint:
\* an empty text that no rule turns down before the checks of 0003 do, a share
\* token whose row is there already, and a revocation that would be dated before
\* its link because the transaction waited for the lock while the link was minted
\* (share_links_revoked_after_created_ck).
THEOREM ConstraintsThatAnswer ==
    Spec => [][answer' = "constraint" =>
                  \/ request'.op = "NewShareLink" /\ log.links[request'.body] # NoRow
                  \/ RevokesYounger(log, request', began')
                  \/ CarriesBlank(request')]_vars
<1> DEFINE Excused == \/ request'.op = "NewShareLink" /\ log.links[request'.body] # NoRow
                      \/ RevokesYounger(log, request', began')
                      \/ CarriesBlank(request')
<1>1. JInv /\ [Next]_vars => [answer' = "constraint" => Excused]_vars
  <2> SUFFICES ASSUME JInv, Next, answer' = "constraint" PROVE Excused OBVIOUS
  <2>1. PICK r, now : /\ now \in Moments /\ Asked(r) /\ request' = r /\ began' = now
                      /\ log' = Perform(log, r, now).log /\ answer' = Perform(log, r, now).answer
    BY StepServes
  <2>2. Coherent(log) /\ Counted(log) BY DEF JInv, IInv
  <2>3. \/ CarriesBlank(r) \/ RevokesYounger(log, r, now)
        \/ r.op = "NewShareLink" /\ log.links[r.body] # NoRow
    BY <2>1, <2>2, PerformServed
  <2> QED BY <2>1, <2>3
<1> QED BY <1>1, CountedInvariance, PTL DEF Spec

\* A client that sends no empty text carries none in any body.
LEMMA NoBlankSent ==
    ASSUME ~Blank(None), \A x \in Texts : ~Blank(x), NEW r, Asked(r)
    PROVE  ~CarriesBlank(r)
<1>1. \A x \in Nullable(Texts) : ~BlankSent(x) BY DEF Nullable, Body, Opt, BlankSent
<1>2. CASE r.op = "PutTrip"
  <2>1. r.body \in TripWrites BY <1>2, AskedCases
  <2>2. ~BlankSent(r.body.summary) BY <1>1, <2>1 DEF TripWrites
  <2> QED BY <1>2, <2>2 DEF CarriesBlank
<1>3. CASE r.op = "PutPlace"
  <2>1. r.body \in PlaceWrites BY <1>3, AskedCases
  <2>2. ~BlankSent(r.body.plan) BY <1>1, <2>1 DEF PlaceWrites
  <2>3. ASSUME r.body.visits # Unsent PROVE Noted(r.body.visits)
    <3> DEFINE s == r.body.visits
    <3>1. s \in BoundedSeq(VisitWrites, MaxVisits) BY <2>1, <2>3 DEF PlaceWrites, Body
    <3>2. s \in [1 .. Len(s) -> VisitWrites] /\ DOMAIN s = 1 .. Len(s) BY <3>1, ArrayOf, BoundsNat
    <3> HIDE DEF s
    <3>3. \A i \in DOMAIN s : s[i].note \in Opt(Texts) BY <3>2 DEF VisitWrites
    <3>4. \A x \in Opt(Texts) : ~Blank(x) BY DEF Opt
    <3>5. Noted(s) BY <3>3, <3>4 DEF Noted
    <3> QED BY <3>5 DEF s
  <2> QED BY <1>3, <2>2, <2>3 DEF CarriesBlank
<1>4. CASE r.op \notin {"PutTrip", "PutPlace"} BY <1>4 DEF CarriesBlank
<1> QED BY <1>2, <1>3, <1>4

\* Where clients send no empty text, a write that passed the Go rules is failed by
\* the schema for one of the two reasons a link gives and for no other, however
\* the rows of an UPDATE are ordered.
THEOREM RulesComeFirst ==
    ASSUME "" \notin Texts
    PROVE  Spec => ConstraintsNeverAnswer
<1>0. ~Blank(None) /\ \A x \in Texts : ~Blank(x) BY MarkersAreNoRows, Zenon DEF Blank
<1> DEFINE Excused ==
         \/ request'.op = "NewShareLink" /\ log.links[request'.body] # NoRow
         \/ /\ request'.op \in {"NewShareLink", "StopSharing"}
            /\ \E k \in LiveLinks(log, request'.id) : log.links[k].created > began'
<1>1. JInv /\ [Next]_vars => [answer' = "constraint" => Excused]_vars
  <2> SUFFICES ASSUME JInv, Next, answer' = "constraint" PROVE Excused OBVIOUS
  <2>1. PICK r, now : /\ now \in Moments /\ Asked(r) /\ request' = r /\ began' = now
                      /\ log' = Perform(log, r, now).log /\ answer' = Perform(log, r, now).answer
    BY StepServes
  <2>2. Coherent(log) /\ Counted(log) BY DEF JInv, IInv
  <2>3. ~CarriesBlank(r) BY <1>0, <2>1, NoBlankSent
  <2>4. RevokesYounger(log, r, now) \/ (r.op = "NewShareLink" /\ log.links[r.body] # NoRow)
    BY <2>1, <2>2, <2>3, PerformServed
  <2> QED BY <2>1, <2>4 DEF RevokesYounger, MintedSince
<1> QED BY <1>1, CountedInvariance, PTL DEF Spec, ConstraintsNeverAnswer

-----------------------------------------------------------------------------
(***************************************************************************)
(* Retries: the second run of a request that was answered ok finds every   *)
(* statement writing what the log already holds.                           *)
(***************************************************************************)

\* A result that leaves the log as it was and is no failure of the schema.
Settled(N, result) == result.log = N /\ result.answer # "constraint"

LEMMA RefusalSettles ==
    ASSUME NEW N, NEW why, why # "constraint"
    PROVE  Settled(N, Refuse(N, why))
BY RefuseLog DEF Settled

\* A transaction whose statements write the log as it stands changes nothing:
\* with one statement,
LEMMA OneSettles ==
    ASSUME NEW N, Lawful(N)
    PROVE  Settled(N, Commit(N, <<N>>))
<1>1. Commit(N, <<N>>) = [log |-> N, answer |-> "ok"] BY OneServed
<1> QED BY <1>1 DEF Settled

\* and with two.
LEMMA TwoSettle ==
    ASSUME NEW N, Lawful(N)
    PROVE  Settled(N, Commit(N, <<N, N>>))
<1>1. Commit(N, <<N, N>>) = [log |-> N, answer |-> "ok"] BY TwoServed
<1> QED BY <1>1 DEF Settled

\* What was answered ok is the log the last statement wrote: with one statement,
LEMMA OneWrote ==
    ASSUME NEW L, NEW a, NEW R, R = Commit(L, <<a>>), R.answer = "ok"
    PROVE  R.log = a /\ Lawful(a)
<1>1. CASE R = [log |-> L, answer |-> "constraint"] BY <1>1
<1>2. CASE R = [log |-> a, answer |-> "ok"] /\ Lawful(a) BY <1>2
<1> QED BY <1>1, <1>2, OneStatement

\* with two,
LEMMA TwoWrote ==
    ASSUME NEW L, NEW a, NEW b, NEW R, R = Commit(L, <<a, b>>), R.answer = "ok"
    PROVE  R.log = b /\ Lawful(a) /\ Lawful(b)
<1>1. CASE R = [log |-> L, answer |-> "constraint"] BY <1>1
<1>2. CASE R = [log |-> b, answer |-> "ok"] /\ Lawful(a) /\ Lawful(b) BY <1>2
<1> QED BY <1>1, <1>2, TwoStatements

\* and with four.
LEMMA FourWrote ==
    ASSUME NEW L, NEW a, NEW b, NEW c, NEW d, NEW R, R = Commit(L, <<a, b, c, d>>), R.answer = "ok"
    PROVE  R.log = d /\ Lawful(a) /\ Lawful(b) /\ Lawful(c) /\ Lawful(d)
<1>1. CASE R = [log |-> L, answer |-> "constraint"] BY <1>1
<1>2. CASE /\ R = [log |-> d, answer |-> "ok"]
           /\ Lawful(a) /\ Lawful(b) /\ Lawful(c) /\ Lawful(d)
  BY <1>2
<1> QED BY <1>1, <1>2, FourStatements

\* Writing a table as it stands writes nothing.
LEMMA SameTables ==
    ASSUME NEW N \in Tables
    PROVE  /\ [N EXCEPT !.name = N.name] = N
           /\ [N EXCEPT !.trips = N.trips] = N
           /\ [N EXCEPT !.tripCities = N.tripCities] = N
           /\ [N EXCEPT !.cities = N.cities] = N
           /\ [N EXCEPT !.places = N.places] = N
           /\ [N EXCEPT !.visits = N.visits] = N
           /\ [N EXCEPT !.photos = N.photos] = N
           /\ [N EXCEPT !.walks = N.walks] = N
           /\ [N EXCEPT !.links = N.links] = N
           /\ [N EXCEPT !.media = N.media] = N
BY DEF Tables

\* Writing a row as it stands writes nothing.
LEMMA SameRow ==
    ASSUME NEW S, NEW T, NEW f \in [S -> T], NEW x \in S
    PROVE  [f EXCEPT ![x] = f[x]] = f
OBVIOUS

\* A column sent twice is the column sent once.
LEMMA MergedTwice ==
    ASSUME NEW x, NEW y
    PROVE  Merge(x, Merge(x, y)) = Merge(x, y)
BY DEF Merge

\* The statement that upserts a trip.
TripPut(M, t, w) ==
    LET old == BeforeTrip(M, t)
    IN  [M EXCEPT !.trips = [M.trips EXCEPT ![t] =
            [old EXCEPT !.start = Merge(w.start, old.start), !.end = Merge(w.end, old.end),
                        !.summary = Merge(w.summary, old.summary),
                        !.cover = Merge(w.cover, old.cover)]]]

\* PutTrip refuses, or runs it, or runs it and replaces the itinerary.
LEMMA PutTripRuns ==
    ASSUME NEW M, NEW t, NEW w
    PROVE  \/ PutTrip(M, t, w) = Refuse(M, "invalid")
           \/ PutTrip(M, t, w) = Commit(M, <<TripPut(M, t, w)>>)
           \/ /\ w.cityIds # Unsent
              /\ PutTrip(M, t, w)
                   = Commit(M, <<TripPut(M, t, w), ReplaceTripCities(TripPut(M, t, w), t, w.cityIds)>>)
<1>1. CASE ~TripWritable(M, t, w) BY <1>1 DEF PutTrip
<1>2. CASE TripWritable(M, t, w) /\ w.cityIds = Unsent BY <1>2 DEF PutTrip, TripPut
<1>3. CASE TripWritable(M, t, w) /\ w.cityIds # Unsent BY <1>3 DEF PutTrip, TripPut
<1> QED BY <1>1, <1>2, <1>3

\* A trip put again is not written again, its itinerary included.
LEMMA PutTripSettles ==
    ASSUME NEW L, Lawful(L), NEW t \in Trips, NEW w \in TripWrites, PutTrip(L, t, w).answer = "ok",
           NEW N, N = PutTrip(L, t, w).log
    PROVE  Settled(N, PutTrip(N, t, w))
<1> DEFINE Row(old) == [old EXCEPT !.start = Merge(w.start, old.start), !.end = Merge(w.end, old.end),
                                   !.summary = Merge(w.summary, old.summary),
                                   !.cover = Merge(w.cover, old.cover)]
           old == BeforeTrip(L, t)
           row == Row(old)
           upserted == [L EXCEPT !.trips = [L.trips EXCEPT ![t] = row]]
           replaced == ReplaceTripCities(upserted, t, w.cityIds)
           again == [N EXCEPT !.trips = [N.trips EXCEPT ![t] = Row(BeforeTrip(N, t))]]
           f == ArrayRow(w.cityIds)
           R == PutTrip(L, t, w)
<1>0. L \in Tables /\ L.trips \in [Trips -> TripRow \cup {NoRow}] BY TableFields DEF Lawful
<1>1. row \in TripRow /\ Row(row) = row
  <2>1. old \in TripRow BY <1>0 DEF BeforeTrip, NewTrip, TripRow, Opt
  <2>2. /\ w.start \in Nullable(Days) /\ w.end \in Nullable(Days) /\ w.summary \in Nullable(Texts)
        /\ w.cover \in Nullable(Covers)
    BY DEF TripWrites
  <2>3. /\ old.start \in Opt(Days) /\ old.end \in Opt(Days) /\ old.summary \in Opt(Texts)
        /\ old.cover \in Opt(Media)
    BY <2>1 DEF TripRow
  <2> HIDE DEF old
  <2>4. /\ Merge(w.start, old.start) \in Opt(Days) /\ Merge(w.end, old.end) \in Opt(Days)
        /\ Merge(w.summary, old.summary) \in Opt(Texts) /\ Merge(w.cover, old.cover) \in Opt(Media)
    BY <2>2, <2>3, MergedColumn, CoversAreMedia
  <2>5. row \in TripRow BY <2>1, <2>4 DEF TripRow
  <2>6. /\ row.start = Merge(w.start, old.start) /\ row.end = Merge(w.end, old.end)
        /\ row.summary = Merge(w.summary, old.summary) /\ row.cover = Merge(w.cover, old.cover)
    BY <2>1 DEF TripRow
  <2> HIDE DEF row
  <2>7. /\ Merge(w.start, row.start) = row.start /\ Merge(w.end, row.end) = row.end
        /\ Merge(w.summary, row.summary) = row.summary /\ Merge(w.cover, row.cover) = row.cover
    BY <2>6, MergedTwice
  <2>8. [row EXCEPT !.start = row.start, !.end = row.end, !.summary = row.summary, !.cover = row.cover] = row
    BY <2>5 DEF TripRow
  <2> QED BY <2>5, <2>7, <2>8
<1> HIDE DEF row, Row
<1>2. upserted.trips = [L.trips EXCEPT ![t] = row] BY <1>0 DEF Tables
<1> HIDE DEF upserted, replaced, R
<1>3. ~TripWritable(L, t, w) => R.answer # "ok" BY RefuseLog DEF PutTrip, R
<1>4. /\ Lawful(N) /\ N.trips[t] = row
      /\ w.cityIds # Unsent => N.tripCities[t] = f
  <2>1. CASE w.cityIds = Unsent
    <3>1. R = Commit(L, <<upserted>>) BY <1>3, <2>1 DEF PutTrip, R, upserted, row, Row, old
    <3>2. N = upserted /\ Lawful(upserted) BY <3>1, OneWrote DEF R
    <3> QED BY <1>0, <1>2, <2>1, <3>2
  <2>2. CASE w.cityIds # Unsent
    <3>1. R = Commit(L, <<upserted, replaced>>)
      BY <1>3, <2>2 DEF PutTrip, R, upserted, replaced, row, Row, old
    <3>2. N = replaced /\ Lawful(upserted) /\ Lawful(replaced) BY <3>1, TwoWrote DEF R
    <3>3. replaced = [upserted EXCEPT !.tripCities = [upserted.tripCities EXCEPT ![t] = f]]
      BY DEF ReplaceTripCities, ArrayRow, replaced
    <3> HIDE DEF f
    <3>4. upserted \in Tables /\ upserted.tripCities \in [Trips -> [Cities -> Opt(Nat)]]
      BY <3>2 DEF Lawful, Tables
    <3>5. replaced.trips = upserted.trips /\ replaced.tripCities = [upserted.tripCities EXCEPT ![t] = f]
      BY <3>3, <3>4 DEF Tables
    <3>6. replaced.tripCities[t] = f BY <3>4, <3>5
    <3> QED BY <1>0, <1>2, <2>2, <3>2, <3>5, <3>6
  <2> QED BY <2>1, <2>2
<1>5. N \in Tables /\ N.trips \in [Trips -> TripRow \cup {NoRow}]
      /\ N.tripCities \in [Trips -> [Cities -> Opt(Nat)]]
  BY <1>4 DEF Lawful, Tables
<1>6. again = N
  <2>1. BeforeTrip(N, t) = row BY <1>1, <1>4, MarkersAreNoRows DEF BeforeTrip
  <2>2. Row(BeforeTrip(N, t)) = N.trips[t] BY <1>1, <1>4, <2>1
  <2>3. [N.trips EXCEPT ![t] = N.trips[t]] = N.trips BY <1>5, SameRow
  <2> QED BY <1>5, <2>2, <2>3, SameTables
<1>7. w.cityIds # Unsent => ReplaceTripCities(again, t, w.cityIds) = N
  <2>1. ReplaceTripCities(N, t, w.cityIds) = [N EXCEPT !.tripCities = [N.tripCities EXCEPT ![t] = f]]
    BY DEF ReplaceTripCities, ArrayRow
  <2> HIDE DEF f
  <2>2. [N.tripCities EXCEPT ![t] = N.tripCities[t]] = N.tripCities BY <1>5, SameRow
  <2> QED BY <1>4, <1>5, <1>6, <2>1, <2>2, SameTables
<1>8. again = TripPut(N, t, w) BY DEF TripPut, Row
<1> HIDE DEF again
<1>9. \/ PutTrip(N, t, w) = Refuse(N, "invalid")
      \/ PutTrip(N, t, w) = Commit(N, <<again>>)
      \/ w.cityIds # Unsent /\ PutTrip(N, t, w) = Commit(N, <<again, ReplaceTripCities(again, t, w.cityIds)>>)
  BY <1>8, PutTripRuns
<1> QED BY <1>4, <1>6, <1>7, <1>9, RefusalSettles, OneSettles, TwoSettle

\* Nor is a city, which is on the itinerary already.
LEMMA PutCitySettles ==
    ASSUME NEW L, Lawful(L), NEW c \in Cities, NEW w \in CityWrites, PutCity(L, c, w).answer = "ok",
           NEW N, N = PutCity(L, c, w).log, Numbered(L)
    PROVE  Settled(N, PutCity(N, c, w))
<1> DEFINE Old(M) == IF M.cities[c] = NoRow THEN [cover |-> None] ELSE M.cities[c]
           Row(old) == [cover |-> Merge(w.cover, old.cover)]
           row == Row(Old(L))
           upserted == [L EXCEPT !.cities = [L.cities EXCEPT ![c] = row]]
           t == w.attachTo
           attached == AttachCity(upserted, t, c)
           again == [N EXCEPT !.cities = [N.cities EXCEPT ![c] = Row(Old(N))]]
           R == PutCity(L, c, w)
<1>0. L \in Tables /\ L.cities \in [Cities -> CityRow \cup {NoRow}] BY TableFields DEF Lawful
<1>1. row \in CityRow /\ Row(row) = row
  <2>1. Old(L).cover \in Opt(Media)
    <3>1. CASE L.cities[c] = NoRow BY <3>1 DEF Opt
    <3>2. CASE L.cities[c] # NoRow BY <1>0, <3>2 DEF CityRow
    <3> QED BY <3>1, <3>2
  <2>2. w.cover \in Nullable(Covers) BY DEF CityWrites
  <2> HIDE DEF Old
  <2>3. Merge(w.cover, Old(L).cover) \in Opt(Media) BY <2>1, <2>2, MergedColumn, CoversAreMedia
  <2>4. row \in CityRow /\ row.cover = Merge(w.cover, Old(L).cover) BY <2>3 DEF CityRow
  <2>5. Merge(w.cover, row.cover) = row.cover BY <2>4, MergedTwice
  <2> QED BY <2>4, <2>5
<1> HIDE DEF row, Row
<1>2. upserted.cities = [L.cities EXCEPT ![c] = row] BY <1>0 DEF Tables
<1> HIDE DEF upserted, attached, R
<1>3. R = Refuse(L, "invalid") => R.answer # "ok" BY RefuseLog
<1>4. /\ Lawful(N) /\ N.cities[c] = row
      /\ t # Unsent => c \in Itinerary(N, t)
  <2>1. CASE t = Unsent
    <3>1. R = Commit(L, <<upserted>>) BY <1>3, <2>1 DEF PutCity, R, upserted, row, Row
    <3>2. N = upserted /\ Lawful(upserted) BY <3>1, OneWrote DEF R
    <3> QED BY <1>0, <1>2, <2>1, <3>2
  <2>2. CASE t # Unsent
    <3>1. R = Commit(L, <<upserted, attached>>)
      BY <1>3, <2>2 DEF PutCity, R, upserted, attached, row, Row
    <3>2. N = attached /\ Lawful(upserted) /\ Lawful(attached) BY <3>1, TwoWrote DEF R
    <3>3. upserted \in Tables /\ t \in Trips BY <2>2, <3>2 DEF Lawful, CityWrites, Body
    <3>4. attached.cities = upserted.cities /\ c \in Itinerary(attached, t)
      <4>1. CASE c \in Itinerary(upserted, t) BY <4>1 DEF attached, AttachCity
      <4>2. CASE c \notin Itinerary(upserted, t)
        <5> DEFINE next == NextOrdinal({upserted.tripCities[t][d] : d \in Itinerary(upserted, t)})
                   g == [upserted.tripCities[t] EXCEPT ![c] = next]
        <5>1. attached = [upserted EXCEPT !.tripCities = [upserted.tripCities EXCEPT ![t] = g]]
          BY <4>2 DEF attached, AttachCity
        <5>2. next # None
          <6>1. upserted.tripCities = L.tripCities BY <1>0 DEF upserted, Tables
          <6>2. L.tripCities[t] \in [Cities -> Opt(Nat)] /\ Dense(L.tripCities[t])
            BY <1>0, <3>3 DEF Tables, Numbered
          <6>3. {upserted.tripCities[t][d] : d \in Itinerary(upserted, t)}
                   = {L.tripCities[t][d] : d \in {e \in Cities : L.tripCities[t][e] # None}}
            BY <6>1 DEF Itinerary
          <6> DEFINE taken == {L.tripCities[t][d] : d \in {e \in Cities : L.tripCities[t][e] # None}}
          <6>4. IsFiniteSet(taken) BY <6>2, FiniteValues DEF Dense
          <6>5. taken \in SUBSET Nat BY <6>2 DEF Opt
          <6> HIDE DEF upserted, taken
          <6>6. NextOrdinal(taken) \in Nat BY <6>4, <6>5, NextIsAbove
          <6>7. next = NextOrdinal(taken) BY <6>3 DEF taken
          <6> HIDE DEF next
          <6> QED BY <6>6, <6>7, MarkersAreNoRows
        <5> HIDE DEF next
        <5>3. upserted.tripCities \in [Trips -> [Cities -> Opt(Nat)]] BY <3>3 DEF Tables
        <5>4. g[c] = next BY <3>3, <5>3
        <5> HIDE DEF g
        <5>5. attached.cities = upserted.cities /\ attached.tripCities = [upserted.tripCities EXCEPT ![t] = g]
          BY <3>3, <5>1 DEF Tables
        <5>6. attached.tripCities[t] = g BY <3>3, <5>3, <5>5
        <5> QED BY <5>2, <5>4, <5>5, <5>6 DEF Itinerary
      <4> QED BY <4>1, <4>2
    <3> QED BY <1>0, <1>2, <2>2, <3>2, <3>4
  <2> QED BY <2>1, <2>2
<1>5. N \in Tables /\ N.cities \in [Cities -> CityRow \cup {NoRow}] BY <1>4, TableFields DEF Lawful
<1>6. again = N
  <2>1. Row(Old(N)) = N.cities[c] BY <1>1, <1>4, MarkersAreNoRows
  <2>2. [N.cities EXCEPT ![c] = N.cities[c]] = N.cities BY <1>5, SameRow
  <2> QED BY <1>5, <2>1, <2>2, SameTables
<1>7. t # Unsent => AttachCity(N, t, c) = N BY <1>4 DEF AttachCity
<1>8. \/ PutCity(N, c, w) = Refuse(N, "invalid")
      \/ PutCity(N, c, w) = Commit(N, <<again>>)
      \/ t # Unsent /\ PutCity(N, c, w) = Commit(N, <<again, AttachCity(again, t, c)>>)
  BY DEF PutCity, Row
<1> HIDE DEF again
<1> QED BY <1>4, <1>6, <1>7, <1>8, RefusalSettles, OneSettles, TwoSettle

\* What a deletion took is a miss the second time: of a trip,
LEMMA DeleteTripSettles ==
    ASSUME NEW L, Lawful(L), IsFiniteSet(Held(L)), NEW t \in Trips, DeleteTrip(L, t).answer = "ok",
           NEW N, N = DeleteTrip(L, t).log
    PROVE  Settled(N, DeleteTrip(N, t))
<1>1. TripGone(L, N, t) BY DeleteTripTables
<1>2. N.trips[t] = NoRow BY <1>1 DEF TripGone
<1>3. DeleteTrip(N, t) = Refuse(N, "miss") BY <1>2 DEF DeleteTrip
<1> QED BY <1>3, RefusalSettles

\* of a place,
LEMMA RemovePlaceSettles ==
    ASSUME NEW L, Lawful(L), NEW p \in Places, NEW d, RemovePlace(L, p, d).answer = "ok",
           NEW N, N = RemovePlace(L, p, d).log
    PROVE  Settled(N, RemovePlace(N, p, d))
<1> DEFINE K == DeletePhotos(L, PhotosAt(L, p))
           R == RemovePlace(L, p, d)
<1>1. L \in Tables BY DEF Lawful
<1>2. \A M : M \in Tables => DeletePlaceRow(M, p).places[p] = NoRow
  <2> SUFFICES ASSUME NEW M \in Tables PROVE DeletePlaceRow(M, p).places[p] = NoRow OBVIOUS
  <2>1. PlaceGone(M, DeletePlaceRow(M, p), p) BY PlaceDeleted
  <2> QED BY <2>1 DEF PlaceGone
<1>3. \/ R = Refuse(L, "miss") \/ R = Commit(L, <<DeletePlaceRow(L, p)>>)
      \/ R = Commit(L, <<K, DeletePlaceRow(K, p)>>)
  BY DEF RemovePlace
<1> HIDE DEF R, K
<1>4. N.places[p] = NoRow
  <2>1. CASE R = Refuse(L, "miss") BY <2>1, RefuseLog DEF R
  <2>2. CASE R = Commit(L, <<DeletePlaceRow(L, p)>>)
    <3>1. N = DeletePlaceRow(L, p) BY <2>2, OneWrote DEF R
    <3> QED BY <1>1, <1>2, <3>1
  <2>3. CASE R = Commit(L, <<K, DeletePlaceRow(K, p)>>)
    <3>1. N = DeletePlaceRow(K, p) /\ Lawful(K) BY <2>3, TwoWrote DEF R
    <3>2. K \in Tables BY <3>1 DEF Lawful
    <3> QED BY <1>2, <3>1, <3>2
  <2> QED BY <1>3, <2>1, <2>2, <2>3
<1>5. RemovePlace(N, p, d) = Refuse(N, "miss") BY <1>4 DEF RemovePlace
<1> QED BY <1>5, RefusalSettles

\* of a photograph.
LEMMA DeletePhotoSettles ==
    ASSUME NEW L, Lawful(L), NEW h \in Photos, DeletePhoto(L, h).answer = "ok",
           NEW N, N = DeletePhoto(L, h).log
    PROVE  Settled(N, DeletePhoto(N, h))
<1> DEFINE R == DeletePhoto(L, h)
           M == DeletePhotos(L, {h})
<1>1. L \in Tables BY DEF Lawful
<1>2. M.photos[h] = NoRow BY <1>1 DEF DeletePhotos, Tables
<1>3. R \in {Refuse(L, "miss"), Commit(L, <<M>>)} BY DEF DeletePhoto
<1> HIDE DEF R, M
<1>4. N = M BY <1>3, OneWrote, RefuseLog DEF R
<1>5. DeletePhoto(N, h) = Refuse(N, "miss") BY <1>2, <1>4 DEF DeletePhoto
<1> QED BY <1>5, RefusalSettles

\* The row a snoozed photograph gets.
Snoozed(L, S, until) ==
    [h \in Photos |-> IF h \in S /\ L.photos[h] # NoRow
                      THEN [L.photos[h] EXCEPT !.filedLater = until] ELSE L.photos[h]]

\* Photographs snoozed again until the same time are snoozed as they were.
LEMMA SnoozePhotosSettles ==
    ASSUME NEW L, Lawful(L), NEW S, NEW until \in Laters, SnoozePhotos(L, S, until).answer = "ok",
           NEW N, N = SnoozePhotos(L, S, until).log
    PROVE  Settled(N, SnoozePhotos(N, S, until))
<1> DEFINE R == SnoozePhotos(L, S, until)
           M == [L EXCEPT !.photos = Snoozed(L, S, until)]
<1>1. L \in Tables /\ L.photos \in [Photos -> PhotoRow \cup {NoRow}] BY TableFields DEF Lawful
<1>2. R \in {Refuse(L, "miss"), Commit(L, <<M>>)} BY DEF SnoozePhotos, Snoozed
<1>3. M.photos = Snoozed(L, S, until) BY <1>1, OneTable
<1> HIDE DEF R, M
<1>4. N = M /\ Lawful(N) BY <1>2, OneWrote, RefuseLog DEF R
<1>5. N \in Tables /\ N.photos \in [Photos -> PhotoRow \cup {NoRow}] BY <1>4, TableFields DEF Lawful
<1>6. Snoozed(N, S, until) = N.photos
  <2>1. ASSUME NEW h \in Photos, h \in S, N.photos[h] # NoRow
        PROVE  [N.photos[h] EXCEPT !.filedLater = until] = N.photos[h]
    <3>1. N.photos[h] = IF L.photos[h] # NoRow THEN [L.photos[h] EXCEPT !.filedLater = until]
                        ELSE L.photos[h]
      BY <1>3, <1>4, <2>1 DEF Snoozed
    <3>2. L.photos[h] # NoRow /\ N.photos[h] = [L.photos[h] EXCEPT !.filedLater = until]
      BY <2>1, <3>1
    <3>3. L.photos[h] \in PhotoRow /\ N.photos[h] \in PhotoRow BY <1>1, <1>5, <2>1, <3>2
    <3>4. N.photos[h].filedLater = until BY <3>2, <3>3 DEF PhotoRow
    <3> QED BY <3>3, <3>4 DEF PhotoRow
  <2>2. \A h \in Photos : Snoozed(N, S, until)[h] = N.photos[h] BY <2>1 DEF Snoozed
  <2> QED BY <1>5, <2>2 DEF Snoozed
<1>7. [N EXCEPT !.photos = Snoozed(N, S, until)] = N BY <1>5, <1>6, SameTables
<1>8. SnoozePhotos(N, S, until)
        \in {Refuse(N, "miss"), Commit(N, <<[N EXCEPT !.photos = Snoozed(N, S, until)]>>)}
  BY DEF SnoozePhotos, Snoozed
<1> QED BY <1>4, <1>7, <1>8, RefusalSettles, OneSettles

\* The same name, and the same step of the same upload.
LEMMA SetTravellerNameSettles ==
    ASSUME NEW L, Lawful(L), NEW n, SetTravellerName(L, n).answer = "ok",
           NEW N, N = SetTravellerName(L, n).log
    PROVE  Settled(N, SetTravellerName(N, n))
<1> DEFINE M == [L EXCEPT !.name = n]
           R == SetTravellerName(L, n)
<1>1. R = Commit(L, <<M>>) BY DEF SetTravellerName
<1>2. M.name = n BY DEF Lawful, Tables
<1> HIDE DEF M, R
<1>3. N = M /\ Lawful(N) BY <1>1, OneWrote DEF R
<1>4. [N EXCEPT !.name = n] = N BY <1>2, <1>3, SameTables DEF Lawful
<1>5. SetTravellerName(N, n) = Commit(N, <<[N EXCEPT !.name = n]>>) BY DEF SetTravellerName
<1> QED BY <1>3, <1>4, <1>5, OneSettles

LEMMA BeginMediaSettles ==
    ASSUME NEW L, Lawful(L), NEW m \in Media, BeginMedia(L, m).answer = "ok",
           NEW N, N = BeginMedia(L, m).log
    PROVE  Settled(N, BeginMedia(N, m))
<1> DEFINE M == IF L.media[m] = "absent" THEN [L EXCEPT !.media = [L.media EXCEPT ![m] = "begun"]]
                ELSE L
           R == BeginMedia(L, m)
<1>1. R = Commit(L, <<M>>) BY DEF BeginMedia
<1>2. M.media[m] # "absent" BY DEF Lawful, Tables
<1> HIDE DEF M, R
<1>3. N = M /\ Lawful(N) BY <1>1, OneWrote DEF R
<1>4. BeginMedia(N, m) = Commit(N, <<N>>) BY <1>2, <1>3 DEF BeginMedia
<1> QED BY <1>3, <1>4, OneSettles

LEMMA MarkMediaUploadedSettles ==
    ASSUME NEW L, Lawful(L), NEW m \in Media, MarkMediaUploaded(L, m).answer = "ok",
           NEW N, N = MarkMediaUploaded(L, m).log
    PROVE  Settled(N, MarkMediaUploaded(N, m))
<1> DEFINE M == [L EXCEPT !.media = [L.media EXCEPT ![m] = "committed"]]
           R == MarkMediaUploaded(L, m)
           again == [N EXCEPT !.media = [N.media EXCEPT ![m] = "committed"]]
<1>1. R \in {Refuse(L, "notFound"), Commit(L, <<M>>)} BY DEF MarkMediaUploaded
<1>2. M.media[m] = "committed" BY DEF Lawful, Tables
<1> HIDE DEF M, R
<1>3. N = M /\ Lawful(N) BY <1>1, OneWrote, RefuseLog DEF R
<1>4. again = N
  <2>1. N \in Tables /\ N.media \in [Media -> {"absent", "begun", "committed"}] BY <1>3 DEF Lawful, Tables
  <2>2. [N.media EXCEPT ![m] = N.media[m]] = N.media BY <2>1, SameRow
  <2> QED BY <1>2, <1>3, <2>1, <2>2, SameTables
<1>5. MarkMediaUploaded(N, m) \in {Refuse(N, "notFound"), Commit(N, <<again>>)}
  BY DEF MarkMediaUploaded
<1> HIDE DEF again
<1> QED BY <1>3, <1>4, <1>5, RefusalSettles, OneSettles

\* The row PutPhoto writes over one it found.
PhotoPut(old, w) ==
    [old EXCEPT !.trip = Merge(w.trip, old.trip), !.city = Merge(w.city, old.city),
                !.asset = Merge(w.asset, old.asset),
                !.caption = Merge(StoredCaption(w.caption), old.caption),
                !.filedLater = Merge(w.filedLater, old.filedLater)]

\* A photograph put again is not written again.
LEMMA PutPhotoSettles ==
    ASSUME NEW L, Lawful(L), NEW h \in Photos, NEW w \in PhotoWrites, PutPhoto(L, h, w).answer = "ok",
           NEW N, N = PutPhoto(L, h, w).log
    PROVE  Settled(N, PutPhoto(N, h, w))
<1> DEFINE Old(M) == IF M.photos[h] = NoRow THEN NewPhoto ELSE M.photos[h]
           old == Old(L)
           row == PhotoPut(old, w)
           M == [L EXCEPT !.photos = [L.photos EXCEPT ![h] = row]]
           again == [N EXCEPT !.photos = [N.photos EXCEPT ![h] = PhotoPut(Old(N), w)]]
           R == PutPhoto(L, h, w)
           Short == L.photos[h] = NoRow /\ Unsent \in {w.trip, w.city, w.asset}
<1>0. L \in Tables /\ L.photos \in [Photos -> PhotoRow \cup {NoRow}] BY TableFields DEF Lawful
<1>1. R = Refuse(L, "invalid") \/ (R = Commit(L, <<M>>) /\ ~Short) BY DEF PutPhoto, PhotoPut
<1>2. PutPhoto(N, h, w) \in {Refuse(N, "invalid"), Commit(N, <<again>>)} BY DEF PutPhoto, PhotoPut
<1>3. M.photos = [L.photos EXCEPT ![h] = row] BY <1>0, OneTable
<1> HIDE DEF M, R, Short, again
<1>4. N = M /\ Lawful(N) /\ ~Short BY <1>1, OneWrote, RefuseLog DEF R
<1>5. row \in PhotoRow /\ PhotoPut(row, w) = row
  <2>2. /\ w.trip \in Body(Trips) /\ w.city \in Body(Cities) /\ w.asset \in Body(Media)
        /\ w.caption \in Nullable(Texts) /\ w.filedLater \in Nullable(Laters)
    BY DEF PhotoWrites
  <2>3. /\ old.place \in Opt(Places) /\ old.visit \in Opt(Visits)
        /\ old.caption \in Opt(Texts) /\ old.filedLater \in Opt(Laters)
        /\ L.photos[h] # NoRow => old.trip \in Trips /\ old.city \in Cities /\ old.asset \in Media
        /\ old \in AnyPhoto
    <3>1. CASE L.photos[h] = NoRow BY <3>1 DEF NewPhoto, Opt, AnyPhoto
    <3>2. CASE L.photos[h] # NoRow BY <1>0, <3>2 DEF PhotoRow, Opt, AnyPhoto
    <3> QED BY <3>1, <3>2
  <2>4. ~Blank(old.caption)
    <3>1. CASE L.photos[h] = NoRow
      <4>1. old.caption = None BY <3>1 DEF NewPhoto
      <4> QED BY <4>1, MarkersAreNoRows, Zenon DEF Blank
    <3>2. CASE L.photos[h] # NoRow BY <3>2 DEF Lawful, Checks, Blank
    <3> QED BY <3>1, <3>2
  <2> HIDE DEF old
  <2>5. L.photos[h] = NoRow => w.trip # Unsent /\ w.city # Unsent /\ w.asset # Unsent BY <1>4 DEF Short
  <2>6. /\ Merge(w.trip, old.trip) \in Trips /\ Merge(w.city, old.city) \in Cities
        /\ Merge(w.asset, old.asset) \in Media
    BY <2>2, <2>3, <2>5 DEF Merge, Body
  <2>7. Merge(StoredCaption(w.caption), old.caption) \in Opt(Texts) BY <2>2, <2>3, <2>4, CaptionStored
  <2>8. Merge(w.filedLater, old.filedLater) \in Opt(Laters) BY <2>2, <2>3, MergedColumn
  <2>9. row \in PhotoRow BY <2>3, <2>6, <2>7, <2>8 DEF PhotoRow, AnyPhoto, PhotoPut
  <2>10. /\ row.trip = Merge(w.trip, old.trip) /\ row.city = Merge(w.city, old.city)
         /\ row.asset = Merge(w.asset, old.asset)
         /\ row.caption = Merge(StoredCaption(w.caption), old.caption)
         /\ row.filedLater = Merge(w.filedLater, old.filedLater)
    BY <2>3 DEF AnyPhoto, PhotoPut
  <2> HIDE DEF row
  <2>11. /\ Merge(w.trip, row.trip) = row.trip /\ Merge(w.city, row.city) = row.city
         /\ Merge(w.asset, row.asset) = row.asset
         /\ Merge(StoredCaption(w.caption), row.caption) = row.caption
         /\ Merge(w.filedLater, row.filedLater) = row.filedLater
    BY <2>10, MergedTwice
  <2>12. [row EXCEPT !.trip = row.trip, !.city = row.city, !.asset = row.asset,
                     !.caption = row.caption, !.filedLater = row.filedLater] = row
    BY <2>9 DEF PhotoRow
  <2> QED BY <2>9, <2>11, <2>12 DEF PhotoPut
<1> HIDE DEF row
<1>6. N \in Tables /\ N.photos \in [Photos -> PhotoRow \cup {NoRow}] BY <1>4, TableFields DEF Lawful
<1>7. N.photos[h] = row BY <1>0, <1>3, <1>4
<1>8. again = N
  <2>1. PhotoPut(Old(N), w) = N.photos[h] BY <1>5, <1>7, MarkersAreNoRows
  <2>2. [N.photos EXCEPT ![h] = N.photos[h]] = N.photos BY <1>6, SameRow
  <2> QED BY <1>6, <2>1, <2>2, SameTables DEF again
<1> QED BY <1>2, <1>4, <1>8, RefusalSettles, OneSettles

\* Nor is a walk.
LEMMA PutWalkSettles ==
    ASSUME NEW L, Lawful(L), NEW k \in Walks, NEW w \in WalkWrites, PutWalk(L, k, w).answer = "ok",
           NEW N, N = PutWalk(L, k, w).log
    PROVE  Settled(N, PutWalk(N, k, w))
<1> DEFINE Old(M) == IF M.walks[k] = NoRow THEN [trip |-> None, city |-> None, dismissed |-> FALSE]
                     ELSE M.walks[k]
           Row(o) == [trip |-> Merge(w.trip, o.trip), city |-> Merge(w.city, o.city),
                      dismissed |-> Merge(w.dismissed, o.dismissed)]
           old == Old(L)
           row == Row(old)
           M == [L EXCEPT !.walks = [L.walks EXCEPT ![k] = row]]
           again == [N EXCEPT !.walks = [N.walks EXCEPT ![k] = Row(Old(N))]]
           R == PutWalk(L, k, w)
           Short == L.walks[k] = NoRow /\ Unsent \in {w.trip, w.city}
<1>0. L \in Tables /\ L.walks \in [Walks -> WalkRow \cup {NoRow}] BY OtherFields DEF Lawful
<1>1. R = Refuse(L, "invalid") \/ (R = Commit(L, <<M>>) /\ ~Short) BY DEF PutWalk
<1>2. PutWalk(N, k, w) \in {Refuse(N, "invalid"), Commit(N, <<again>>)} BY DEF PutWalk
<1>3. M.walks = [L.walks EXCEPT ![k] = row] BY <1>0 DEF Tables
<1> HIDE DEF M, R, Short, again
<1>4. N = M /\ Lawful(N) /\ ~Short BY <1>1, OneWrote, RefuseLog DEF R
<1>5. row \in WalkRow /\ Row(row) = row
  <2>2. w.trip \in Body(Trips) /\ w.city \in Body(Cities) /\ w.dismissed \in Body(Flags)
    BY DEF WalkWrites
  <2>3. old.dismissed \in BOOLEAN /\ (L.walks[k] # NoRow => old.trip \in Trips /\ old.city \in Cities)
    <3>1. CASE L.walks[k] = NoRow BY <3>1
    <3>2. CASE L.walks[k] # NoRow BY <1>0, <3>2 DEF WalkRow
    <3> QED BY <3>1, <3>2
  <2> HIDE DEF old
  <2>4. L.walks[k] = NoRow => w.trip # Unsent /\ w.city # Unsent BY <1>4 DEF Short
  <2>6. Merge(w.trip, old.trip) \in Trips /\ Merge(w.city, old.city) \in Cities
    BY <2>2, <2>3, <2>4 DEF Merge, Body
  <2>7. Merge(w.dismissed, old.dismissed) \in BOOLEAN BY <2>2, <2>3, FlagsBoolean, Zenon DEF Merge, Body
  <2>8. row \in WalkRow BY <2>6, <2>7 DEF WalkRow
  <2>9. /\ row.trip = Merge(w.trip, old.trip) /\ row.city = Merge(w.city, old.city)
        /\ row.dismissed = Merge(w.dismissed, old.dismissed)
    OBVIOUS
  <2> HIDE DEF row
  <2>10. /\ Merge(w.trip, row.trip) = row.trip /\ Merge(w.city, row.city) = row.city
         /\ Merge(w.dismissed, row.dismissed) = row.dismissed
    BY <2>9, MergedTwice
  <2>11. [trip |-> row.trip, city |-> row.city, dismissed |-> row.dismissed] = row BY <2>8 DEF WalkRow
  <2> QED BY <2>8, <2>10, <2>11
<1> HIDE DEF row, Row
<1>6. N \in Tables /\ N.walks \in [Walks -> WalkRow \cup {NoRow}] BY <1>4, OtherFields DEF Lawful
<1>7. N.walks[k] = row BY <1>0, <1>3, <1>4
<1>8. again = N
  <2>1. Row(Old(N)) = N.walks[k] BY <1>5, <1>7, MarkersAreNoRows
  <2>2. [N.walks EXCEPT ![k] = N.walks[k]] = N.walks BY <1>6, SameRow
  <2> QED BY <1>6, <2>1, <2>2, SameTables DEF again
<1> QED BY <1>2, <1>4, <1>8, RefusalSettles, OneSettles

\* A trip whose flags are as asked is not written.
LEMMA SameFlags ==
    ASSUME NEW N \in Tables, NEW t \in Trips, N.trips[t] # NoRow, NEW x, NEW y, NEW z,
           N.trips[t].sharePhotos = x, N.trips[t].shareNotes = y, N.trips[t].shareCoordinates = z
    PROVE  SetFlags(N, t, x, y, z) = N
<1> DEFINE row == N.trips[t]
<1>1. N.trips \in [Trips -> TripRow \cup {NoRow}] BY TableFields
<1>2. row \in TripRow BY <1>1
<1>3. [row EXCEPT !.sharePhotos = row.sharePhotos, !.shareNotes = row.shareNotes,
                  !.shareCoordinates = row.shareCoordinates] = row
  <2> HIDE DEF row
  <2> QED BY <1>2 DEF TripRow
<1>4. [N.trips EXCEPT ![t] = N.trips[t]] = N.trips BY <1>1, SameRow
<1>5. [N EXCEPT !.trips = N.trips] = N BY SameTables
<1> QED BY <1>3, <1>4, <1>5 DEF SetFlags

\* The flags a trip has once they are set.
LEMMA FlagsSet ==
    ASSUME NEW L \in Tables, NEW t \in Trips, L.trips[t] # NoRow,
           NEW x \in BOOLEAN, NEW y \in BOOLEAN, NEW z \in BOOLEAN, NEW M, M = SetFlags(L, t, x, y, z)
    PROVE  /\ M.trips[t] # NoRow /\ M.links = L.links
           /\ M.trips[t].sharePhotos = x /\ M.trips[t].shareNotes = y /\ M.trips[t].shareCoordinates = z
<1> DEFINE old == L.trips[t]
           row == [old EXCEPT !.sharePhotos = x, !.shareNotes = y, !.shareCoordinates = z]
<1>1. L.trips \in [Trips -> TripRow \cup {NoRow}] BY TableFields
<1>2. old \in TripRow BY <1>1
<1>3. M = [L EXCEPT !.trips = [L.trips EXCEPT ![t] = row]] BY DEF SetFlags
<1> HIDE DEF old
<1>4. row.sharePhotos = x /\ row.shareNotes = y /\ row.shareCoordinates = z BY <1>2 DEF TripRow
<1>5. row \in TripRow BY <1>2 DEF TripRow
<1> HIDE DEF row
<1>6. M.trips = [L.trips EXCEPT ![t] = row] /\ M.links = L.links BY <1>3 DEF Tables
<1>7. M.trips[t] = row BY <1>1, <1>6
<1> QED BY <1>4, <1>5, <1>6, <1>7, MarkersAreNoRows

\* The same flags again.
LEMMA SetShareOptionsSettles ==
    ASSUME NEW L, Lawful(L), NEW t \in Trips, NEW w \in ShareWrites, SetShareOptions(L, t, w).answer = "ok",
           NEW N, N = SetShareOptions(L, t, w).log
    PROVE  Settled(N, SetShareOptions(N, t, w))
<1> DEFINE x == Merge(w.photos, L.trips[t].sharePhotos)
           y == Merge(w.notes, L.trips[t].shareNotes)
           z == Merge(w.coordinates, L.trips[t].shareCoordinates)
           M == SetFlags(L, t, x, y, z)
           again == SetFlags(N, t, Merge(w.photos, N.trips[t].sharePhotos),
                             Merge(w.notes, N.trips[t].shareNotes),
                             Merge(w.coordinates, N.trips[t].shareCoordinates))
           R == SetShareOptions(L, t, w)
<1>0. L \in Tables BY DEF Lawful
<1>1. R = Refuse(L, "notFound") \/ (L.trips[t] # NoRow /\ R = Commit(L, <<M>>)) BY DEF SetShareOptions
<1>2. SetShareOptions(N, t, w) \in {Refuse(N, "notFound"), Commit(N, <<again>>)} BY DEF SetShareOptions
<1> HIDE DEF R, M, again
<1>3. N = M /\ Lawful(N) /\ L.trips[t] # NoRow BY <1>1, OneWrote, RefuseLog DEF R
<1>4. x \in BOOLEAN /\ y \in BOOLEAN /\ z \in BOOLEAN
  <2>1. w.photos \in Body(Flags) /\ w.notes \in Body(Flags) /\ w.coordinates \in Body(Flags)
    BY DEF ShareWrites
  <2>2. L.trips[t] \in TripRow BY <1>0, <1>3, TableFields
  <2>3. /\ L.trips[t].sharePhotos \in BOOLEAN /\ L.trips[t].shareNotes \in BOOLEAN
        /\ L.trips[t].shareCoordinates \in BOOLEAN
    BY <2>2 DEF TripRow
  <2>4. \A a \in Body(Flags), b \in BOOLEAN : Merge(a, b) \in BOOLEAN
    BY FlagsBoolean, Zenon DEF Merge, Body
  <2> QED BY <2>1, <2>3, <2>4, Zenon
<1>5. Merge(w.photos, x) = x /\ Merge(w.notes, y) = y /\ Merge(w.coordinates, z) = z
  BY MergedTwice, Zenon
<1> HIDE DEF x, y, z
<1>6. /\ N.trips[t] # NoRow
      /\ N.trips[t].sharePhotos = x /\ N.trips[t].shareNotes = y /\ N.trips[t].shareCoordinates = z
  BY <1>0, <1>3, <1>4, FlagsSet DEF M
<1>7. N \in Tables BY <1>3 DEF Lawful
<1>8. SetFlags(N, t, x, y, z) = N BY <1>6, <1>7, SameFlags
<1>9. again = SetFlags(N, t, x, y, z) BY <1>5, <1>6, Zenon DEF again
<1> QED BY <1>2, <1>3, <1>8, <1>9, RefusalSettles, OneSettles

\* A trip that stopped being shared has no link to revoke and the flags it
\* would be reset to.
LEMMA StopSharingSettles ==
    ASSUME NEW L, Lawful(L), NEW t \in Trips, NEW now \in Moments, NEW later,
           StopSharing(L, t, now).answer = "ok", NEW N, N = StopSharing(L, t, now).log
    PROVE  Settled(N, StopSharing(N, t, later))
<1> DEFINE K == RevokeLive(L, t, now)
           M == SetFlags(K, t, TRUE, TRUE, FALSE)
           live == RevokeLive(N, t, later)
           again == SetFlags(live, t, TRUE, TRUE, FALSE)
           R == StopSharing(L, t, now)
<1>1. R = Refuse(L, "notFound") \/ (L.trips[t] # NoRow /\ R = Commit(L, <<K, M>>)) BY DEF StopSharing
<1>2. StopSharing(N, t, later) \in {Refuse(N, "notFound"), Commit(N, <<live, again>>)} BY DEF StopSharing
<1>3. K.trips = L.trips BY LiveRevoked
<1>4. LiveLinks(N, t) = {} BY StopSharingTables
<1> HIDE DEF R, K, M, live, again
<1>5. N = M /\ Lawful(N) /\ Lawful(K) /\ K.trips[t] # NoRow BY <1>1, <1>3, TwoWrote, RefuseLog DEF R
<1>6. N \in Tables /\ K \in Tables BY <1>5 DEF Lawful
<1>7. live = N
  <2>1. N.links \in [Tokens -> LinkRow \cup {NoRow}] BY <1>6 DEF Tables
  <2>2. [k \in Tokens |-> IF k \in LiveLinks(N, t) THEN [N.links[k] EXCEPT !.revoked = later] ELSE N.links[k]]
           = [k \in Tokens |-> N.links[k]]
    BY <1>4
  <2>3. [k \in Tokens |-> N.links[k]] = N.links BY <2>1
  <2>4. live = [N EXCEPT !.links = N.links] BY <2>2, <2>3 DEF live, RevokeLive
  <2> QED BY <1>6, <2>4, SameTables
<1> DEFINE yes == TRUE
           no  == FALSE
<1>8. yes \in BOOLEAN /\ no \in BOOLEAN /\ M = SetFlags(K, t, yes, yes, no) BY DEF M
<1>9. SetFlags(N, t, TRUE, TRUE, FALSE) = N
  <2> HIDE DEF yes, no
  <2>1. /\ N.trips[t] # NoRow
        /\ N.trips[t].sharePhotos = yes /\ N.trips[t].shareNotes = yes /\ N.trips[t].shareCoordinates = no
    BY <1>5, <1>6, <1>8, FlagsSet
  <2>2. SetFlags(N, t, yes, yes, no) = N BY <1>6, <2>1, SameFlags
  <2> QED BY <2>2 DEF yes, no
<1>10. again = N BY <1>7, <1>9 DEF again
<1> QED BY <1>2, <1>5, <1>7, <1>10, RefusalSettles, TwoSettle

\* The occasion a refile opened is there, and the photograph is filed to it.
LEMMA RefilePhotoSettles ==
    ASSUME NEW L, Lawful(L), IsFiniteSet(Held(L)), NEW h \in Photos, NEW w \in Refilings,
           RefilePhoto(L, h, w).answer = "ok", NEW N, N = RefilePhoto(L, h, w).log
    PROVE  Settled(N, RefilePhoto(N, h, w))
<1> DEFINE trip       == L.photos[h].trip
           inserted   == InsertVisit(L, w.visit, w.place, trip, w.at)
           parked     == ParkVisits(inserted, w.place, Cardinality(OccasionsAt(inserted, w.place)))
           renumbered == RenumberByTime(parked, w.place)
           filed      == FilePhoto(renumbered, h, w.place, w.visit)
           direct     == FilePhoto(L, h, w.place, w.visit)
           R          == RefilePhoto(L, h, w)
           Bad        == \/ L.places[w.place] = NoRow
                         \/ L.places[w.place].city # L.photos[h].city
                         \/ IF L.visits[w.visit] = NoRow THEN w.at = Unsent
                            ELSE ~OccasionBelongs(L, w.visit, w.place, trip)
<1>0. L \in Tables /\ References(L) BY DEF Lawful
<1>1. w.place \in Places /\ w.visit \in Visits /\ w.at \in Body(Times) BY DEF Refilings
<1>2. L.photos[h] # NoRow => trip \in Trips /\ L.trips[trip] # NoRow BY <1>0, RowTypes DEF References
<1>3. R = Refuse(L, "notFound") \/ R = Refuse(L, "invalid") => R.answer # "ok"
  <2> HIDE DEF R
  <2> QED BY RefuseLog
<1>4. L.photos[h] # NoRow /\ ~Bad BY <1>3 DEF RefilePhoto
<1>5. ASSUME NEW M, Lawful(M), M.photos[h] # NoRow, M.visits[w.visit] # NoRow,
             N = FilePhoto(M, h, w.place, w.visit), Lawful(N)
      PROVE  N.visits[w.visit] # NoRow /\ N.photos[h].place = w.place /\ N.photos[h].visit = w.visit
  <2> DEFINE row == [M.photos[h] EXCEPT !.place = w.place, !.visit = w.visit]
  <2>1. M \in Tables /\ M.photos \in [Photos -> PhotoRow \cup {NoRow}] BY <1>5, TableFields DEF Lawful
  <2>2. N.visits = M.visits /\ N.photos = [M.photos EXCEPT ![h] = row] BY <1>5, <2>1, OneTable DEF FilePhoto
  <2>3. M.photos[h] \in PhotoRow BY <1>5, <2>1
  <2>4. row.place = w.place /\ row.visit = w.visit BY <2>3 DEF PhotoRow
  <2> HIDE DEF row
  <2>5. N.photos[h] = row BY <2>1, <2>2
  <2> QED BY <1>5, <2>2, <2>4, <2>5
<1>6. ASSUME L.visits[w.visit] # NoRow
      PROVE  \E M : /\ Lawful(M) /\ M.photos[h] # NoRow /\ M.visits[w.visit] # NoRow
                    /\ N = FilePhoto(M, h, w.place, w.visit) /\ Lawful(N)
  <2>1. R = Commit(L, <<direct>>) BY <1>4, <1>6 DEF RefilePhoto
  <2> HIDE DEF R, direct
  <2>2. N = direct /\ Lawful(N) BY <2>1, OneWrote DEF R
  <2> QED BY <1>4, <1>6, <2>2 DEF direct
<1>7. ASSUME L.visits[w.visit] = NoRow
      PROVE  \E M : /\ Lawful(M) /\ M.photos[h] # NoRow /\ M.visits[w.visit] # NoRow
                    /\ N = FilePhoto(M, h, w.place, w.visit) /\ Lawful(N)
  <2>1. R = Commit(L, <<inserted, parked, renumbered, filed>>) BY <1>4, <1>7 DEF RefilePhoto
  <2>2. w.at \in Times /\ L.places[w.place] # NoRow BY <1>1, <1>4, <1>7 DEF Body
  <2>3. OnlyVisits(L, renumbered) /\ renumbered.visits[w.visit] # NoRow
    <3> HIDE DEF trip
    <3> QED BY <1>1, <1>2, <1>4, <1>7, <2>2, OccasionMinted
  <2> HIDE DEF R, inserted, parked, renumbered, filed, Bad
  <2>4. N = filed /\ Lawful(N) /\ Lawful(renumbered) BY <2>1, FourWrote DEF R
  <2>5. renumbered.photos = L.photos BY <2>3 DEF OnlyVisits
  <2> QED BY <1>4, <2>3, <2>4, <2>5 DEF filed
<1>8. Lawful(N) /\ N.visits[w.visit] # NoRow /\ N.photos[h].place = w.place /\ N.photos[h].visit = w.visit
  BY <1>5, <1>6, <1>7
<1>9. N \in Tables /\ N.photos \in [Photos -> PhotoRow \cup {NoRow}] BY <1>8, TableFields DEF Lawful
<1>10. CASE N.photos[h] = NoRow
  <2>1. RefilePhoto(N, h, w) = Refuse(N, "notFound") BY <1>10 DEF RefilePhoto
  <2> QED BY <2>1, RefusalSettles
<1>11. CASE N.photos[h] # NoRow
  <2> DEFINE again == FilePhoto(N, h, w.place, w.visit)
             row == N.photos[h]
  <2>1. RefilePhoto(N, h, w) \in {Refuse(N, "invalid"), Commit(N, <<again>>)}
    BY <1>8, <1>11 DEF RefilePhoto
  <2>2. again = N
    <3>1. row \in PhotoRow BY <1>9, <1>11
    <3>2. [row EXCEPT !.place = row.place, !.visit = row.visit] = row
      <4> HIDE DEF row
      <4> QED BY <3>1 DEF PhotoRow
    <3>3. [N.photos EXCEPT ![h] = N.photos[h]] = N.photos BY <1>9, SameRow
    <3>4. [N EXCEPT !.photos = N.photos] = N BY <1>9, SameTables
    <3> QED BY <1>8, <3>2, <3>3, <3>4 DEF FilePhoto
  <2> HIDE DEF again
  <2> QED BY <1>8, <2>1, <2>2, RefusalSettles, OneSettles
<1> QED BY <1>10, <1>11

\* The row an array spells for an occasion it names.
Spelled(p, visits, v) ==
    LET i == CHOOSE i \in DOMAIN visits : visits[i].id = v
    IN  [place |-> p, trip |-> visits[i].trip, ordinal |-> i - 1,
         at |-> visits[i].at, note |-> visits[i].note]

\* Upserting an array writes the rows it spells.
LEMMA UpsertSpells ==
    ASSUME NEW L \in Tables, NEW p, NEW visits, NEW v \in Visits
    PROVE  UpsertVisits(L, p, visits).visits[v]
             = IF v \in VisitIds(visits) THEN Spelled(p, visits, v) ELSE L.visits[v]
<1> DEFINE f == [x \in Visits |-> IF x \notin VisitIds(visits) THEN L.visits[x] ELSE Spelled(p, visits, x)]
<1>1. UpsertVisits(L, p, visits) = [L EXCEPT !.visits = f] BY DEF UpsertVisits, Spelled
<1>2. f[v] = IF v \in VisitIds(visits) THEN Spelled(p, visits, v) ELSE L.visits[v] OBVIOUS
<1> HIDE DEF f
<1>3. UpsertVisits(L, p, visits).visits = f BY <1>1, VisitsTable
<1> QED BY <1>2, <1>3

\* Where a place's occasions are the array's, replacing them writes nothing:
\* parked, written back, none departed.
LEMMA OccasionsSettled ==
    ASSUME NEW N, Lawful(N), IsFiniteSet(Held(N)), NEW p, NEW n \in Nat, NEW visits,
           \A v \in OccasionsAt(N, p) : v \in VisitIds(visits),
           \A v \in Visits : v \in VisitIds(visits) => N.visits[v] = Spelled(p, visits, v)
    PROVE  DeleteDeparted(UpsertVisits(ParkVisits(N, p, n), p, visits), p, visits) = N
<1> DEFINE K == ParkVisits(N, p, n)
           U == UpsertVisits(K, p, visits)
           gone == OccasionsAt(U, p) \ VisitIds(visits)
<1>0. N \in Tables /\ N.visits \in [Visits -> VisitRow \cup {NoRow}]
      /\ N.photos \in [Photos -> PhotoRow \cup {NoRow}]
  BY TableFields DEF Lawful
<1>1. Lawful(K) /\ \A v \in Visits : v \notin OccasionsAt(N, p) => K.visits[v] = N.visits[v] BY Parked
<1>2. K \in Tables BY <1>1 DEF Lawful
<1>3. PICK f : K = [N EXCEPT !.visits = f] BY DEF ParkVisits
<1> HIDE DEF K
<1>4. \A v \in Visits : U.visits[v] = IF v \in VisitIds(visits) THEN Spelled(p, visits, v) ELSE K.visits[v]
  BY <1>2, UpsertSpells
<1>5. PICK g : U = [K EXCEPT !.visits = [v \in Visits |-> g[v]]]
  <2> DEFINE g == [v \in Visits |-> IF v \notin VisitIds(visits) THEN K.visits[v] ELSE Spelled(p, visits, v)]
  <2>1. U = [K EXCEPT !.visits = g] BY DEF UpsertVisits, Spelled
  <2>2. g = [v \in Visits |-> g[v]] OBVIOUS
  <2> HIDE DEF g
  <2> QED BY <2>1, <2>2
<1> HIDE DEF U
<1>6. U = N
  <2> DEFINE h == [v \in Visits |-> g[v]]
  <2>1. U.visits = h BY <1>2, <1>5, VisitsTable
  <2>2. \A v \in Visits : h[v] = N.visits[v] BY <1>1, <1>4, <2>1
  <2>3. h = N.visits BY <1>0, <2>2
  <2> HIDE DEF h
  <2>4. U = [[N EXCEPT !.visits = f] EXCEPT !.visits = N.visits] BY <1>3, <1>5, <2>3 DEF h
  <2>5. [[N EXCEPT !.visits = f] EXCEPT !.visits = N.visits] = N BY <1>0 DEF Tables
  <2> QED BY <2>4, <2>5
<1>7. DeleteDeparted(U, p, visits) = DeleteVisits(N, {})
  <2>1. OccasionsAt(N, p) \ VisitIds(visits) = {} OBVIOUS
  <2> QED BY <1>6, <2>1 DEF DeleteDeparted
<1>8. DeleteVisits(N, {}) = N
  <2> DEFINE x == [v \in Visits |-> IF v \in {} THEN NoRow ELSE N.visits[v]]
             y == [h \in Photos |-> IF N.photos[h] # NoRow /\ N.photos[h].visit \in {}
                                    THEN Unfile(N.photos[h]) ELSE N.photos[h]]
  <2>1. x = N.visits /\ y = N.photos BY <1>0
  <2>2. DeleteVisits(N, {}) = [N EXCEPT !.visits = x, !.photos = y] BY DEF DeleteVisits
  <2> HIDE DEF x, y
  <2>3. [N EXCEPT !.visits = N.visits, !.photos = N.photos] = N BY <1>0 DEF Tables
  <2> QED BY <2>1, <2>2, <2>3
<1> QED BY <1>7, <1>8 DEF K, U

\* The row PutPlace writes, over the one it found, and the statement.
PlaceRowPut(M, p, w) ==
    LET old == IF M.places[p] = NoRow THEN [city |-> None, plan |-> None, cover |-> None]
               ELSE M.places[p]
    IN  [city |-> Merge(w.city, old.city), plan |-> Merge(w.plan, old.plan),
         cover |-> Merge(w.cover, old.cover)]

PlacePut(M, p, w) == [M EXCEPT !.places = [M.places EXCEPT ![p] = PlaceRowPut(M, p, w)]]

OccasionsPut(M, p, w) == UpsertVisits(ParkVisits(M, p, Len(w.visits)), p, w.visits)

\* PutPlace refuses, or runs it, or runs it and replaces the occasions.
LEMMA PutPlaceRuns ==
    ASSUME NEW M, NEW p, NEW w
    PROVE  \/ PutPlace(M, p, w) = Refuse(M, "invalid")
           \/ /\ ~(M.places[p] = NoRow /\ w.city = Unsent)
              /\ w.visits \in {Unsent, <<>>}
              /\ PutPlace(M, p, w) = Commit(M, <<PlacePut(M, p, w)>>)
           \/ /\ ~(M.places[p] = NoRow /\ w.city = Unsent)
              /\ w.visits \notin {Unsent, <<>>} /\ VisitsWritable(M, p, w.visits)
              /\ PutPlace(M, p, w)
                   = Commit(M, <<PlacePut(M, p, w), ParkVisits(PlacePut(M, p, w), p, Len(w.visits)),
                                 OccasionsPut(PlacePut(M, p, w), p, w),
                                 DeleteDeparted(OccasionsPut(PlacePut(M, p, w), p, w), p, w.visits)>>)
<1> DEFINE Refused == \/ M.places[p] = NoRow /\ (w.city = Unsent \/ ~w.complete)
                      \/ M.cities[PlaceRowPut(M, p, w).city] = NoRow
                      \/ ~CoverCommitted(M, w.cover)
                      \/ w.visits # Unsent /\ ~VisitsWritable(M, p, w.visits)
<1>1. CASE Refused BY <1>1 DEF PutPlace, PlaceRowPut
<1>2. CASE ~Refused /\ w.visits \in {Unsent, <<>>}
  <2>1. PutPlace(M, p, w) = Commit(M, <<PlacePut(M, p, w)>>) BY <1>2 DEF PutPlace, PlacePut, PlaceRowPut
  <2> QED BY <1>2, <2>1
<1>3. CASE ~Refused /\ w.visits \notin {Unsent, <<>>}
  <2>1. PutPlace(M, p, w)
          = Commit(M, <<PlacePut(M, p, w), ParkVisits(PlacePut(M, p, w), p, Len(w.visits)),
                        OccasionsPut(PlacePut(M, p, w), p, w),
                        DeleteDeparted(OccasionsPut(PlacePut(M, p, w), p, w), p, w.visits)>>)
    BY <1>3 DEF PutPlace, PlacePut, PlaceRowPut, OccasionsPut
  <2> QED BY <1>3, <2>1
<1> QED BY <1>1, <1>2, <1>3

\* A place put again is not written again, nor are its occasions; what was
\* answered ok sent no empty text.
LEMMA PutPlaceSettles ==
    ASSUME NEW L, Lawful(L), IsFiniteSet(Held(L)), NEW p \in Places, NEW w \in PlaceWrites,
           PutPlace(L, p, w).answer = "ok", NEW N, N = PutPlace(L, p, w).log
    PROVE  Settled(N, PutPlace(N, p, w))
<1> DEFINE row == PlaceRowPut(L, p, w)
           upserted == PlacePut(L, p, w)
           parked   == ParkVisits(upserted, p, Len(w.visits))
           replaced == OccasionsPut(upserted, p, w)
           final    == DeleteDeparted(replaced, p, w.visits)
           R == PutPlace(L, p, w)
           ids == VisitIds(w.visits)
           Array == w.visits \notin {Unsent, <<>>}
<1>0. L \in Tables /\ L.places \in [Places -> PlaceRow \cup {NoRow}] BY TableFields DEF Lawful
<1>1. upserted.places = [L.places EXCEPT ![p] = row] BY <1>0 DEF PlacePut, Tables
<1>2. /\ ~(L.places[p] = NoRow /\ w.city = Unsent)
      /\ \/ ~Array /\ R = Commit(L, <<upserted>>)
         \/ /\ Array /\ VisitsWritable(L, p, w.visits)
            /\ R = Commit(L, <<upserted, parked, replaced, final>>)
  <2>1. R # Refuse(L, "invalid") BY RefuseLog
  <2> QED BY <2>1, PutPlaceRuns
<1> HIDE DEF R, upserted, parked, replaced, final
<1>3. /\ Lawful(upserted) /\ Lawful(N)
      /\ ~Array => N = upserted
      /\ Array => N = final /\ Lawful(parked) /\ Lawful(replaced)
  <2>1. CASE ~Array
    <3>1. R = Commit(L, <<upserted>>) BY <1>2, <2>1
    <3>2. N = upserted /\ Lawful(upserted) BY <3>1, OneWrote DEF R
    <3> QED BY <2>1, <3>2
  <2>2. CASE Array
    <3>1. R = Commit(L, <<upserted, parked, replaced, final>>) BY <1>2, <2>2
    <3>2. N = final /\ Lawful(upserted) /\ Lawful(parked) /\ Lawful(replaced) /\ Lawful(final)
      BY <3>1, FourWrote DEF R
    <3> QED BY <2>2, <3>2
  <2> QED BY <2>1, <2>2
<1>4. /\ row \in PlaceRow
      /\ Merge(w.city, row.city) = row.city /\ Merge(w.plan, row.plan) = row.plan
      /\ Merge(w.cover, row.cover) = row.cover
      /\ BlankSent(w.plan) => Blank(row.plan)
  <2> DEFINE old == IF L.places[p] = NoRow THEN [city |-> None, plan |-> None, cover |-> None]
                    ELSE L.places[p]
  <2>1. /\ old.plan \in Opt(Texts) /\ old.cover \in Opt(Media)
        /\ L.places[p] # NoRow => old.city \in Cities
    <3>1. CASE L.places[p] = NoRow BY <3>1 DEF Opt
    <3>2. CASE L.places[p] # NoRow BY <1>0, <3>2 DEF PlaceRow
    <3> QED BY <3>1, <3>2
  <2>2. w.city \in Body(Cities) /\ w.plan \in Nullable(Texts) /\ w.cover \in Nullable(Covers)
    BY DEF PlaceWrites
  <2>3. row = [city |-> Merge(w.city, old.city), plan |-> Merge(w.plan, old.plan),
               cover |-> Merge(w.cover, old.cover)]
    BY DEF PlaceRowPut
  <2> HIDE DEF old, row
  <2>4. Merge(w.city, old.city) \in Cities BY <1>2, <2>1, <2>2 DEF Merge, Body
  <2>5. Merge(w.plan, old.plan) \in Opt(Texts) /\ Merge(w.cover, old.cover) \in Opt(Media)
    BY <2>1, <2>2, MergedColumn, CoversAreMedia
  <2>6. row \in PlaceRow BY <2>3, <2>4, <2>5 DEF PlaceRow
  <2>7. /\ row.city = Merge(w.city, old.city) /\ row.plan = Merge(w.plan, old.plan)
        /\ row.cover = Merge(w.cover, old.cover)
    BY <2>3
  <2>8. BlankSent(w.plan) => Blank(row.plan) BY <2>7 DEF BlankSent, Merge
  <2> QED BY <2>6, <2>7, <2>8, MergedTwice
<1> HIDE DEF row
<1>5. upserted.places[p] = row /\ row # NoRow BY <1>0, <1>1, <1>4, MarkersAreNoRows
<1>6. ~BlankSent(w.plan)
  <2>1. ~Blank(upserted.places[p].plan) BY <1>3, <1>5 DEF Lawful, Checks, Blank
  <2> QED BY <1>4, <1>5, <2>1
<1>7. N \in Tables /\ N.places \in [Places -> PlaceRow \cup {NoRow}] BY <1>3, TableFields DEF Lawful
<1>8. ASSUME Array
      PROVE  /\ Len(w.visits) \in Nat /\ w.visits \in [1 .. Len(w.visits) -> VisitWrites]
             /\ N.places = upserted.places
             /\ \A v \in OccasionsAt(N, p) : v \in ids
             /\ \A v \in Visits : v \in ids => N.visits[v] = Spelled(p, w.visits, v)
             /\ Noted(w.visits)
  <2> DEFINE gone == OccasionsAt(replaced, p) \ ids
             s == w.visits
  <2>0. upserted \in Tables /\ parked \in Tables /\ replaced \in Tables BY <1>3, <1>8 DEF Lawful
  <2>1. s \in BoundedSeq(VisitWrites, MaxVisits) BY <1>8 DEF PlaceWrites, Body
  <2>2. Len(s) \in Nat /\ s \in [1 .. Len(s) -> VisitWrites] /\ DOMAIN s = 1 .. Len(s)
    BY <2>1, ArrayOf, BoundsNat
  <2>3. replaced = UpsertVisits(parked, p, s) BY DEF replaced, OccasionsPut, parked
  <2>4. replaced.places = parked.places BY <2>0, <2>3, UpsertedRows DEF OnlyVisits
  <2>5. parked.places = upserted.places BY <2>0, VisitsTable DEF parked, ParkVisits, OnlyVisits
  <2>6. \A v \in Visits : replaced.visits[v] = IF v \in ids THEN Spelled(p, s, v) ELSE parked.visits[v]
    BY <2>0, <2>3, UpsertSpells
  <2>7. N = DeleteVisits(replaced, gone) BY <1>3, <1>8 DEF final, DeleteDeparted
  <2> HIDE DEF gone, ids
  <2>8. N.places = replaced.places /\ VisitsGone(replaced, N, gone) BY <2>0, <2>7, VisitsDeleted
  <2>9. \A v \in Visits : N.visits[v] = IF v \in gone THEN NoRow ELSE replaced.visits[v]
    BY <2>8 DEF VisitsGone
  <2>10. \A v \in OccasionsAt(N, p) : v \in ids BY <2>9 DEF OccasionsAt, gone
  <2>11. \A v \in Visits : v \in ids => N.visits[v] = Spelled(p, s, v) BY <2>6, <2>9 DEF gone
  <2>12. ASSUME NEW i \in DOMAIN s PROVE ~Blank(s[i].note)
    <3> DEFINE v == s[i].id
               j == CHOOSE k \in DOMAIN s : s[k].id = v
    <3>1. v \in Visits /\ v \in ids BY <2>2 DEF VisitWrites, VisitIds, ids
    <3>2. j \in DOMAIN s /\ s[j].id = s[i].id OBVIOUS
    <3>3. \A a, b \in DOMAIN s : s[a].id = s[b].id => a = b
      BY <1>2, <1>8 DEF VisitsWritable, IsInjective
    <3>4. j = i BY <3>2, <3>3
    <3>5. Spelled(p, s, v) = [place |-> p, trip |-> s[j].trip, ordinal |-> j - 1,
                              at |-> s[j].at, note |-> s[j].note]
      BY DEF Spelled
    <3> HIDE DEF j, v
    <3>6. Spelled(p, s, v).note = s[i].note /\ Spelled(p, s, v).place = p BY <3>4, <3>5
    <3>7. Spelled(p, s, v) \in VisitRow
      <4>1. s[i] \in VisitWrites /\ i - 1 \in Nat BY <2>2, ArrayOrdinal
      <4>2. s[i].trip \in Trips /\ s[i].at \in Times /\ s[i].note \in Opt(Texts) BY <4>1 DEF VisitWrites
      <4> QED BY <3>4, <3>5, <4>1, <4>2 DEF VisitRow
    <3>8. N.visits[v] = Spelled(p, s, v) /\ N.visits[v] # NoRow BY <2>11, <3>1, <3>7, MarkersAreNoRows
    <3>9. ~Blank(N.visits[v].note) BY <1>3, <3>1, <3>8 DEF Lawful, Checks, Blank
    <3> QED BY <3>6, <3>8, <3>9
  <2> QED BY <2>2, <2>4, <2>5, <2>8, <2>10, <2>11, <2>12 DEF Noted, ids
<1>9. N.places[p] = row BY <1>3, <1>5, <1>8
<1>10. PlacePut(N, p, w) = N
  <2>1. [city |-> row.city, plan |-> row.plan, cover |-> row.cover] = row BY <1>4 DEF PlaceRow
  <2>2. PlaceRowPut(N, p, w) = N.places[p] BY <1>4, <1>5, <1>9, <2>1 DEF PlaceRowPut
  <2>3. [N.places EXCEPT ![p] = N.places[p]] = N.places BY <1>7, SameRow
  <2> QED BY <1>7, <2>2, <2>3, SameTables DEF PlacePut
<1> DEFINE again == PutPlace(N, p, w)
<1>11. IsFiniteSet(Held(N)) BY PutPlaceTables
<1>12. again.answer # "constraint"
  <2>1. w.visits = Unsent \/ Noted(w.visits)
    <3>1. CASE w.visits = <<>> BY <3>1 DEF Noted
    <3> QED BY <1>8, <3>1
  <2> QED BY <1>3, <1>6, <1>11, <2>1, PutPlaceServed
<1>13. again.log = N
  <2>1. CASE again = Refuse(N, "invalid") BY <2>1, RefuseLog
  <2>2. CASE again = Commit(N, <<PlacePut(N, p, w)>>)
    <3> HIDE DEF again
    <3> QED BY <1>10, <2>2, OneLog
  <2>3. ASSUME Array, again = Commit(N, <<N, ParkVisits(N, p, Len(w.visits)), OccasionsPut(N, p, w),
                                          DeleteDeparted(OccasionsPut(N, p, w), p, w.visits)>>)
        PROVE  again.log = N
    <3>1. DeleteDeparted(OccasionsPut(N, p, w), p, w.visits) = N
      BY <1>3, <1>8, <1>11, <2>3, OccasionsSettled DEF OccasionsPut
    <3> HIDE DEF again
    <3> QED BY <2>3, <3>1, FourLog
  <2> QED BY <1>10, <2>1, <2>2, <2>3, PutPlaceRuns
<1> QED BY <1>12, <1>13 DEF Settled

\* Whatever a client sends, but for a request for a new link, a repeat of what
\* was answered ok settles.
LEMMA PerformSettles ==
    ASSUME NEW L, Coherent(L), Counted(L), NEW r, Asked(r), r.op # "NewShareLink",
           NEW now \in Moments, NEW later, Perform(L, r, now).answer = "ok", NEW N, N = Perform(L, r, now).log
    PROVE  Settled(N, Perform(N, r, later))
<1>0. Lawful(L) /\ IsFiniteSet(Held(L)) /\ Numbered(L) BY DEF Coherent, Counted
<1>a. r.op \in Ops BY AskedCases
<1>1. CASE r.op = "PutTrip"
  <2>1. /\ r.id \in Trips /\ r.body \in TripWrites
        /\ Perform(L, r, now) = PutTrip(L, r.id, r.body) /\ Perform(N, r, later) = PutTrip(N, r.id, r.body)
    BY <1>1, AskedCases
  <2> QED BY <1>0, <2>1, PutTripSettles
<1>2. CASE r.op = "DeleteTrip"
  <2>1. r.id \in Trips /\ Perform(L, r, now) = DeleteTrip(L, r.id) /\ Perform(N, r, later) = DeleteTrip(N, r.id)
    BY <1>2, AskedCases
  <2> QED BY <1>0, <2>1, DeleteTripSettles
<1>3. CASE r.op = "PutCity"
  <2>1. /\ r.id \in Cities /\ r.body \in CityWrites
        /\ Perform(L, r, now) = PutCity(L, r.id, r.body) /\ Perform(N, r, later) = PutCity(N, r.id, r.body)
    BY <1>3, AskedCases
  <2> QED BY <1>0, <2>1, PutCitySettles
<1>4. CASE r.op = "PutPlace"
  <2>1. /\ r.id \in Places /\ r.body \in PlaceWrites
        /\ Perform(L, r, now) = PutPlace(L, r.id, r.body) /\ Perform(N, r, later) = PutPlace(N, r.id, r.body)
    BY <1>4, AskedCases
  <2> QED BY <1>0, <2>1, PutPlaceSettles
<1>5. CASE r.op = "RemovePlace"
  <2>1. /\ r.id \in Places
        /\ Perform(L, r, now) = RemovePlace(L, r.id, r.body) /\ Perform(N, r, later) = RemovePlace(N, r.id, r.body)
    BY <1>5, AskedCases
  <2> QED BY <1>0, <2>1, RemovePlaceSettles
<1>6. CASE r.op = "PutPhoto"
  <2>1. /\ r.id \in Photos /\ r.body \in PhotoWrites
        /\ Perform(L, r, now) = PutPhoto(L, r.id, r.body) /\ Perform(N, r, later) = PutPhoto(N, r.id, r.body)
    BY <1>6, AskedCases
  <2> QED BY <1>0, <2>1, PutPhotoSettles
<1>7. CASE r.op = "DeletePhoto"
  <2>1. r.id \in Photos /\ Perform(L, r, now) = DeletePhoto(L, r.id) /\ Perform(N, r, later) = DeletePhoto(N, r.id)
    BY <1>7, AskedCases
  <2> QED BY <1>0, <2>1, DeletePhotoSettles
<1>8. CASE r.op = "SnoozePhotos"
  <2>1. /\ r.body \in Laters
        /\ Perform(L, r, now) = SnoozePhotos(L, r.id, r.body) /\ Perform(N, r, later) = SnoozePhotos(N, r.id, r.body)
    BY <1>8, AskedCases
  <2> QED BY <1>0, <2>1, SnoozePhotosSettles
<1>9. CASE r.op = "RefilePhoto"
  <2>1. /\ r.id \in Photos /\ r.body \in Refilings
        /\ Perform(L, r, now) = RefilePhoto(L, r.id, r.body) /\ Perform(N, r, later) = RefilePhoto(N, r.id, r.body)
    BY <1>9, AskedCases
  <2> QED BY <1>0, <2>1, RefilePhotoSettles
<1>10. CASE r.op = "PutWalk"
  <2>1. /\ r.id \in Walks /\ r.body \in WalkWrites
        /\ Perform(L, r, now) = PutWalk(L, r.id, r.body) /\ Perform(N, r, later) = PutWalk(N, r.id, r.body)
    BY <1>10, AskedCases
  <2> QED BY <1>0, <2>1, PutWalkSettles
<1>11. CASE r.op = "SetShareOptions"
  <2>1. /\ r.id \in Trips /\ r.body \in ShareWrites
        /\ Perform(L, r, now) = SetShareOptions(L, r.id, r.body)
        /\ Perform(N, r, later) = SetShareOptions(N, r.id, r.body)
    BY <1>11, AskedCases
  <2> QED BY <1>0, <2>1, SetShareOptionsSettles
<1>12. CASE r.op = "StopSharing"
  <2>1. r.id \in Trips /\ Perform(L, r, now) = StopSharing(L, r.id, now) /\ Perform(N, r, later) = StopSharing(N, r.id, later)
    BY <1>12, AskedCases
  <2> QED BY <1>0, <2>1, StopSharingSettles
<1>13. CASE r.op = "SetTravellerName"
  <2>1. Perform(L, r, now) = SetTravellerName(L, r.body) /\ Perform(N, r, later) = SetTravellerName(N, r.body)
    BY <1>13, AskedCases
  <2> QED BY <1>0, <2>1, SetTravellerNameSettles
<1>14. CASE r.op = "BeginMedia"
  <2>1. r.id \in Media /\ Perform(L, r, now) = BeginMedia(L, r.id) /\ Perform(N, r, later) = BeginMedia(N, r.id)
    BY <1>14, AskedCases
  <2> QED BY <1>0, <2>1, BeginMediaSettles
<1>15. CASE r.op = "MarkMediaUploaded"
  <2>1. /\ r.id \in Media
        /\ Perform(L, r, now) = MarkMediaUploaded(L, r.id) /\ Perform(N, r, later) = MarkMediaUploaded(N, r.id)
    BY <1>15, AskedCases
  <2> QED BY <1>0, <2>1, MarkMediaUploadedSettles
<1> QED BY <1>a, <1>1, <1>2, <1>3, <1>4, <1>5, <1>6, <1>7, <1>8, <1>9, <1>10, <1>11, <1>12,
           <1>13, <1>14, <1>15 DEF Ops

\* A client that lost the answer may send the request again: unless it asked
\* for a new share link, the repeat changes nothing and is not failed by the
\* schema, at whatever moment and whatever the first one did to itineraries,
\* occasions and filings.
THEOREM RetriesSettle ==
    Spec => [][answer' = "ok" /\ request'.op # "NewShareLink" =>
                  \A later \in Moments : Settled(log', Perform(log', request', later))]_vars
<1> DEFINE Twice == answer' = "ok" /\ request'.op # "NewShareLink" =>
                       \A later \in Moments : Settled(log', Perform(log', request', later))
<1>1. JInv /\ [Next]_vars => [Twice]_vars
  <2> SUFFICES ASSUME JInv, Next, answer' = "ok", request'.op # "NewShareLink", NEW later \in Moments
               PROVE  Settled(log', Perform(log', request', later))
    OBVIOUS
  <2>1. PICK r, now : /\ now \in Moments /\ Asked(r) /\ request' = r /\ began' = now
                      /\ log' = Perform(log, r, now).log /\ answer' = Perform(log, r, now).answer
    BY StepServes
  <2>2. Coherent(log) /\ Counted(log) BY DEF JInv, IInv
  <2> DEFINE N == log'
  <2>3. N = Perform(log, r, now).log /\ Perform(log, r, now).answer = "ok" /\ r.op # "NewShareLink"
    BY <2>1
  <2> HIDE DEF N
  <2>4. Settled(N, Perform(N, r, later)) BY <2>1, <2>2, <2>3, PerformSettles
  <2> QED BY <2>1, <2>4 DEF N
<1> QED BY <1>1, CountedInvariance, PTL DEF Spec

\* Where no link is minted, every request of the log may be repeated.
THEOREM RetriesWithoutLinks ==
    ASSUME Tokens = {}
    PROVE  Spec => RetryIsSafe
<1> DEFINE Twice == answer' = "ok" => \A now \in Moments :
                                          LET again == Perform(log', request', now)
                                          IN  again.log = log' /\ again.answer # "constraint"
           Other == answer' = "ok" /\ request'.op # "NewShareLink" =>
                       \A later \in Moments : Settled(log', Perform(log', request', later))
<1>1. JInv /\ [Next]_vars /\ [Other]_vars => [Twice]_vars
  <2> SUFFICES ASSUME JInv, Next, Other, answer' = "ok" PROVE Twice OBVIOUS
  <2>1. PICK r : Asked(r) /\ request' = r BY StepServes
  <2>2. r.op # "NewShareLink"
    <3>1. r.op = "NewShareLink" => r.body \in Tokens BY <2>1, AskedCases
    <3> QED BY <3>1
  <2>3. \A now \in Moments : Settled(log', Perform(log', request', now)) BY <2>1, <2>2
  <2> QED BY <2>3 DEF Settled
<1> QED BY <1>1, CountedInvariance, RetriesSettle, PTL DEF Spec, RetryIsSafe

=============================================================================
