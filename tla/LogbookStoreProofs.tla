------------------------- MODULE LogbookStoreProofs -------------------------
(***************************************************************************)
(* Safety of LogbookStore for every choice of its constants.               *)
(***************************************************************************)
EXTENDS LogbookStore, TLAPS

\* What a transaction can leave behind, whatever it tried to do: the log it
\* found, or a lawful one.
LEMMA CommitCases ==
    ASSUME NEW L, NEW s, Len(s) \in DOMAIN s
    PROVE  \/ Commit(L, s) = [log |-> L, answer |-> "constraint"]
           \/ /\ Commit(L, s) = [log |-> s[Len(s)], answer |-> "ok"]
              /\ \A i \in DOMAIN s : Lawful(s[i])
BY DEF Commit, Executes

\* A transaction of one statement commits its lawful result or nothing.
LEMMA OneStatement ==
    ASSUME NEW L, NEW a
    PROVE  \/ Commit(L, <<a>>) = [log |-> L, answer |-> "constraint"]
           \/ Commit(L, <<a>>) = [log |-> a, answer |-> "ok"] /\ Lawful(a)
<1> DEFINE s == <<a>>
<1>1. Len(s) = 1 /\ DOMAIN s = {1} /\ s[1] = a OBVIOUS
<1> HIDE DEF s
<1>2. \/ Commit(L, s) = [log |-> L, answer |-> "constraint"]
      \/ /\ Commit(L, s) = [log |-> s[Len(s)], answer |-> "ok"]
         /\ \A i \in DOMAIN s : Lawful(s[i])
  BY <1>1, CommitCases
<1> QED BY <1>1, <1>2 DEF s

\* A transaction of two statements commits only if both states were lawful.
LEMMA TwoStatements ==
    ASSUME NEW L, NEW a, NEW b
    PROVE  \/ Commit(L, <<a, b>>) = [log |-> L, answer |-> "constraint"]
           \/ Commit(L, <<a, b>>) = [log |-> b, answer |-> "ok"] /\ Lawful(a) /\ Lawful(b)
<1> DEFINE s == <<a, b>>
<1>1. Len(s) = 2 /\ DOMAIN s = {1, 2} /\ s[1] = a /\ s[2] = b OBVIOUS
<1> HIDE DEF s
<1>2. \/ Commit(L, s) = [log |-> L, answer |-> "constraint"]
      \/ /\ Commit(L, s) = [log |-> s[Len(s)], answer |-> "ok"]
         /\ \A i \in DOMAIN s : Lawful(s[i])
  BY <1>1, CommitCases
<1> QED BY <1>1, <1>2 DEF s

\* A transaction of four statements commits only if all four states were
\* lawful.
LEMMA FourStatements ==
    ASSUME NEW L, NEW a, NEW b, NEW c, NEW d
    PROVE  \/ Commit(L, <<a, b, c, d>>) = [log |-> L, answer |-> "constraint"]
           \/ /\ Commit(L, <<a, b, c, d>>) = [log |-> d, answer |-> "ok"]
              /\ Lawful(a) /\ Lawful(b) /\ Lawful(c) /\ Lawful(d)
<1> DEFINE s == <<a, b, c, d>>
<1>1. Len(s) = 4 /\ DOMAIN s = {1, 2, 3, 4} /\ s[1] = a /\ s[2] = b /\ s[3] = c /\ s[4] = d
  OBVIOUS
<1> HIDE DEF s
<1>2. \/ Commit(L, s) = [log |-> L, answer |-> "constraint"]
      \/ /\ Commit(L, s) = [log |-> s[Len(s)], answer |-> "ok"]
         /\ \A i \in DOMAIN s : Lawful(s[i])
  BY <1>1, CommitCases
<1> QED BY <1>1, <1>2 DEF s

-----------------------------------------------------------------------------
(***************************************************************************)
(* The inductive invariant, as a predicate of one log.                     *)
(***************************************************************************)

Coherent(L) == Lawful(L) /\ PairsCoherent(L) /\ NamesCommitted(L)

\* An operation's result keeps the invariant and answers what handlers know.
Sound(result) == Coherent(result.log) /\ result.answer \in Answers

\* A write that touches neither photographs nor occasions keeps the filing
\* pairs.
LEMMA SameFiling ==
    ASSUME NEW L, NEW M, PairsCoherent(L), M.photos = L.photos, M.visits = L.visits
    PROVE  PairsCoherent(M)
BY DEF PairsCoherent

\* A write that touches no cover, photograph or object keeps what names an
\* object.
LEMMA SameNames ==
    ASSUME NEW L, NEW M, NamesCommitted(L), M.photos = L.photos, M.trips = L.trips,
           M.cities = L.cities, M.places = L.places, M.media = L.media
    PROVE  NamesCommitted(M)
BY DEF NamesCommitted, CoverCommitted

\* An operation that refuses leaves the log alone.
LEMMA RefusalSound ==
    ASSUME NEW L, Coherent(L), NEW why \in Answers
    PROVE  Sound(Refuse(L, why))
BY DEF Sound, Refuse

\* An operation of one statement is sound if its lawful result is coherent.
LEMMA OneSound ==
    ASSUME NEW L, Coherent(L), NEW a, Lawful(a) => Coherent(a)
    PROVE  Sound(Commit(L, <<a>>))
<1>1. CASE Commit(L, <<a>>) = [log |-> L, answer |-> "constraint"]
  BY <1>1 DEF Sound, Answers
<1>2. CASE Commit(L, <<a>>) = [log |-> a, answer |-> "ok"] /\ Lawful(a)
  BY <1>2 DEF Sound, Answers
<1> QED BY <1>1, <1>2, OneStatement

\* An operation of two statements is sound if its lawful end is coherent.
LEMMA TwoSound ==
    ASSUME NEW L, Coherent(L), NEW a, NEW b, Lawful(a) /\ Lawful(b) => Coherent(b)
    PROVE  Sound(Commit(L, <<a, b>>))
<1>1. CASE Commit(L, <<a, b>>) = [log |-> L, answer |-> "constraint"]
  BY <1>1 DEF Sound, Answers
<1>2. CASE Commit(L, <<a, b>>) = [log |-> b, answer |-> "ok"] /\ Lawful(a) /\ Lawful(b)
  BY <1>2 DEF Sound, Answers
<1> QED BY <1>1, <1>2, TwoStatements

\* An operation of four statements is sound if its lawful end is coherent.
LEMMA FourSound ==
    ASSUME NEW L, Coherent(L), NEW a, NEW b, NEW c, NEW d,
           Lawful(a) /\ Lawful(b) /\ Lawful(c) /\ Lawful(d) => Coherent(d)
    PROVE  Sound(Commit(L, <<a, b, c, d>>))
<1>1. CASE Commit(L, <<a, b, c, d>>) = [log |-> L, answer |-> "constraint"]
  BY <1>1 DEF Sound, Answers
<1>2. CASE /\ Commit(L, <<a, b, c, d>>) = [log |-> d, answer |-> "ok"]
           /\ Lawful(a) /\ Lawful(b) /\ Lawful(c) /\ Lawful(d)
  BY <1>2 DEF Sound, Answers
<1> QED BY <1>1, <1>2, FourStatements

\* The types of a log's tables, one by one.
LEMMA TableFields ==
    ASSUME NEW L \in Tables
    PROVE  /\ L.trips \in [Trips -> TripRow \cup {NoRow}]
           /\ L.cities \in [Cities -> CityRow \cup {NoRow}]
           /\ L.places \in [Places -> PlaceRow \cup {NoRow}]
           /\ L.visits \in [Visits -> VisitRow \cup {NoRow}]
           /\ L.photos \in [Photos -> PhotoRow \cup {NoRow}]
           /\ L.media \in [Media -> {"absent", "begun", "committed"}]
BY DEF Tables

-----------------------------------------------------------------------------
(***************************************************************************)
(* The statements that delete rows.                                        *)
(***************************************************************************)

Consistent(L) == L \in Tables /\ PairsCoherent(L) /\ NamesCommitted(L)

\* Deleting photographs keeps the other rows' filings and names.
LEMMA DeletePhotosConsistent ==
    ASSUME NEW L, Consistent(L), NEW S
    PROVE  Consistent(DeletePhotos(L, S))
<1> DEFINE M == DeletePhotos(L, S)
<1>0. L \in Tables BY DEF Consistent
<1>1. /\ M.visits = L.visits /\ M.trips = L.trips /\ M.cities = L.cities
      /\ M.places = L.places /\ M.media = L.media
      /\ M.photos = [h \in Photos |-> IF h \in S THEN NoRow ELSE L.photos[h]]
  BY <1>0 DEF DeletePhotos, Tables
<1>2. M \in Tables
  <2>1. [h \in Photos |-> IF h \in S THEN NoRow ELSE L.photos[h]]
            \in [Photos -> PhotoRow \cup {NoRow}]
    BY <1>0, TableFields
  <2> QED BY <1>0, <2>1 DEF DeletePhotos, Tables
<1> HIDE DEF M
<1>3. PairsCoherent(M) BY <1>1 DEF Consistent, PairsCoherent
<1>4. NamesCommitted(M) BY <1>1 DEF Consistent, NamesCommitted, CoverCommitted
<1> QED BY <1>2, <1>3, <1>4 DEF Consistent, M

\* Unfiling a photograph from a deleted occasion touches no other column.
LEMMA UnfiledPhotos ==
    ASSUME NEW L \in Tables, NEW S, NEW h \in Photos
    PROVE  LET f == DeleteVisits(L, S).photos[h]
           IN  /\ f \in PhotoRow \cup {NoRow}
               /\ L.photos[h] = NoRow => f = NoRow
               /\ L.photos[h] # NoRow =>
                     /\ f.asset = L.photos[h].asset /\ f.place = L.photos[h].place
                     /\ f.trip = L.photos[h].trip
                     /\ f.visit = IF L.photos[h].visit \in S THEN None ELSE L.photos[h].visit
<1>1. L.photos[h] \in PhotoRow \cup {NoRow} BY TableFields
<1>2. DeleteVisits(L, S).photos[h] =
          IF L.photos[h] # NoRow /\ L.photos[h].visit \in S
          THEN Unfile(L.photos[h]) ELSE L.photos[h]
  BY DEF DeleteVisits, Tables
<1>3. CASE L.photos[h] = NoRow BY <1>2, <1>3
<1>4. CASE L.photos[h] # NoRow /\ L.photos[h].visit \notin S BY <1>1, <1>2, <1>4
<1>5. CASE L.photos[h] # NoRow /\ L.photos[h].visit \in S
  <2>1. L.photos[h] \in PhotoRow BY <1>1, <1>5
  <2>2. DeleteVisits(L, S).photos[h] = [L.photos[h] EXCEPT !.visit = None] BY <1>2, <1>5 DEF Unfile
  <2> QED BY <1>5, <2>1, <2>2 DEF PhotoRow, Opt
<1> QED BY <1>3, <1>4, <1>5

\* Deleting occasions nulls them on photographs, whose pairs stay coherent.
LEMMA DeleteVisitsConsistent ==
    ASSUME NEW L, Consistent(L), NEW S
    PROVE  Consistent(DeleteVisits(L, S))
<1> DEFINE M == DeleteVisits(L, S)
<1>0. L \in Tables BY DEF Consistent
<1>1. /\ M.trips = L.trips /\ M.cities = L.cities /\ M.places = L.places /\ M.media = L.media
      /\ M.visits = [v \in Visits |-> IF v \in S THEN NoRow ELSE L.visits[v]]
  BY <1>0 DEF DeleteVisits, Tables
<1>2. M \in Tables
  <2>1. M.visits \in [Visits -> VisitRow \cup {NoRow}] BY <1>0, <1>1, TableFields
  <2>2. M.photos \in [Photos -> PhotoRow \cup {NoRow}]
    <3>1. M.photos = [h \in Photos |-> M.photos[h]] BY <1>0 DEF DeleteVisits, Tables
    <3>2. \A h \in Photos : M.photos[h] \in PhotoRow \cup {NoRow} BY <1>0, UnfiledPhotos
    <3> HIDE DEF M
    <3> QED BY <3>1, <3>2
  <2>3. M = [L EXCEPT !.visits = M.visits, !.photos = M.photos]
    BY <1>0 DEF DeleteVisits, Tables
  <2> HIDE DEF M
  <2> QED BY <1>0, <2>1, <2>2, <2>3 DEF Tables
<1>3. PairsCoherent(M)
  <2> SUFFICES ASSUME NEW h \in Photos, M.photos[h] # NoRow, M.photos[h].visit # None
               PROVE  /\ M.visits[M.photos[h].visit] # NoRow
                      /\ M.visits[M.photos[h].visit].place = M.photos[h].place
    BY DEF PairsCoherent
  <2>1. /\ L.photos[h] # NoRow /\ L.photos[h].visit \notin S
        /\ M.photos[h].visit = L.photos[h].visit /\ M.photos[h].place = L.photos[h].place
    BY <1>0, UnfiledPhotos
  <2>2. L.photos[h].visit \in Visits BY <1>0, <2>1, TableFields DEF PhotoRow, Opt
  <2>3. M.visits[L.photos[h].visit] = L.visits[L.photos[h].visit] BY <1>1, <2>1, <2>2
  <2> QED BY <2>1, <2>3 DEF Consistent, PairsCoherent
<1>4. NamesCommitted(M)
  <2>1. \A h \in Photos : M.photos[h] # NoRow =>
           L.photos[h] # NoRow /\ M.photos[h].asset = L.photos[h].asset
    BY <1>0, UnfiledPhotos
  <2> HIDE DEF M
  <2> QED BY <1>1, <2>1 DEF Consistent, NamesCommitted, CoverCommitted
<1> QED BY <1>2, <1>3, <1>4 DEF Consistent

\* Deleting a place takes its occasions along and nulls both on photographs.
LEMMA DeletePlaceConsistent ==
    ASSUME NEW L, Consistent(L), NEW p \in Places, Lawful(DeletePlaceRow(L, p))
    PROVE  Coherent(DeletePlaceRow(L, p))
<1> DEFINE S == OccasionsAt(L, p)
           M == DeleteVisits(L, S)
           N == DeletePlaceRow(L, p)
<1>0. L \in Tables /\ Consistent(M) /\ M \in Tables
  BY DeleteVisitsConsistent DEF Consistent
<1>1. /\ N.trips = M.trips /\ N.cities = M.cities /\ N.visits = M.visits
      /\ N.places = [M.places EXCEPT ![p] = NoRow] /\ N.media = M.media
      /\ N.photos = [h \in Photos |->
            IF h \in PhotosAt(L, p) THEN Unplace(M.photos[h]) ELSE M.photos[h]]
  BY <1>0 DEF DeletePlaceRow, Tables
<1> HIDE DEF N
<1>2. ASSUME NEW h \in Photos, h \in PhotosAt(L, p)
      PROVE  N.photos[h].visit = None /\ N.photos[h].asset = M.photos[h].asset
  <2>1. L.photos[h] # NoRow /\ L.photos[h].place = p BY <1>2 DEF PhotosAt
  <2>2. L.photos[h].visit # None => L.photos[h].visit \in S
    <3> SUFFICES ASSUME L.photos[h].visit # None PROVE L.photos[h].visit \in S OBVIOUS
    <3>1. L.photos[h].visit \in Visits BY <1>0, <2>1, TableFields DEF PhotoRow, Opt
    <3> QED BY <2>1, <3>1 DEF Consistent, PairsCoherent, OccasionsAt
  <2>3. M.photos[h].visit = None BY <1>0, <2>1, <2>2, UnfiledPhotos
  <2>4. M.photos[h] \in PhotoRow \/ M.photos[h] = NoRow BY <1>0, UnfiledPhotos
  <2>5. N.photos[h] = Unplace(M.photos[h]) BY <1>1, <1>2
  <2>6. Unplace(M.photos[h]).visit = M.photos[h].visit /\ Unplace(M.photos[h]).asset = M.photos[h].asset
    BY DEF Unplace
  <2> QED BY <2>3, <2>5, <2>6
<1>3. \A h \in Photos : h \notin PhotosAt(L, p) => N.photos[h] = M.photos[h] BY <1>1
<1>4. ASSUME NEW h \in Photos, h \in PhotosAt(L, p) PROVE M.media[M.photos[h].asset] = "committed"
  <2>1. L.photos[h] # NoRow /\ M.photos[h].asset = L.photos[h].asset
    BY <1>0, <1>4, UnfiledPhotos DEF PhotosAt
  <2>2. M.media = L.media BY <1>0 DEF DeleteVisits, Tables
  <2> QED BY <2>1, <2>2 DEF Consistent, NamesCommitted
<1> HIDE DEF M
<1>5. PairsCoherent(N) BY <1>0, <1>1, <1>2, <1>3 DEF Consistent, PairsCoherent
<1>6. NamesCommitted(N)
  <2>1. \A q \in Places : N.places[q] # NoRow => N.places[q] = M.places[q]
    BY <1>0, <1>1, TableFields
  <2> QED BY <1>0, <1>1, <1>2, <1>3, <1>4, <2>1 DEF Consistent, NamesCommitted, CoverCommitted
<1> QED BY <1>5, <1>6 DEF Coherent, N

\* Deleting a trip, with everything the cascade reaches, keeps what is left
\* coherent.
LEMMA DeleteTripConsistent ==
    ASSUME NEW L, Consistent(L), NEW t \in Trips, Lawful(DeleteTripRow(L, t))
    PROVE  Coherent(DeleteTripRow(L, t))
<1> DEFINE M == DeleteVisits(DeletePhotos(L, PhotosOn(L, t)), VisitsOn(L, t))
           N == DeleteTripRow(L, t)
<1>0. Consistent(M) /\ M \in Tables
  BY DeletePhotosConsistent, DeleteVisitsConsistent DEF Consistent
<1>1. /\ N.photos = M.photos /\ N.cities = M.cities /\ N.visits = M.visits
      /\ N.places = M.places /\ N.media = M.media
      /\ N.trips = [M.trips EXCEPT ![t] = NoRow]
  BY <1>0 DEF DeleteTripRow, Tables
<1> HIDE DEF M, N
<1>2. \A s \in Trips : N.trips[s] # NoRow => N.trips[s] = M.trips[s]
  BY <1>0, <1>1, TableFields
<1>3. PairsCoherent(N) BY <1>0, <1>1, SameFiling DEF Consistent
<1>4. NamesCommitted(N) BY <1>0, <1>1, <1>2 DEF Consistent, NamesCommitted, CoverCommitted
<1> QED BY <1>3, <1>4 DEF Coherent, N

-----------------------------------------------------------------------------
(***************************************************************************)
(* The statements that write occasions and filings.  None of them moves an *)
(* occasion that the log holds to another place.                           *)
(***************************************************************************)

\* M differs from L in its visits only, and every occasion L holds stands where it stood.
OccasionsStand(L, M) ==
    /\ M.photos = L.photos /\ M.trips = L.trips /\ M.cities = L.cities
    /\ M.places = L.places /\ M.media = L.media
    /\ \A v \in Visits : L.visits[v] # NoRow => M.visits[v].place = L.visits[v].place

\* A lawful write that leaves every occasion at its place keeps the log
\* coherent.
LEMMA StandingCoherent ==
    ASSUME NEW L, Coherent(L), NEW M, Lawful(M), OccasionsStand(L, M)
    PROVE  Coherent(M)
<1>0. M \in Tables /\ References(M) BY DEF Lawful
<1>1. PairsCoherent(M)
  <2> SUFFICES ASSUME NEW h \in Photos, M.photos[h] # NoRow, M.photos[h].visit # None
               PROVE  /\ M.visits[M.photos[h].visit] # NoRow
                      /\ M.visits[M.photos[h].visit].place = M.photos[h].place
    BY DEF PairsCoherent
  <2>1. M.photos[h].visit \in Visits BY <1>0, TableFields DEF PhotoRow, Opt
  <2>2. M.visits[M.photos[h].visit] # NoRow BY <1>0 DEF References
  <2> QED BY <2>1, <2>2 DEF OccasionsStand, Coherent, PairsCoherent
<1>2. NamesCommitted(M) BY SameNames DEF Coherent, OccasionsStand
<1> QED BY <1>1, <1>2 DEF Coherent

\* Parking ordinals out of the way moves no occasion to another place.
LEMMA ParkStands ==
    ASSUME NEW L \in Tables, NEW p, NEW n
    PROVE  /\ OccasionsStand(L, ParkVisits(L, p, n))
           /\ \A v \in Visits : ParkVisits(L, p, n).visits[v].place = L.visits[v].place
<1> DEFINE M == ParkVisits(L, p, n)
           offset == Max({n, NextOrdinal({L.visits[v].ordinal : v \in OccasionsAt(L, p)})})
<1>1. /\ M.photos = L.photos /\ M.trips = L.trips /\ M.cities = L.cities
      /\ M.places = L.places /\ M.media = L.media
      /\ M.visits = [v \in Visits |->
            IF v \in OccasionsAt(L, p) THEN Renumber(L.visits[v], L.visits[v].ordinal + offset)
            ELSE L.visits[v]]
  BY DEF ParkVisits, Tables
<1> HIDE DEF M, offset
<1>2. \A r, n_1 : Renumber(r, n_1).place = r.place BY DEF Renumber
<1>3. \A v \in Visits : M.visits[v].place = L.visits[v].place BY <1>1, <1>2
<1> QED BY <1>1, <1>3 DEF OccasionsStand, M

\* Parking ordinals opens no occasion.
LEMMA ParkOpensNothing ==
    ASSUME NEW L \in Tables, NEW p, NEW n, NEW v \in Visits, ParkVisits(L, p, n).visits[v] # NoRow
    PROVE  L.visits[v] # NoRow
<1> SUFFICES ASSUME L.visits[v] = NoRow PROVE ParkVisits(L, p, n).visits[v] = NoRow OBVIOUS
<1>1. v \notin OccasionsAt(L, p) BY DEF OccasionsAt
<1> QED BY <1>1 DEF ParkVisits, Tables

\* The ids in the array of a place's body are ids of occasions.
LEMMA ArrayIds ==
    ASSUME NEW w \in PlaceWrites, w.visits # Unsent, NEW v \in VisitIds(w.visits)
    PROVE  v \in Visits
<1>1. w.visits \in BoundedSeq(VisitWrites, MaxVisits) BY DEF PlaceWrites, Body
<1>2. PICK m \in 0 .. MaxVisits : w.visits \in [1 .. m -> VisitWrites] BY <1>1 DEF BoundedSeq, SeqOf
<1>3. \A i \in DOMAIN w.visits : w.visits[i] \in VisitWrites BY <1>2
<1> QED BY <1>3 DEF VisitIds, VisitWrites

\* Renumbering a place by time moves no occasion to another place.
LEMMA RenumberStands ==
    ASSUME NEW L \in Tables, NEW p
    PROVE  /\ OccasionsStand(L, RenumberByTime(L, p))
           /\ \A v \in Visits : RenumberByTime(L, p).visits[v].place = L.visits[v].place
<1> DEFINE M == RenumberByTime(L, p)
           Rank(v) == Cardinality({u \in OccasionsAt(L, p) : Precedes(L, u, v)})
<1>1. /\ M.photos = L.photos /\ M.trips = L.trips /\ M.cities = L.cities
      /\ M.places = L.places /\ M.media = L.media
      /\ M.visits = [v \in Visits |->
            IF v \in OccasionsAt(L, p) THEN Renumber(L.visits[v], Rank(v)) ELSE L.visits[v]]
  BY DEF RenumberByTime, Tables
<1> HIDE DEF M, Rank
<1>2. \A r, n : Renumber(r, n).place = r.place BY DEF Renumber
<1>3. \A v \in Visits : M.visits[v].place = L.visits[v].place BY <1>1, <1>2
<1> QED BY <1>1, <1>3 DEF OccasionsStand, M

\* Opening an occasion leaves the others at their places.
LEMMA InsertStands ==
    ASSUME NEW L \in Tables, NEW v \in Visits, L.visits[v] = NoRow, NEW p, NEW t, NEW at
    PROVE  OccasionsStand(L, InsertVisit(L, v, p, t, at))
<1> DEFINE M == InsertVisit(L, v, p, t, at)
<1>1. /\ M.photos = L.photos /\ M.trips = L.trips /\ M.cities = L.cities
      /\ M.places = L.places /\ M.media = L.media
      /\ \A u \in Visits : u # v => M.visits[u] = L.visits[u]
  BY TableFields DEF InsertVisit, Tables
<1> HIDE DEF M
<1> QED BY <1>1 DEF OccasionsStand, M

\* The array's own occasions are written at p; refuseVisitsHeldElsewhere has
\* seen to it that the ones the log held were already there.
LEMMA UpsertStands ==
    ASSUME NEW L \in Tables, NEW p, NEW visits, ~HeldElsewhere(L, p, visits)
    PROVE  OccasionsStand(L, UpsertVisits(L, p, visits))
<1> DEFINE M == UpsertVisits(L, p, visits)
           Sent(v) == CHOOSE i \in DOMAIN visits : visits[i].id = v
           Row(v) == [place |-> p, trip |-> visits[Sent(v)].trip, ordinal |-> Sent(v) - 1,
                      at |-> visits[Sent(v)].at, note |-> visits[Sent(v)].note]
<1>1. /\ M.photos = L.photos /\ M.trips = L.trips /\ M.cities = L.cities
      /\ M.places = L.places /\ M.media = L.media
      /\ M.visits = [v \in Visits |-> IF v \notin VisitIds(visits) THEN L.visits[v] ELSE Row(v)]
  BY DEF UpsertVisits, Tables
<1>2. \A v : Row(v).place = p OBVIOUS
<1> HIDE DEF M, Row
<1>3. \A v \in Visits : L.visits[v] # NoRow => M.visits[v].place = L.visits[v].place
  BY <1>1, <1>2 DEF HeldElsewhere
<1> QED BY <1>1, <1>3 DEF OccasionsStand, M

-----------------------------------------------------------------------------
(***************************************************************************)
(* One lemma per operation.                                                *)
(***************************************************************************)

\* PutTrip keeps the log coherent.
LEMMA PutTripSound ==
    ASSUME NEW L, Coherent(L), NEW t \in Trips, NEW w \in TripWrites
    PROVE  Sound(PutTrip(L, t, w))
<1> DEFINE old == BeforeTrip(L, t)
           row == [old EXCEPT !.start = Merge(w.start, old.start), !.end = Merge(w.end, old.end),
                              !.summary = Merge(w.summary, old.summary),
                              !.cover = Merge(w.cover, old.cover)]
           upserted == [L EXCEPT !.trips = [L.trips EXCEPT ![t] = row]]
           replaced == ReplaceTripCities(upserted, t, w.cityIds)
<1>1. CASE ~TripWritable(L, t, w)
  BY <1>1, RefusalSound DEF PutTrip, Answers
<1>2. CASE TripWritable(L, t, w)
  <2>0. L \in Tables BY DEF Coherent, Lawful
  <2>1. row.cover = Merge(w.cover, old.cover)
    BY <2>0, TableFields DEF BeforeTrip, NewTrip, TripRow
  <2>2. CoverCommitted(L, row.cover)
    BY <1>2, <2>1 DEF TripWritable, Merge, Coherent, NamesCommitted, BeforeTrip, NewTrip, CoverCommitted
  <2>3. /\ upserted.photos = L.photos /\ upserted.visits = L.visits /\ upserted.cities = L.cities
        /\ upserted.places = L.places /\ upserted.media = L.media
        /\ upserted.trips = [L.trips EXCEPT ![t] = row]
    BY <2>0 DEF Tables
  <2>4. \A s \in Trips : upserted.trips[s] = IF s = t THEN row ELSE L.trips[s]
    BY <2>0, <2>3, TableFields
  <2> HIDE DEF old, row, upserted
  <2>5. PairsCoherent(upserted) /\ NamesCommitted(upserted)
    <3>1. PairsCoherent(upserted) BY <2>3, SameFiling DEF Coherent
    <3>2. NamesCommitted(upserted) BY <2>2, <2>3, <2>4 DEF Coherent, NamesCommitted, CoverCommitted
    <3> QED BY <3>1, <3>2
  <2>6. ASSUME Lawful(upserted) PROVE PairsCoherent(replaced) /\ NamesCommitted(replaced)
    <3>1. upserted \in Tables BY <2>6 DEF Lawful
    <3>2. /\ replaced.photos = upserted.photos /\ replaced.visits = upserted.visits
          /\ replaced.cities = upserted.cities /\ replaced.places = upserted.places
          /\ replaced.media = upserted.media /\ replaced.trips = upserted.trips
      BY <3>1 DEF ReplaceTripCities, Tables
    <3> HIDE DEF replaced
    <3> QED BY <2>5, <3>2, SameFiling, SameNames
  <2>7. Sound(Commit(L, <<upserted>>)) BY <2>5, OneSound DEF Coherent
  <2>8. Sound(Commit(L, <<upserted, replaced>>)) BY <2>6, TwoSound DEF Coherent
  <2> QED BY <1>2, <2>7, <2>8 DEF PutTrip, old, row, upserted
<1> QED BY <1>1, <1>2

\* DeleteTrip keeps the log coherent.
LEMMA DeleteTripSound ==
    ASSUME NEW L, Coherent(L), NEW t \in Trips
    PROVE  Sound(DeleteTrip(L, t))
<1>1. Lawful(DeleteTripRow(L, t)) => Coherent(DeleteTripRow(L, t))
  BY DeleteTripConsistent DEF Coherent, Consistent, Lawful
<1>2. Sound(Commit(L, <<DeleteTripRow(L, t)>>)) BY <1>1, OneSound
<1>3. Sound(Refuse(L, "miss")) BY RefusalSound DEF Answers
<1> QED BY <1>2, <1>3 DEF DeleteTrip

\* PutCity, attaching included, keeps the log coherent.
LEMMA PutCitySound ==
    ASSUME NEW L, Coherent(L), NEW c \in Cities, NEW w \in CityWrites
    PROVE  Sound(PutCity(L, c, w))
<1> DEFINE old == IF L.cities[c] = NoRow THEN [cover |-> None] ELSE L.cities[c]
           row == [cover |-> Merge(w.cover, old.cover)]
           upserted == [L EXCEPT !.cities = [L.cities EXCEPT ![c] = row]]
           attached == AttachCity(upserted, w.attachTo, c)
<1>0. L \in Tables BY DEF Coherent, Lawful
<1>1. Sound(Refuse(L, "invalid")) BY RefusalSound DEF Answers
<1>2. ASSUME CoverCommitted(L, w.cover)
      PROVE  Sound(Commit(L, <<upserted>>)) /\ Sound(Commit(L, <<upserted, attached>>))
  <2>1. CoverCommitted(L, row.cover)
    BY <1>2 DEF Merge, Coherent, NamesCommitted, CoverCommitted
  <2>2. /\ upserted.photos = L.photos /\ upserted.visits = L.visits /\ upserted.trips = L.trips
        /\ upserted.places = L.places /\ upserted.media = L.media
        /\ upserted.cities = [L.cities EXCEPT ![c] = row]
    BY <1>0 DEF Tables
  <2>3. \A d \in Cities : upserted.cities[d] = IF d = c THEN row ELSE L.cities[d]
    BY <1>0, <2>2, TableFields
  <2> HIDE DEF old, row, upserted
  <2>4. PairsCoherent(upserted) BY <2>2, SameFiling DEF Coherent
  <2>5. NamesCommitted(upserted) BY <2>1, <2>2, <2>3 DEF Coherent, NamesCommitted, CoverCommitted
  <2>6. ASSUME Lawful(upserted) PROVE PairsCoherent(attached) /\ NamesCommitted(attached)
    <3>1. upserted \in Tables BY <2>6 DEF Lawful
    <3>2. /\ attached.photos = upserted.photos /\ attached.visits = upserted.visits
          /\ attached.cities = upserted.cities /\ attached.places = upserted.places
          /\ attached.media = upserted.media /\ attached.trips = upserted.trips
      BY <3>1 DEF AttachCity, Tables
    <3> HIDE DEF attached
    <3> QED BY <2>4, <2>5, <3>2, SameFiling, SameNames
  <2>7. Sound(Commit(L, <<upserted>>)) BY <2>4, <2>5, OneSound DEF Coherent
  <2>8. Sound(Commit(L, <<upserted, attached>>)) BY <2>6, TwoSound DEF Coherent
  <2> QED BY <2>7, <2>8
<1> QED BY <1>1, <1>2 DEF PutCity

\* PutPlace keeps the log coherent: its array takes no occasion from another place.
LEMMA PutPlaceSound ==
    ASSUME NEW L, Coherent(L), NEW p \in Places, NEW w \in PlaceWrites
    PROVE  Sound(PutPlace(L, p, w))
<1> DEFINE old == IF L.places[p] = NoRow THEN [city |-> None, plan |-> None, cover |-> None]
                  ELSE L.places[p]
           row == [city |-> Merge(w.city, old.city), plan |-> Merge(w.plan, old.plan),
                   cover |-> Merge(w.cover, old.cover)]
           upserted == [L EXCEPT !.places = [L.places EXCEPT ![p] = row]]
           parked   == ParkVisits(upserted, p, Len(w.visits))
           replaced == UpsertVisits(parked, p, w.visits)
           final    == DeleteDeparted(replaced, p, w.visits)
<1>0. L \in Tables BY DEF Coherent, Lawful
<1>1. Sound(Refuse(L, "invalid")) BY RefusalSound DEF Answers
<1>2. ASSUME CoverCommitted(L, w.cover), Lawful(upserted) PROVE Coherent(upserted)
  <2>1. CoverCommitted(L, row.cover)
    BY <1>2 DEF Merge, Coherent, NamesCommitted, CoverCommitted
  <2>2. /\ upserted.photos = L.photos /\ upserted.visits = L.visits /\ upserted.trips = L.trips
        /\ upserted.cities = L.cities /\ upserted.media = L.media
        /\ upserted.places = [L.places EXCEPT ![p] = row]
    BY <1>0 DEF Tables
  <2>3. \A q \in Places : upserted.places[q] = IF q = p THEN row ELSE L.places[q]
    BY <1>0, <2>2, TableFields
  <2> HIDE DEF old, row, upserted
  <2>4. PairsCoherent(upserted) BY <2>2, SameFiling DEF Coherent
  <2>5. NamesCommitted(upserted) BY <2>1, <2>2, <2>3 DEF Coherent, NamesCommitted, CoverCommitted
  <2> QED BY <1>2, <2>4, <2>5 DEF Coherent
<1>3. ASSUME CoverCommitted(L, w.cover), w.visits # Unsent, ~HeldElsewhere(L, p, w.visits),
             Lawful(upserted), Lawful(parked), Lawful(replaced), Lawful(final)
      PROVE  Coherent(final)
  <2>1. Coherent(upserted) /\ upserted \in Tables BY <1>2, <1>3 DEF Lawful
  <2>2. upserted.visits = L.visits BY <1>0 DEF Tables
  <2> HIDE DEF upserted
  <2>3. Coherent(parked) /\ parked \in Tables BY <1>3, <2>1, ParkStands, StandingCoherent DEF Lawful
  <2>4. ~HeldElsewhere(parked, p, w.visits)
    <3> SUFFICES ASSUME NEW v \in VisitIds(w.visits), parked.visits[v] # NoRow
                 PROVE  parked.visits[v].place = p
      BY DEF HeldElsewhere
    <3>1. v \in Visits BY <1>3, ArrayIds
    <3>2. L.visits[v] # NoRow BY <2>1, <2>2, <3>1, ParkOpensNothing
    <3> QED BY <1>3, <2>1, <2>2, <3>1, <3>2, ParkStands DEF OccasionsStand, HeldElsewhere
  <2> HIDE DEF parked
  <2>5. Coherent(replaced) BY <1>3, <2>3, <2>4, UpsertStands, StandingCoherent
  <2> HIDE DEF replaced
  <2>6. Consistent(final) BY <2>5, DeleteVisitsConsistent DEF Coherent, Consistent, Lawful, DeleteDeparted
  <2> QED BY <1>3, <2>6 DEF Coherent, Consistent
<1> HIDE DEF old, row, upserted, parked, replaced, final
<1>4. ASSUME CoverCommitted(L, w.cover) PROVE Sound(Commit(L, <<upserted>>))
  BY <1>2, <1>4, OneSound
<1>5. ASSUME CoverCommitted(L, w.cover), w.visits \notin {Unsent, <<>>},
             VisitsWritable(L, p, w.visits)
      PROVE  Sound(Commit(L, <<upserted, parked, replaced, final>>))
  <2>1. ~HeldElsewhere(L, p, w.visits) BY <1>5 DEF VisitsWritable
  <2> QED BY <1>3, <1>5, <2>1, FourSound
<1> QED BY <1>1, <1>4, <1>5 DEF PutPlace, old, row, upserted, parked, replaced, final

\* RemovePlace keeps the log coherent.
LEMMA RemovePlaceSound ==
    ASSUME NEW L, Coherent(L), NEW p \in Places, NEW disposition
    PROVE  Sound(RemovePlace(L, p, disposition))
<1> DEFINE cleared == DeletePhotos(L, PhotosAt(L, p))
<1>1. Consistent(L) /\ Consistent(cleared)
  BY DeletePhotosConsistent DEF Coherent, Consistent, Lawful
<1>2. Sound(Refuse(L, "miss")) BY RefusalSound DEF Answers
<1>3. Sound(Commit(L, <<DeletePlaceRow(L, p)>>)) BY <1>1, DeletePlaceConsistent, OneSound
<1>4. Sound(Commit(L, <<cleared, DeletePlaceRow(cleared, p)>>))
  BY <1>1, DeletePlaceConsistent, TwoSound
<1> QED BY <1>2, <1>3, <1>4 DEF RemovePlace

\* What a write of photos does to the invariant: h's row is the only one that
\* changes, and its filing and its asset are as required.
LEMMA OnePhotoWritten ==
    ASSUME NEW L, Coherent(L), NEW h \in Photos, NEW row,
           Lawful([L EXCEPT !.photos = [L.photos EXCEPT ![h] = row]]),
           L.media[row.asset] = "committed",
           row.visit # None => L.visits[row.visit].place = row.place
    PROVE  Coherent([L EXCEPT !.photos = [L.photos EXCEPT ![h] = row]])
<1> DEFINE M == [L EXCEPT !.photos = [L.photos EXCEPT ![h] = row]]
<1>0. L \in Tables BY DEF Coherent, Lawful
<1>1. /\ M.visits = L.visits /\ M.trips = L.trips /\ M.cities = L.cities
      /\ M.places = L.places /\ M.media = L.media
      /\ M.photos = [L.photos EXCEPT ![h] = row]
  BY <1>0 DEF Tables
<1>2. \A g \in Photos : M.photos[g] = IF g = h THEN row ELSE L.photos[g]
  BY <1>0, <1>1, TableFields
<1> HIDE DEF M
<1>3. References(M) BY DEF Lawful, M
<1>4. PairsCoherent(M) BY <1>1, <1>2, <1>3 DEF Coherent, PairsCoherent, References
<1>5. NamesCommitted(M) BY <1>1, <1>2 DEF Coherent, NamesCommitted, CoverCommitted
<1> QED BY <1>4, <1>5 DEF Coherent, M

\* PutPhoto keeps the log coherent: it never touches the filing.
LEMMA PutPhotoSound ==
    ASSUME NEW L, Coherent(L), NEW h \in Photos, NEW w \in PhotoWrites
    PROVE  Sound(PutPhoto(L, h, w))
<1> DEFINE old == IF L.photos[h] = NoRow THEN NewPhoto ELSE L.photos[h]
           row == [old EXCEPT !.trip = Merge(w.trip, old.trip), !.city = Merge(w.city, old.city),
                              !.asset = Merge(w.asset, old.asset),
                              !.caption = Merge(StoredCaption(w.caption), old.caption),
                              !.filedLater = Merge(w.filedLater, old.filedLater)]
           written == [L EXCEPT !.photos = [L.photos EXCEPT ![h] = row]]
<1>0. L \in Tables BY DEF Coherent, Lawful
<1>1. Sound(Refuse(L, "invalid")) BY RefusalSound DEF Answers
<1>2. ASSUME ~(L.photos[h] = NoRow /\ Unsent \in {w.trip, w.city, w.asset}),
             ~(w.asset # Unsent /\ L.media[w.asset] # "committed")
      PROVE  Sound(Commit(L, <<written>>))
  <2>1. /\ row.asset = Merge(w.asset, old.asset)
        /\ row.place = old.place /\ row.visit = old.visit
    <3>1. old \in PhotoRow \/ old = NewPhoto BY <1>0, TableFields
    <3>2. CASE old \in PhotoRow BY <3>2 DEF PhotoRow
    <3>3. CASE old = NewPhoto BY <3>3 DEF NewPhoto
    <3> QED BY <3>1, <3>2, <3>3
  <2>2. L.media[row.asset] = "committed"
    BY <1>2, <2>1 DEF Merge, Coherent, NamesCommitted
  <2>3. row.visit # None => L.visits[row.visit].place = row.place
    BY <2>1 DEF Coherent, PairsCoherent, NewPhoto
  <2> HIDE DEF old, row
  <2>4. Lawful(written) => Coherent(written) BY <2>2, <2>3, OnePhotoWritten
  <2> QED BY <2>4, OneSound
<1> HIDE DEF old, row
<1> QED BY <1>1, <1>2 DEF PutPhoto, old, row

\* DeletePhoto keeps the log coherent.
LEMMA DeletePhotoSound ==
    ASSUME NEW L, Coherent(L), NEW h \in Photos
    PROVE  Sound(DeletePhoto(L, h))
<1>1. Lawful(DeletePhotos(L, {h})) => Coherent(DeletePhotos(L, {h}))
  BY DeletePhotosConsistent DEF Coherent, Consistent, Lawful
<1>2. Sound(Commit(L, <<DeletePhotos(L, {h})>>)) BY <1>1, OneSound
<1>3. Sound(Refuse(L, "miss")) BY RefusalSound DEF Answers
<1> QED BY <1>2, <1>3 DEF DeletePhoto

\* SnoozePhotos keeps the log coherent.
LEMMA SnoozePhotosSound ==
    ASSUME NEW L, Coherent(L), NEW S, NEW until
    PROVE  Sound(SnoozePhotos(L, S, until))
<1> DEFINE Later(h) == [L.photos[h] EXCEPT !.filedLater = until]
           M == [L EXCEPT !.photos = [h \in Photos |->
                    IF h \in S /\ L.photos[h] # NoRow THEN Later(h) ELSE L.photos[h]]]
<1>0. L \in Tables BY DEF Coherent, Lawful
<1>1. /\ M.visits = L.visits /\ M.trips = L.trips /\ M.cities = L.cities
      /\ M.places = L.places /\ M.media = L.media
      /\ M.photos = [h \in Photos |->
                        IF h \in S /\ L.photos[h] # NoRow THEN Later(h) ELSE L.photos[h]]
  BY <1>0 DEF Tables
<1>2. \A h : /\ Later(h).asset = L.photos[h].asset /\ Later(h).place = L.photos[h].place
             /\ Later(h).visit = L.photos[h].visit
  OBVIOUS
<1> HIDE DEF M, Later
<1>3. \A h \in Photos : M.photos[h] # NoRow =>
         /\ L.photos[h] # NoRow /\ M.photos[h].asset = L.photos[h].asset
         /\ M.photos[h].place = L.photos[h].place /\ M.photos[h].visit = L.photos[h].visit
  BY <1>1, <1>2
<1>4. PairsCoherent(M) BY <1>1, <1>3 DEF Coherent, PairsCoherent
<1>5. NamesCommitted(M) BY <1>1, <1>3 DEF Coherent, NamesCommitted, CoverCommitted
<1>6. Sound(Commit(L, <<M>>)) BY <1>4, <1>5, OneSound DEF Coherent
<1>7. Sound(Refuse(L, "miss")) BY RefusalSound DEF Answers
<1> QED BY <1>6, <1>7 DEF SnoozePhotos, M, Later

\* Filing a photograph to an occasion of the place it is filed to keeps the log
\* coherent.
LEMMA FilePhotoCoherent ==
    ASSUME NEW L, Coherent(L), NEW h \in Photos, L.photos[h] # NoRow, NEW p, NEW v,
           L.visits[v].place = p, Lawful(FilePhoto(L, h, p, v))
    PROVE  Coherent(FilePhoto(L, h, p, v))
<1> DEFINE row == [L.photos[h] EXCEPT !.place = p, !.visit = v]
<1>0. L \in Tables BY DEF Coherent, Lawful
<1>1. L.photos[h] \in PhotoRow BY <1>0, TableFields
<1>2. row.asset = L.photos[h].asset /\ row.place = p /\ row.visit = v BY <1>1 DEF PhotoRow
<1>3. L.media[row.asset] = "committed" BY <1>2 DEF Coherent, NamesCommitted
<1>4. FilePhoto(L, h, p, v) = [L EXCEPT !.photos = [L.photos EXCEPT ![h] = row]] BY DEF FilePhoto
<1> HIDE DEF row
<1> QED BY <1>2, <1>3, <1>4, OnePhotoWritten

\* RefilePhoto keeps the log coherent, whether it opens an occasion or uses one.
LEMMA RefilePhotoSound ==
    ASSUME NEW L, Coherent(L), NEW h \in Photos, NEW w \in Refilings
    PROVE  Sound(RefilePhoto(L, h, w))
<1> DEFINE trip       == L.photos[h].trip
           inserted   == InsertVisit(L, w.visit, w.place, trip, w.at)
           parked     == ParkVisits(inserted, w.place, Cardinality(OccasionsAt(inserted, w.place)))
           renumbered == RenumberByTime(parked, w.place)
           filed      == FilePhoto(renumbered, h, w.place, w.visit)
<1>0. L \in Tables /\ w.visit \in Visits BY DEF Coherent, Lawful, Refilings
<1>1. Sound(Refuse(L, "notFound")) /\ Sound(Refuse(L, "invalid")) BY RefusalSound DEF Answers
<1>2. ASSUME L.photos[h] # NoRow, OccasionBelongs(L, w.visit, w.place, trip)
      PROVE  Sound(Commit(L, <<FilePhoto(L, h, w.place, w.visit)>>))
  BY <1>2, FilePhotoCoherent, OneSound DEF OccasionBelongs
<1>3. ASSUME L.photos[h] # NoRow, L.visits[w.visit] = NoRow,
             Lawful(inserted), Lawful(parked), Lawful(renumbered), Lawful(filed)
      PROVE  Coherent(filed)
  <2>1. Coherent(inserted) BY <1>0, <1>3, InsertStands, StandingCoherent
  <2>2. inserted.visits[w.visit].place = w.place /\ inserted.photos = L.photos
    BY <1>0, TableFields DEF InsertVisit, Tables
  <2> HIDE DEF inserted
  <2>3. inserted \in Tables BY <1>3 DEF Lawful
  <2>4. Coherent(parked) BY <1>3, <2>1, <2>3, ParkStands, StandingCoherent
  <2>5. parked.visits[w.visit].place = w.place /\ parked.photos = L.photos
    BY <1>0, <2>2, <2>3, ParkStands DEF OccasionsStand
  <2> HIDE DEF parked
  <2>6. parked \in Tables BY <1>3 DEF Lawful
  <2>7. Coherent(renumbered) BY <1>3, <2>4, <2>6, RenumberStands, StandingCoherent
  <2>8. renumbered.visits[w.visit].place = w.place /\ renumbered.photos = L.photos
    BY <1>0, <2>5, <2>6, RenumberStands DEF OccasionsStand
  <2> HIDE DEF renumbered
  <2> QED BY <1>3, <2>7, <2>8, FilePhotoCoherent
<1> HIDE DEF inserted, parked, renumbered, filed
<1>4. ASSUME L.photos[h] # NoRow, L.visits[w.visit] = NoRow
      PROVE  Sound(Commit(L, <<inserted, parked, renumbered, filed>>))
  BY <1>3, <1>4, FourSound
<1> QED BY <1>1, <1>2, <1>4 DEF RefilePhoto, inserted, parked, renumbered, filed

\* PutWalk keeps the log coherent.
LEMMA PutWalkSound ==
    ASSUME NEW L, Coherent(L), NEW k, NEW w
    PROVE  Sound(PutWalk(L, k, w))
<1> DEFINE Written(row) == [L EXCEPT !.walks = [L.walks EXCEPT ![k] = row]]
<1>0. L \in Tables BY DEF Coherent, Lawful
<1>1. ASSUME NEW row PROVE Sound(Commit(L, <<Written(row)>>))
  <2>1. /\ Written(row).photos = L.photos /\ Written(row).visits = L.visits
        /\ Written(row).trips = L.trips /\ Written(row).cities = L.cities
        /\ Written(row).places = L.places /\ Written(row).media = L.media
    BY <1>0 DEF Tables
  <2> HIDE DEF Written
  <2> QED BY <2>1, SameFiling, SameNames, OneSound DEF Coherent
<1>2. Sound(Refuse(L, "invalid")) BY RefusalSound DEF Answers
<1> QED BY <1>1, <1>2 DEF PutWalk

\* Setting a trip's share flags leaves its cover alone.
LEMMA FlagsKeepNames ==
    ASSUME NEW L \in Tables, PairsCoherent(L), NamesCommitted(L), NEW t \in Trips,
           L.trips[t] # NoRow, NEW photos, NEW notes, NEW coordinates
    PROVE  LET M == SetFlags(L, t, photos, notes, coordinates)
           IN  PairsCoherent(M) /\ NamesCommitted(M)
<1> DEFINE row == [L.trips[t] EXCEPT !.sharePhotos = photos, !.shareNotes = notes,
                                     !.shareCoordinates = coordinates]
           M == SetFlags(L, t, photos, notes, coordinates)
<1>1. /\ M.photos = L.photos /\ M.visits = L.visits /\ M.cities = L.cities
      /\ M.places = L.places /\ M.media = L.media
      /\ M.trips = [L.trips EXCEPT ![t] = row]
  BY DEF SetFlags, Tables
<1>2. row.cover = L.trips[t].cover BY TableFields DEF TripRow
<1> HIDE DEF row, M
<1>3. \A s \in Trips : M.trips[s] = IF s = t THEN row ELSE L.trips[s] BY <1>1, TableFields
<1>4. PairsCoherent(M) BY <1>1, SameFiling
<1>5. NamesCommitted(M) BY <1>1, <1>2, <1>3 DEF NamesCommitted, CoverCommitted
<1> QED BY <1>4, <1>5 DEF M

\* SetShareOptions keeps the log coherent.
LEMMA SetShareOptionsSound ==
    ASSUME NEW L, Coherent(L), NEW t \in Trips, NEW w
    PROVE  Sound(SetShareOptions(L, t, w))
<1>0. L \in Tables BY DEF Coherent, Lawful
<1>1. Sound(Refuse(L, "notFound")) BY RefusalSound DEF Answers
<1>2. ASSUME L.trips[t] # NoRow, NEW a, NEW b, NEW c
      PROVE  Sound(Commit(L, <<SetFlags(L, t, a, b, c)>>))
  BY <1>0, <1>2, FlagsKeepNames, OneSound DEF Coherent
<1> QED BY <1>1, <1>2 DEF SetShareOptions

\* The share links enter neither the filings nor what names an object.
LEMMA LinksAside ==
    ASSUME NEW L \in Tables, PairsCoherent(L), NamesCommitted(L), NEW f
    PROVE  /\ PairsCoherent([L EXCEPT !.links = f]) /\ NamesCommitted([L EXCEPT !.links = f])
           /\ [L EXCEPT !.links = f].trips = L.trips
<1> DEFINE M == [L EXCEPT !.links = f]
<1>1. /\ M.photos = L.photos /\ M.visits = L.visits /\ M.cities = L.cities
      /\ M.places = L.places /\ M.media = L.media /\ M.trips = L.trips
  BY DEF Tables
<1> HIDE DEF M
<1> QED BY <1>1, SameFiling, SameNames DEF M

\* NewShareLink keeps the log coherent.
LEMMA NewShareLinkSound ==
    ASSUME NEW L, Coherent(L), NEW t \in Trips, NEW token, NEW now
    PROVE  Sound(NewShareLink(L, t, token, now))
<1> DEFINE revoked == RevokeLive(L, t, now)
           linked  == [revoked EXCEPT !.links =
                          [revoked.links EXCEPT ![token] =
                              [trip |-> t, created |-> now, revoked |-> None]]]
<1>0. L \in Tables BY DEF Coherent, Lawful
<1>1. Sound(Refuse(L, "notFound")) /\ Sound(Refuse(L, "constraint")) BY RefusalSound DEF Answers
<1>2. PairsCoherent(revoked) /\ NamesCommitted(revoked)
  BY <1>0, LinksAside DEF RevokeLive, Coherent
<1>3. ASSUME Lawful(revoked), Lawful(linked) PROVE Coherent(linked)
  <2>1. revoked \in Tables BY <1>3 DEF Lawful
  <2> HIDE DEF revoked
  <2> QED BY <1>2, <1>3, <2>1, LinksAside DEF Coherent
<1>4. Sound(Commit(L, <<revoked, linked>>)) BY <1>3, TwoSound
<1> QED BY <1>1, <1>4 DEF NewShareLink

\* StopSharing keeps the log coherent.
LEMMA StopSharingSound ==
    ASSUME NEW L, Coherent(L), NEW t \in Trips, NEW now
    PROVE  Sound(StopSharing(L, t, now))
<1> DEFINE revoked == RevokeLive(L, t, now)
           reset == SetFlags(revoked, t, TRUE, TRUE, FALSE)
<1>0. L \in Tables BY DEF Coherent, Lawful
<1>1. Sound(Refuse(L, "notFound")) BY RefusalSound DEF Answers
<1>2. PairsCoherent(revoked) /\ NamesCommitted(revoked) /\ revoked.trips = L.trips
  BY <1>0, LinksAside DEF RevokeLive, Coherent
<1>3. ASSUME L.trips[t] # NoRow, Lawful(revoked), Lawful(reset) PROVE Coherent(reset)
  <2>1. revoked \in Tables BY <1>3 DEF Lawful
  <2> HIDE DEF revoked
  <2> QED BY <1>2, <1>3, <2>1, FlagsKeepNames DEF Coherent
<1>4. ASSUME L.trips[t] # NoRow PROVE Sound(Commit(L, <<revoked, reset>>)) BY <1>3, <1>4, TwoSound
<1> QED BY <1>1, <1>4 DEF StopSharing

\* SetTravellerName keeps the log coherent.
LEMMA SetTravellerNameSound ==
    ASSUME NEW L, Coherent(L), NEW name
    PROVE  Sound(SetTravellerName(L, name))
<1> DEFINE M == [L EXCEPT !.name = name]
<1>0. L \in Tables BY DEF Coherent, Lawful
<1>1. /\ M.photos = L.photos /\ M.visits = L.visits /\ M.cities = L.cities
      /\ M.places = L.places /\ M.media = L.media /\ M.trips = L.trips
  BY <1>0 DEF Tables
<1> HIDE DEF M
<1>2. Sound(Commit(L, <<M>>)) BY <1>1, SameFiling, SameNames, OneSound DEF Coherent
<1> QED BY <1>2 DEF SetTravellerName, M

\* An object's state only moves towards committed.
LEMMA MediaAdvances ==
    ASSUME NEW L, Coherent(L), NEW m \in Media, NEW state, L.media[m] = "committed" => state = "committed"
    PROVE  Sound(Commit(L, <<[L EXCEPT !.media = [L.media EXCEPT ![m] = state]]>>))
<1> DEFINE M == [L EXCEPT !.media = [L.media EXCEPT ![m] = state]]
<1>0. L \in Tables BY DEF Coherent, Lawful
<1>1. /\ M.photos = L.photos /\ M.visits = L.visits /\ M.cities = L.cities
      /\ M.places = L.places /\ M.trips = L.trips
      /\ M.media = [L.media EXCEPT ![m] = state]
  BY <1>0 DEF Tables
<1> HIDE DEF M
<1>2. \A n \in Media : L.media[n] = "committed" => M.media[n] = "committed"
  BY <1>0, <1>1, TableFields
<1>3. PairsCoherent(M) BY <1>1, SameFiling DEF Coherent
<1>4. NamesCommitted(M)
  <2>1. \A h \in Photos : L.photos[h] # NoRow => L.photos[h].asset \in Media
    BY <1>0, TableFields DEF PhotoRow
  <2>2. \A t \in Trips : L.trips[t] # NoRow => L.trips[t].cover \in Media \cup {None}
    BY <1>0, TableFields DEF TripRow, Opt
  <2>3. \A c \in Cities : L.cities[c] # NoRow => L.cities[c].cover \in Media \cup {None}
    BY <1>0, TableFields DEF CityRow, Opt
  <2>4. \A p \in Places : L.places[p] # NoRow => L.places[p].cover \in Media \cup {None}
    BY <1>0, TableFields DEF PlaceRow, Opt
  <2> QED BY <1>1, <1>2, <2>1, <2>2, <2>3, <2>4 DEF Coherent, NamesCommitted, CoverCommitted
<1> QED BY <1>3, <1>4, OneSound DEF Coherent, M

\* BeginMedia keeps the log coherent: an object that was committed stays so.
LEMMA BeginMediaSound ==
    ASSUME NEW L, Coherent(L), NEW m \in Media
    PROVE  Sound(BeginMedia(L, m))
<1>1. CASE L.media[m] = "absent"
  <2>1. Sound(Commit(L, <<[L EXCEPT !.media = [L.media EXCEPT ![m] = "begun"]]>>))
    BY <1>1, MediaAdvances
  <2> QED BY <1>1, <2>1 DEF BeginMedia
<1>2. CASE L.media[m] # "absent"
  BY <1>2, OneSound DEF BeginMedia
<1> QED BY <1>1, <1>2

\* MarkMediaUploaded keeps the log coherent.
LEMMA MarkMediaUploadedSound ==
    ASSUME NEW L, Coherent(L), NEW m \in Media
    PROVE  Sound(MarkMediaUploaded(L, m))
<1>1. Sound(Refuse(L, "notFound")) BY RefusalSound DEF Answers
<1>2. Sound(Commit(L, <<[L EXCEPT !.media = [L.media EXCEPT ![m] = "committed"]]>>))
  BY MediaAdvances
<1> QED BY <1>1, <1>2 DEF MarkMediaUploaded

-----------------------------------------------------------------------------
(***************************************************************************)
(* The invariant, and the theorems.                                        *)
(***************************************************************************)

IInv == Coherent(log) /\ answer \in Answers

Kept == Coherent(log') /\ answer' \in Answers

\* Serving a request with a sound operation keeps the invariant.
LEMMA ServeSound ==
    ASSUME NEW r, \A now \in Moments : Sound(Perform(log, r, now)), Serve(r)
    PROVE  Kept
BY DEF Serve, Sound, Kept

\* The log of a new traveller is lawful and coherent.
LEMMA EmptyLogLawful == Coherent(EmptyLog)
<1>1. EmptyLog \in Tables BY DEF EmptyLog, Tables, Opt
<1>2. References(EmptyLog) BY DEF EmptyLog, References, Itinerary
<1>3. Uniques(EmptyLog) BY DEF EmptyLog, Uniques, OccasionsAt, Itinerary, LiveLinks
<1>4. Checks(EmptyLog) BY DEF EmptyLog, Checks
<1>5. PairsCoherent(EmptyLog) /\ NamesCommitted(EmptyLog) BY DEF EmptyLog, PairsCoherent, NamesCommitted
<1> QED BY <1>1, <1>2, <1>3, <1>4, <1>5 DEF Coherent, Lawful

\* Every step keeps the invariant.
LEMMA NextKeeps ==
    ASSUME Coherent(log), Next
    PROVE  Kept
<1>1. CASE TripNext
  <2>1. ASSUME NEW t \in Trips, NEW w \in TripWrites, Serve(Request("PutTrip", t, w)) PROVE Kept
    <3>1. \A now \in Moments : Perform(log, Request("PutTrip", t, w), now) = PutTrip(log, t, w)
      BY DEF Perform, Request
    <3> QED BY <2>1, <3>1, PutTripSound, ServeSound
  <2>2. ASSUME NEW t \in Trips, Serve(Request("DeleteTrip", t, None)) PROVE Kept
    <3>1. \A now \in Moments : Perform(log, Request("DeleteTrip", t, None), now) = DeleteTrip(log, t)
      BY DEF Perform, Request
    <3> QED BY <2>2, <3>1, DeleteTripSound, ServeSound
  <2> QED BY <1>1, <2>1, <2>2 DEF TripNext
<1>2. CASE CityNext
  <2>1. ASSUME NEW c \in Cities, NEW w \in CityWrites, Serve(Request("PutCity", c, w)) PROVE Kept
    <3>1. \A now \in Moments : Perform(log, Request("PutCity", c, w), now) = PutCity(log, c, w)
      BY DEF Perform, Request
    <3> QED BY <2>1, <3>1, PutCitySound, ServeSound
  <2> QED BY <1>2, <2>1 DEF CityNext
<1>3. CASE PlaceNext
  <2>1. ASSUME NEW p \in Places, NEW w \in PlaceWrites, Serve(Request("PutPlace", p, w)) PROVE Kept
    <3>1. \A now \in Moments : Perform(log, Request("PutPlace", p, w), now) = PutPlace(log, p, w)
      BY DEF Perform, Request
    <3> QED BY <2>1, <3>1, PutPlaceSound, ServeSound
  <2>2. ASSUME NEW p \in Places, NEW d \in Dispositions, Serve(Request("RemovePlace", p, d)) PROVE Kept
    <3>1. \A now \in Moments : Perform(log, Request("RemovePlace", p, d), now) = RemovePlace(log, p, d)
      BY DEF Perform, Request
    <3> QED BY <2>2, <3>1, RemovePlaceSound, ServeSound
  <2> QED BY <1>3, <2>1, <2>2 DEF PlaceNext
<1>4. CASE PhotoNext
  <2>1. ASSUME NEW h \in Photos, NEW w \in PhotoWrites, Serve(Request("PutPhoto", h, w)) PROVE Kept
    <3>1. \A now \in Moments : Perform(log, Request("PutPhoto", h, w), now) = PutPhoto(log, h, w)
      BY DEF Perform, Request
    <3> QED BY <2>1, <3>1, PutPhotoSound, ServeSound
  <2>2. ASSUME NEW h \in Photos, Serve(Request("DeletePhoto", h, None)) PROVE Kept
    <3>1. \A now \in Moments : Perform(log, Request("DeletePhoto", h, None), now) = DeletePhoto(log, h)
      BY DEF Perform, Request
    <3> QED BY <2>2, <3>1, DeletePhotoSound, ServeSound
  <2>3. ASSUME NEW S \in SUBSET Photos, NEW u \in Laters, Serve(Request("SnoozePhotos", S, u)) PROVE Kept
    <3>1. \A now \in Moments : Perform(log, Request("SnoozePhotos", S, u), now) = SnoozePhotos(log, S, u)
      BY DEF Perform, Request
    <3> QED BY <2>3, <3>1, SnoozePhotosSound, ServeSound
  <2>4. ASSUME NEW h \in Photos, NEW w \in Refilings, Serve(Request("RefilePhoto", h, w)) PROVE Kept
    <3>1. \A now \in Moments : Perform(log, Request("RefilePhoto", h, w), now) = RefilePhoto(log, h, w)
      BY DEF Perform, Request
    <3> QED BY <2>4, <3>1, RefilePhotoSound, ServeSound
  <2> QED BY <1>4, <2>1, <2>2, <2>3, <2>4 DEF PhotoNext
<1>5. CASE WalkNext
  <2>1. ASSUME NEW k \in Walks, NEW w \in WalkWrites, Serve(Request("PutWalk", k, w)) PROVE Kept
    <3>1. \A now \in Moments : Perform(log, Request("PutWalk", k, w), now) = PutWalk(log, k, w)
      BY DEF Perform, Request
    <3> QED BY <2>1, <3>1, PutWalkSound, ServeSound
  <2> QED BY <1>5, <2>1 DEF WalkNext
<1>6. CASE ShareNext
  <2>1. ASSUME NEW t \in Trips, NEW w \in ShareWrites, Serve(Request("SetShareOptions", t, w)) PROVE Kept
    <3>1. \A now \in Moments : Perform(log, Request("SetShareOptions", t, w), now) = SetShareOptions(log, t, w)
      BY DEF Perform, Request
    <3> QED BY <2>1, <3>1, SetShareOptionsSound, ServeSound
  <2>2. ASSUME NEW t \in Trips, NEW k \in Tokens, Serve(Request("NewShareLink", t, k)) PROVE Kept
    <3>1. \A now \in Moments : Perform(log, Request("NewShareLink", t, k), now) = NewShareLink(log, t, k, now)
      BY DEF Perform, Request
    <3> QED BY <2>2, <3>1, NewShareLinkSound, ServeSound
  <2>3. ASSUME NEW t \in Trips, Serve(Request("StopSharing", t, None)) PROVE Kept
    <3>1. \A now \in Moments : Perform(log, Request("StopSharing", t, None), now) = StopSharing(log, t, now)
      BY DEF Perform, Request
    <3> QED BY <2>3, <3>1, StopSharingSound, ServeSound
  <2> QED BY <1>6, <2>1, <2>2, <2>3 DEF ShareNext
<1>7. CASE NameNext
  <2>1. ASSUME NEW n \in Names, Serve(Request("SetTravellerName", None, n)) PROVE Kept
    <3>1. \A now \in Moments : Perform(log, Request("SetTravellerName", None, n), now) = SetTravellerName(log, n)
      BY DEF Perform, Request
    <3> QED BY <2>1, <3>1, SetTravellerNameSound, ServeSound
  <2> QED BY <1>7, <2>1 DEF NameNext
<1>8. CASE MediaNext
  <2>1. ASSUME NEW m \in Media, Serve(Request("BeginMedia", m, None)) PROVE Kept
    <3>1. \A now \in Moments : Perform(log, Request("BeginMedia", m, None), now) = BeginMedia(log, m)
      BY DEF Perform, Request
    <3> QED BY <2>1, <3>1, BeginMediaSound, ServeSound
  <2>2. ASSUME NEW m \in Media, Serve(Request("MarkMediaUploaded", m, None)) PROVE Kept
    <3>1. \A now \in Moments : Perform(log, Request("MarkMediaUploaded", m, None), now) = MarkMediaUploaded(log, m)
      BY DEF Perform, Request
    <3> QED BY <2>2, <3>1, MarkMediaUploadedSound, ServeSound
  <2> QED BY <1>8, <2>1, <2>2 DEF MediaNext
<1> QED BY <1>1, <1>2, <1>3, <1>4, <1>5, <1>6, <1>7, <1>8 DEF Next

\* Whatever requests are served, in whatever order, the log stays lawful, its
\* filings coherent and its objects committed.
THEOREM Invariance == Spec => []IInv
<1>1. Init => IInv BY EmptyLogLawful DEF Init, IInv, Answers
<1>2. IInv /\ [Next]_vars => IInv'
  <2> SUFFICES ASSUME IInv, [Next]_vars PROVE IInv' OBVIOUS
  <2>1. CASE Next
    <3>1. Kept BY <2>1, NextKeeps DEF IInv
    <3> QED BY <3>1 DEF IInv, Kept, Coherent, Lawful, References, Uniques, Checks
  <2>2. CASE UNCHANGED vars BY <2>2 DEF IInv, vars
  <2> QED BY <2>1, <2>2
<1> QED BY <1>1, <1>2, PTL DEF Spec

\* No photograph is ever filed to an occasion at a place other than its own,
\* although the schema would let one be.
THEOREM FilingCoherent == Spec => []FiledToOwnPlace
<1>1. IInv => FiledToOwnPlace BY DEF IInv, FiledToOwnPlace, Coherent
<1> QED BY <1>1, Invariance, PTL

\* No photograph and no cover ever names an object that was not committed.
THEOREM NothingUncommittedNamed == Spec => []AssetsCommitted
<1>1. IInv => AssetsCommitted BY DEF IInv, AssetsCommitted, Coherent
<1> QED BY <1>1, Invariance, PTL
=============================================================================
