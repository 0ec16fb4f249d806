---------------------------- MODULE LogbookStore ----------------------------
(***************************************************************************)
(* The relational store behind one traveller's logbook                     *)
(* (internal/postgres/*_store.go, internal/logbook/writable.go and         *)
(* validate.go, migrations/0001 to 0004).                                  *)
(*                                                                         *)
(* Every write runs inside WithTravellerTx: one transaction that holds the *)
(* traveller's advisory lock.  Two writes to one log are therefore         *)
(* serialised, and one write is one action here.  How a transaction and    *)
(* a concurrent read interleave is the subject of module TravellerTx.      *)
(*                                                                         *)
(* The model separates the two things that guard the log:                  *)
(*   - the SCHEMA: foreign keys with their ON DELETE rules, unique and     *)
(*     check constraints (operator Lawful).  A statement that breaks one   *)
(*     fails, the transaction rolls back, and the client sees a 500;       *)
(*   - the GO RULES each store applies before it writes, which answer a    *)
(*     422 or a 404 that names what is wrong.                              *)
(* A write is the sequence of tables its SQL statements produce, in order. *)
(***************************************************************************)
EXTENDS Integers, Sequences, FiniteSets, SequencesExt

CONSTANTS
    \* Client-minted ids.  Visit ids are naturals: ORDER BY at DESC, id reads their order.
    Trips, Cities, Places, Visits, Photos, Walks, Media, Tokens,
    \* Values a request body may carry; a smaller set is a smaller instance.
    Days, Times, Laters, Texts, Names, Covers, Flags, Presence,
    \* When a write's transaction may have begun: what now() is in every statement of it.
    Moments,
    \* Bounds on the arrays a body may carry.
    MaxVisits, MaxItinerary,
    \* No row; a NULL column; a key the body left out.
    NoRow, None, Unsent

ASSUME VisitIdsOrdered == Visits \subseteq Nat
ASSUME MomentsOrdered == Times \subseteq Nat /\ Days \subseteq Nat /\ Moments \subseteq Nat
ASSUME CoversAreMedia == Covers \subseteq Media
\* Presence: whether a body carries the fields only a create must have.
ASSUME FlagsBoolean == Flags \subseteq BOOLEAN /\ Presence \subseteq BOOLEAN
ASSUME BoundsNat == MaxVisits \in Nat /\ MaxItinerary \in Nat

VARIABLES
    log,        \* the traveller's rows, one component per table
    request,    \* the request served last
    answer,     \* what it was answered
    began       \* the moment its transaction began

vars == <<log, request, answer, began>>

Opt(S) == S \cup {None}

TripRow  == [start : Opt(Days), end : Opt(Days), summary : Opt(Texts), cover : Opt(Media),
             sharePhotos : BOOLEAN, shareNotes : BOOLEAN, shareCoordinates : BOOLEAN]
CityRow  == [cover : Opt(Media)]
PlaceRow == [city : Cities, plan : Opt(Texts), cover : Opt(Media)]
VisitRow == [place : Places, trip : Trips, ordinal : Nat, at : Times, note : Opt(Texts)]
PhotoRow == [trip : Trips, city : Cities, place : Opt(Places), visit : Opt(Visits),
             asset : Media, caption : Opt(Texts), filedLater : Opt(Laters)]
WalkRow  == [trip : Trips, city : Cities, dismissed : BOOLEAN]
LinkRow  == [trip : Trips, created : Moments, revoked : Opt(Moments)]

\* The markers are not rows, ordinals, ids or texts.
ASSUME MarkersAreNoRows ==
    /\ NoRow \notin TripRow /\ NoRow \notin CityRow /\ NoRow \notin PlaceRow /\ NoRow \notin VisitRow
    /\ NoRow \notin PhotoRow /\ NoRow \notin WalkRow /\ NoRow \notin LinkRow
    /\ None \notin Nat /\ None \notin Places /\ None \notin Media /\ None # ""

\* tripCities[t][c] is the ordinal of c on t's itinerary; media is a row's upload state.
Tables == [name : Opt(Names),
           trips : [Trips -> TripRow \cup {NoRow}],
           tripCities : [Trips -> [Cities -> Opt(Nat)]],
           cities : [Cities -> CityRow \cup {NoRow}],
           places : [Places -> PlaceRow \cup {NoRow}],
           visits : [Visits -> VisitRow \cup {NoRow}],
           photos : [Photos -> PhotoRow \cup {NoRow}],
           walks : [Walks -> WalkRow \cup {NoRow}],
           links : [Tokens -> LinkRow \cup {NoRow}],
           media : [Media -> {"absent", "begun", "committed"}]]

Answers == {"none", "ok", "invalid", "notFound", "miss", "constraint"}

-----------------------------------------------------------------------------
(***************************************************************************)
(* The schema.                                                             *)
(***************************************************************************)

OccasionsAt(L, p) == {v \in Visits : L.visits[v] # NoRow /\ L.visits[v].place = p}
VisitsOn(L, t)    == {v \in Visits : L.visits[v] # NoRow /\ L.visits[v].trip = t}

\* Mutant: photos_visit_fk cascades, so a photograph goes with its occasion's trip.
PhotosOnOrVisiting(L, t) ==
    {h \in Photos : L.photos[h] # NoRow /\ \/ L.photos[h].trip = t
                                           \/ L.photos[h].visit \in VisitsOn(L, t)}

PhotosOn(L, t)    == {h \in Photos : L.photos[h] # NoRow /\ L.photos[h].trip = t}
PhotosAt(L, p)    == {h \in Photos : L.photos[h] # NoRow /\ L.photos[h].place = p}
FiledTo(L, v)     == {h \in Photos : L.photos[h] # NoRow /\ L.photos[h].visit = v}
Itinerary(L, t)   == {c \in Cities : L.tripCities[t][c] # None}
LiveLinks(L, t)   == {k \in Tokens : /\ L.links[k] # NoRow /\ L.links[k].trip = t
                                     /\ L.links[k].revoked = None}

LinksOn(L, t)     == {k \in Tokens : L.links[k] # NoRow /\ L.links[k].trip = t}

\* A media reference: the foreign keys ask only that the row exists.
HasObject(L, m) == m = None \/ L.media[m] # "absent"

\* The foreign keys of 0001.
References(L) ==
    /\ \A t \in Trips : L.trips[t] # NoRow => HasObject(L, L.trips[t].cover)
    /\ \A c \in Cities : L.cities[c] # NoRow => HasObject(L, L.cities[c].cover)
    /\ \A t \in Trips : \A c \in Itinerary(L, t) : L.trips[t] # NoRow /\ L.cities[c] # NoRow
    /\ \A p \in Places : L.places[p] # NoRow =>
          L.cities[L.places[p].city] # NoRow /\ HasObject(L, L.places[p].cover)
    /\ \A v \in Visits : L.visits[v] # NoRow =>
          L.places[L.visits[v].place] # NoRow /\ L.trips[L.visits[v].trip] # NoRow
    /\ \A h \in Photos : L.photos[h] # NoRow =>
          /\ L.trips[L.photos[h].trip] # NoRow
          /\ L.cities[L.photos[h].city] # NoRow
          /\ L.photos[h].place = None \/ L.places[L.photos[h].place] # NoRow
          /\ L.photos[h].visit = None \/ L.visits[L.photos[h].visit] # NoRow
          /\ HasObject(L, L.photos[h].asset)
    /\ \A w \in Walks : L.walks[w] # NoRow =>
          L.trips[L.walks[w].trip] # NoRow /\ L.cities[L.walks[w].city] # NoRow
    /\ \A k \in Tokens : L.links[k] # NoRow => L.trips[L.links[k].trip] # NoRow

\* visits_place_ordinal_uq, trip_cities_ordinal_uq and share_links_one_live.
Uniques(L) ==
    /\ \A p \in Places : \A u, v \in OccasionsAt(L, p) :
          L.visits[u].ordinal = L.visits[v].ordinal => u = v
    /\ \A t \in Trips : \A c, d \in Itinerary(L, t) :
          L.tripCities[t][c] = L.tripCities[t][d] => c = d
    /\ \A t \in Trips : \A j, k \in LiveLinks(L, t) : j = k

\* trips_dates_ordered_ck and share_links_revoked_after_created_ck of 0001, and
\* the four empty-string checks of 0003.
Checks(L) ==
    /\ \A t \in Trips : L.trips[t] # NoRow =>
          /\ \/ L.trips[t].start = None
             \/ L.trips[t].end = None
             \/ L.trips[t].start <= L.trips[t].end
          /\ L.trips[t].summary # ""
    /\ \A p \in Places : L.places[p] # NoRow => L.places[p].plan # ""
    /\ \A v \in Visits : L.visits[v] # NoRow => L.visits[v].note # ""
    /\ \A h \in Photos : L.photos[h] # NoRow => L.photos[h].caption # ""
    /\ \A k \in Tokens : L.links[k] # NoRow =>
          L.links[k].revoked = None \/ L.links[k].revoked >= L.links[k].created

Lawful(L) == L \in Tables /\ References(L) /\ Uniques(L) /\ Checks(L)

\* A unique constraint that is not deferrable is checked as each row is
\* written, in an order nobody chose: a statement is safe only if no row it
\* writes takes the ordinal another row of that place held when it began.
RowByRow(L, M) ==
    \A v \in Visits : M.visits[v] # NoRow /\ M.visits[v] # L.visits[v] =>
        \A u \in OccasionsAt(L, M.visits[v].place) \ {v} :
            L.visits[u].ordinal # M.visits[v].ordinal

\* A transaction runs its statements in order; the first constraint to fail
\* rolls all of them back.
Executes(L, statements) ==
    \A i \in DOMAIN statements :
        /\ Lawful(statements[i])
        /\ RowByRow(IF i = 1 THEN L ELSE statements[i - 1], statements[i])

Commit(L, statements) ==
    IF Executes(L, statements)
    THEN [log |-> statements[Len(statements)], answer |-> "ok"]
    ELSE [log |-> L, answer |-> "constraint"]

Refuse(L, why) == [log |-> L, answer |-> why]

-----------------------------------------------------------------------------
(***************************************************************************)
(* DELETE statements with the ON DELETE rules they set off.                *)
(***************************************************************************)

DeletePhotos(L, S) ==
    [L EXCEPT !.photos = [h \in Photos |-> IF h \in S THEN NoRow ELSE L.photos[h]]]

\* photos_visit_fk is ON DELETE SET NULL (visit_id).
Unfile(photo) == [photo EXCEPT !.visit = None]

DeleteVisits(L, S) ==
    [L EXCEPT
        !.visits = [v \in Visits |-> IF v \in S THEN NoRow ELSE L.visits[v]],
        !.photos = [h \in Photos |->
            IF L.photos[h] # NoRow /\ L.photos[h].visit \in S
            THEN Unfile(L.photos[h])
            ELSE L.photos[h]]]

\* photos_place_fk is ON DELETE SET NULL (place_id); visits_place_fk cascades.
Unplace(photo) == [photo EXCEPT !.place = None]

DeletePlaceRow(L, p) ==
    LET M == DeleteVisits(L, OccasionsAt(L, p))
    IN  [M EXCEPT
            !.places = [M.places EXCEPT ![p] = NoRow],
            !.photos = [h \in Photos |->
                IF h \in PhotosAt(L, p) THEN Unplace(M.photos[h])
                ELSE M.photos[h]]]

\* trip_cities, visits, photos, walks and share_links cascade with their trip.
DeleteTripRow(L, t) ==
    LET M == DeleteVisits(DeletePhotos(L, PhotosOn(L, t)), VisitsOn(L, t))
    IN  [M EXCEPT
            !.trips = [M.trips EXCEPT ![t] = NoRow],
            !.tripCities = [M.tripCities EXCEPT ![t] = [c \in Cities |-> None]],
            !.walks = [w \in Walks |->
                IF L.walks[w] # NoRow /\ L.walks[w].trip = t THEN NoRow ELSE L.walks[w]],
            !.links = [k \in Tokens |->
                IF k \in LinksOn(L, t) THEN NoRow ELSE L.links[k]]]

-----------------------------------------------------------------------------
(***************************************************************************)
(* Trips and cities.  A body leaves a column alone by leaving its key out. *)
(***************************************************************************)

Merge(sent, old) == IF sent = Unsent THEN old ELSE sent

Body(S) == S \cup {Unsent}

\* A nullable column; an instance that gives it no value leaves its key out of every body.
Nullable(S) == IF S = {} THEN {Unsent} ELSE Body(Opt(S))

TripWrites == [name : Presence, start : Nullable(Days), end : Nullable(Days),
               summary : Nullable(Texts), cover : Nullable(Covers),
               cityIds : Body(BoundedSeq(Cities, MaxItinerary))]

\* 0002 made the share flags default to true, true, false.
NewTrip == [start |-> None, end |-> None, summary |-> None, cover |-> None,
            sharePhotos |-> TRUE, shareNotes |-> TRUE, shareCoordinates |-> FALSE]

BeforeTrip(L, t) == IF L.trips[t] = NoRow THEN NewTrip ELSE L.trips[t]

\* requireCover: a cover names an object whose upload was committed.
CoverCommitted(L, cover) == cover \in {Unsent, None} \/ L.media[cover] = "committed"

\* Mutant: only the dates the body carries are compared, as ValidateTrip sees them.
DatesOrderedInBody(L, t, w) ==
    {w.start, w.end} \cap {Unsent, None} # {} \/ w.start <= w.end

\* CheckTripWritable: the dates are ordered as they would be stored, body over row.
DatesOrdered(L, t, w) ==
    LET start == Merge(w.start, BeforeTrip(L, t).start)
        end   == Merge(w.end, BeforeTrip(L, t).end)
    IN  start = None \/ end = None \/ start <= end

CitiesPresent(L, cityIds) == \A c \in ToSet(cityIds) : L.cities[c] # NoRow

\* replaceTripCities: delete, then insert in the array's order.
ReplaceTripCities(L, t, cityIds) ==
    [L EXCEPT !.tripCities = [L.tripCities EXCEPT ![t] =
        [c \in Cities |-> IF c \in ToSet(cityIds)
                          THEN (CHOOSE i \in DOMAIN cityIds : cityIds[i] = c) - 1
                          ELSE None]]]

TripWritable(L, t, w) ==
    /\ L.trips[t] = NoRow => w.name
    /\ w.cityIds = Unsent \/ (IsInjective(w.cityIds) /\ CitiesPresent(L, w.cityIds))
    /\ CoverCommitted(L, w.cover)
    /\ DatesOrdered(L, t, w)

PutTrip(L, t, w) ==
    LET old == BeforeTrip(L, t)
        row == [old EXCEPT !.start = Merge(w.start, old.start), !.end = Merge(w.end, old.end),
                           !.summary = Merge(w.summary, old.summary),
                           !.cover = Merge(w.cover, old.cover)]
        upserted == [L EXCEPT !.trips = [L.trips EXCEPT ![t] = row]]
    IN  IF ~TripWritable(L, t, w) THEN Refuse(L, "invalid")
        ELSE IF w.cityIds = Unsent THEN Commit(L, <<upserted>>)
        ELSE Commit(L, <<upserted, ReplaceTripCities(upserted, t, w.cityIds)>>)

\* D3.  A miss rolls the version back and answers the log as it stands.
DeleteTrip(L, t) ==
    IF L.trips[t] = NoRow THEN Refuse(L, "miss")
    ELSE Commit(L, <<DeleteTripRow(L, t)>>)

\* complete: name, country and centre all sent.
CityWrites == [complete : Presence, cover : Nullable(Covers), attachTo : Body(Trips)]

NextOrdinal(ordinals) == IF ordinals = {} THEN 0 ELSE Max(ordinals) + 1

\* Mutant: an attach without ON CONFLICT DO NOTHING moves the city to the end.
AttachCityMoving(L, t, c) ==
    [L EXCEPT !.tripCities = [L.tripCities EXCEPT ![t] = [L.tripCities[t] EXCEPT ![c] =
        NextOrdinal({L.tripCities[t][d] : d \in Itinerary(L, t)})]]]

\* attachCitySQL appends, and leaves a city already on the itinerary where it is.
AttachCity(L, t, c) ==
    IF c \in Itinerary(L, t) THEN L
    ELSE [L EXCEPT !.tripCities = [L.tripCities EXCEPT ![t] = [L.tripCities[t] EXCEPT ![c] =
              NextOrdinal({L.tripCities[t][d] : d \in Itinerary(L, t)})]]]

PutCity(L, c, w) ==
    LET old == IF L.cities[c] = NoRow THEN [cover |-> None] ELSE L.cities[c]
        upserted == [L EXCEPT !.cities =
                        [L.cities EXCEPT ![c] = [cover |-> Merge(w.cover, old.cover)]]]
    IN  IF \/ L.cities[c] = NoRow /\ ~w.complete
           \/ ~CoverCommitted(L, w.cover)
           \/ w.attachTo # Unsent /\ L.trips[w.attachTo] = NoRow
        THEN Refuse(L, "invalid")
        ELSE IF w.attachTo = Unsent THEN Commit(L, <<upserted>>)
        ELSE Commit(L, <<upserted, AttachCity(upserted, w.attachTo, c)>>)


-----------------------------------------------------------------------------
(***************************************************************************)
(* Places and their occasions.  A visits array replaces all a place holds: *)
(* park the stored ordinals out of the way, upsert the array, delete what  *)
(* it left out.                                                            *)
(***************************************************************************)

VisitWrites == [id : Visits, trip : Trips, at : Times, note : Opt(Texts)]

\* complete: name and coordinates sent.
PlaceWrites == [city : Body(Cities), complete : Presence, plan : Nullable(Texts),
                cover : Nullable(Covers), visits : Body(BoundedSeq(VisitWrites, MaxVisits))]

Renumber(visit, ordinal) == [visit EXCEPT !.ordinal = ordinal]

\* Mutant: the stored ordinals are not moved out of the way.
ParkNothing(L, p, n) == L

\* offsetVisitOrdinalsSQL: above every stored ordinal and every one to come.
ParkVisits(L, p, n) ==
    LET offset == Max({n, NextOrdinal({L.visits[v].ordinal : v \in OccasionsAt(L, p)})})
    IN  [L EXCEPT !.visits = [v \in Visits |->
            IF v \in OccasionsAt(L, p)
            THEN Renumber(L.visits[v], L.visits[v].ordinal + offset)
            ELSE L.visits[v]]]

VisitIds(visits) == {visits[i].id : i \in DOMAIN visits}

\* Mutant: the array is appended after what is stored.
AppendVisits(L, p, visits) ==
    LET base == NextOrdinal({L.visits[v].ordinal : v \in OccasionsAt(L, p)})
    IN  [L EXCEPT !.visits = [v \in Visits |->
            IF v \notin VisitIds(visits) THEN L.visits[v]
            ELSE LET i == CHOOSE i \in DOMAIN visits : visits[i].id = v
                 IN  [place |-> p, trip |-> visits[i].trip, ordinal |-> base + i - 1,
                      at |-> visits[i].at, note |-> visits[i].note]]]

UpsertVisits(L, p, visits) ==
    [L EXCEPT !.visits = [v \in Visits |->
        IF v \notin VisitIds(visits) THEN L.visits[v]
        ELSE LET i == CHOOSE i \in DOMAIN visits : visits[i].id = v
             IN  [place |-> p, trip |-> visits[i].trip, ordinal |-> i - 1,
                  at |-> visits[i].at, note |-> visits[i].note]]]

\* Mutant: the check on occupied occasions is missing.
DropsUnchecked(L, p, visits) == FALSE

\* refuseDroppingAnOccupiedOccasion.
DropsOccupied(L, p, visits) ==
    \E v \in OccasionsAt(L, p) \ VisitIds(visits) : FiledTo(L, v) # {}

\* Mutant: an occasion is taken from whatever place holds it.
TakesFromAnywhere(L, p, visits) == FALSE

\* refuseVisitsHeldElsewhere.
HeldElsewhere(L, p, visits) ==
    \E v \in VisitIds(visits) : L.visits[v] # NoRow /\ L.visits[v].place # p

TripsPresent(L, visits) == \A i \in DOMAIN visits : L.trips[visits[i].trip] # NoRow

VisitsWritable(L, p, visits) ==
    IF visits = <<>> THEN OccasionsAt(L, p) = {}
    ELSE /\ IsInjective([i \in DOMAIN visits |-> visits[i].id])
         /\ TripsPresent(L, visits)
         /\ ~HeldElsewhere(L, p, visits)
         /\ ~DropsOccupied(L, p, visits)

\* deleteDepartedVisitsSQL.
DeleteDeparted(L, p, visits) == DeleteVisits(L, OccasionsAt(L, p) \ VisitIds(visits))

PutPlace(L, p, w) ==
    LET old == IF L.places[p] = NoRow THEN [city |-> None, plan |-> None, cover |-> None]
               ELSE L.places[p]
        row == [city |-> Merge(w.city, old.city), plan |-> Merge(w.plan, old.plan),
                cover |-> Merge(w.cover, old.cover)]
        upserted == [L EXCEPT !.places = [L.places EXCEPT ![p] = row]]
        parked   == ParkVisits(upserted, p, Len(w.visits))
        replaced == UpsertVisits(parked, p, w.visits)
    IN  IF \/ L.places[p] = NoRow /\ (w.city = Unsent \/ ~w.complete)
           \/ L.cities[row.city] = NoRow
           \/ ~CoverCommitted(L, w.cover)
           \/ w.visits # Unsent /\ ~VisitsWritable(L, p, w.visits)
        THEN Refuse(L, "invalid")
        ELSE IF w.visits \in {Unsent, <<>>} THEN Commit(L, <<upserted>>)
        ELSE Commit(L, <<upserted, parked, replaced, DeleteDeparted(replaced, p, w.visits)>>)

Dispositions == {"keep", "delete"}

\* Mutant: the place goes first, and its photographs no longer name it.
RemovePlaceFirst(L, p, disposition) ==
    LET removed == DeletePlaceRow(L, p)
    IN  IF L.places[p] = NoRow THEN Refuse(L, "miss")
        ELSE IF disposition = "keep" THEN Commit(L, <<removed>>)
        ELSE Commit(L, <<removed, DeletePhotos(removed, PhotosAt(removed, p))>>)

\* D2.  The photographs go first: once the place is gone they no longer name it.
RemovePlace(L, p, disposition) ==
    LET cleared == DeletePhotos(L, PhotosAt(L, p))
    IN  IF L.places[p] = NoRow THEN Refuse(L, "miss")
        ELSE IF disposition = "keep" THEN Commit(L, <<DeletePlaceRow(L, p)>>)
        ELSE Commit(L, <<cleared, DeletePlaceRow(cleared, p)>>)

-----------------------------------------------------------------------------
(***************************************************************************)
(* Photographs.  PutPhoto never writes the filing (place, visit): only     *)
(* RefilePhoto does, both columns in one statement.                        *)
(***************************************************************************)

PhotoWrites == [trip : Body(Trips), city : Body(Cities), takenAt : Presence,
                asset : Body(Media), caption : Nullable(Texts), filedLater : Nullable(Laters)]

\* StoredCaption: an empty caption is no caption.
StoredCaption(caption) == IF caption = "" THEN None ELSE caption

NewPhoto == [trip |-> None, city |-> None, place |-> None, visit |-> None, asset |-> None,
             caption |-> None, filedLater |-> None]

PutPhoto(L, h, w) ==
    LET old == IF L.photos[h] = NoRow THEN NewPhoto ELSE L.photos[h]
        row == [old EXCEPT !.trip = Merge(w.trip, old.trip), !.city = Merge(w.city, old.city),
                           !.asset = Merge(w.asset, old.asset),
                           !.caption = Merge(StoredCaption(w.caption), old.caption),
                           !.filedLater = Merge(w.filedLater, old.filedLater)]
    IN  IF \/ L.photos[h] = NoRow /\ (Unsent \in {w.trip, w.city, w.asset} \/ ~w.takenAt)
           \/ L.trips[row.trip] = NoRow
           \/ L.cities[row.city] = NoRow
           \/ w.asset # Unsent /\ L.media[w.asset] # "committed"
        THEN Refuse(L, "invalid")
        ELSE Commit(L, <<[L EXCEPT !.photos = [L.photos EXCEPT ![h] = row]]>>)

\* D1.
DeletePhoto(L, h) ==
    IF L.photos[h] = NoRow THEN Refuse(L, "miss") ELSE Commit(L, <<DeletePhotos(L, {h})>>)

\* The ids that are not in the log are ignored; none in it is a miss.
SnoozePhotos(L, S, until) ==
    IF \A h \in S : L.photos[h] = NoRow THEN Refuse(L, "miss")
    ELSE Commit(L, <<[L EXCEPT !.photos = [h \in Photos |->
            IF h \in S /\ L.photos[h] # NoRow
            THEN [L.photos[h] EXCEPT !.filedLater = until] ELSE L.photos[h]]]>>)

\* insertRefiledVisitSQL.
InsertVisit(L, v, p, t, at) ==
    [L EXCEPT !.visits = [L.visits EXCEPT ![v] =
        [place |-> p, trip |-> t, at |-> at, note |-> None,
         ordinal |-> NextOrdinal({L.visits[u].ordinal : u \in OccasionsAt(L, p)})]]]

\* Mutant: no tie-break between occasions of one moment.
PrecedesWithoutTies(L, u, v) == L.visits[u].at > L.visits[v].at

\* Mutant: oldest first.
PrecedesOldestFirst(L, u, v) ==
    L.visits[u].at < L.visits[v].at \/ (L.visits[u].at = L.visits[v].at /\ u < v)

\* ORDER BY at DESC, id.
Precedes(L, u, v) ==
    \/ L.visits[u].at > L.visits[v].at
    \/ L.visits[u].at = L.visits[v].at /\ u < v

\* Mutant: row_number() counts from one.
RenumberFromOne(L, p) ==
    [L EXCEPT !.visits = [v \in Visits |->
        IF v \in OccasionsAt(L, p)
        THEN Renumber(L.visits[v], 1 + Cardinality({u \in OccasionsAt(L, p) : Precedes(L, u, v)}))
        ELSE L.visits[v]]]

\* renumberVisitsByTimeSQL.
RenumberByTime(L, p) ==
    [L EXCEPT !.visits = [v \in Visits |->
        IF v \in OccasionsAt(L, p)
        THEN Renumber(L.visits[v], Cardinality({u \in OccasionsAt(L, p) : Precedes(L, u, v)}))
        ELSE L.visits[v]]]

FilePhoto(L, h, p, v) ==
    [L EXCEPT !.photos = [L.photos EXCEPT ![h] = [L.photos[h] EXCEPT !.place = p, !.visit = v]]]

\* CheckOccasionBelongsHere, for an occasion the log already holds.
OccasionBelongs(L, v, p, t) == L.visits[v].place = p /\ L.visits[v].trip = t

Refilings == [place : Places, visit : Visits, at : Body(Times)]

RefilePhoto(L, h, w) ==
    LET trip       == L.photos[h].trip
        inserted   == InsertVisit(L, w.visit, w.place, trip, w.at)
        parked     == ParkVisits(inserted, w.place, Cardinality(OccasionsAt(inserted, w.place)))
        renumbered == RenumberByTime(parked, w.place)
    IN  IF L.photos[h] = NoRow THEN Refuse(L, "notFound")
        ELSE IF \/ L.places[w.place] = NoRow
                \/ L.places[w.place].city # L.photos[h].city
                \/ IF L.visits[w.visit] = NoRow THEN w.at = Unsent
                   ELSE ~OccasionBelongs(L, w.visit, w.place, trip)
        THEN Refuse(L, "invalid")
        ELSE IF L.visits[w.visit] # NoRow THEN Commit(L, <<FilePhoto(L, h, w.place, w.visit)>>)
        ELSE Commit(L, <<inserted, parked, renumbered,
                         FilePhoto(renumbered, h, w.place, w.visit)>>)

-----------------------------------------------------------------------------
(***************************************************************************)
(* Walks, sharing, the traveller's name, media objects.                    *)
(***************************************************************************)

\* complete: recordedOn, distanceKm and points all sent.
WalkWrites == [trip : Body(Trips), city : Body(Cities), complete : Presence,
               dismissed : Body(Flags)]

PutWalk(L, k, w) ==
    LET old == IF L.walks[k] = NoRow THEN [trip |-> None, city |-> None, dismissed |-> FALSE]
               ELSE L.walks[k]
        row == [trip |-> Merge(w.trip, old.trip), city |-> Merge(w.city, old.city),
                dismissed |-> Merge(w.dismissed, old.dismissed)]
    IN  IF \/ L.walks[k] = NoRow /\ (Unsent \in {w.trip, w.city} \/ ~w.complete)
           \/ L.trips[row.trip] = NoRow
           \/ L.cities[row.city] = NoRow
        THEN Refuse(L, "invalid")
        ELSE Commit(L, <<[L EXCEPT !.walks = [L.walks EXCEPT ![k] = row]]>>)

ShareWrites == [photos : Body(Flags), notes : Body(Flags), coordinates : Body(Flags)]

SetFlags(L, t, photos, notes, coordinates) ==
    [L EXCEPT !.trips = [L.trips EXCEPT ![t] =
        [L.trips[t] EXCEPT !.sharePhotos = photos, !.shareNotes = notes,
                           !.shareCoordinates = coordinates]]]

SetShareOptions(L, t, w) ==
    IF L.trips[t] = NoRow THEN Refuse(L, "notFound")
    ELSE Commit(L, <<SetFlags(L, t, Merge(w.photos, L.trips[t].sharePhotos),
                                    Merge(w.notes, L.trips[t].shareNotes),
                                    Merge(w.coordinates, L.trips[t].shareCoordinates))>>)

\* revokeLiveLinkSQL keeps the row, and stamps it with the moment this transaction began.
RevokeLive(L, t, now) ==
    [L EXCEPT !.links = [k \in Tokens |->
        IF k \in LiveLinks(L, t) THEN [L.links[k] EXCEPT !.revoked = now] ELSE L.links[k]]]

\* Revoke, then insert; a digest the table already holds fails its unique index.
NewShareLink(L, t, token, now) ==
    LET revoked == RevokeLive(L, t, now)
        linked  == [revoked EXCEPT !.links =
                       [revoked.links EXCEPT ![token] =
                           [trip |-> t, created |-> now, revoked |-> None]]]
    IN  IF L.trips[t] = NoRow THEN Refuse(L, "notFound")
        ELSE IF L.links[token] # NoRow THEN Refuse(L, "constraint")
        ELSE Commit(L, <<revoked, linked>>)

\* Mutant: the link is revoked and the flags are left as they were.
StopSharingKeepingFlags(L, t, now) ==
    IF L.trips[t] = NoRow THEN Refuse(L, "notFound")
    ELSE Commit(L, <<RevokeLive(L, t, now)>>)

\* resetShareFlagsSQL: the next link starts from the defaults.
StopSharing(L, t, now) ==
    IF L.trips[t] = NoRow THEN Refuse(L, "notFound")
    ELSE Commit(L, <<RevokeLive(L, t, now),
                     SetFlags(RevokeLive(L, t, now), t, TRUE, TRUE, FALSE)>>)

SetTravellerName(L, name) == Commit(L, <<[L EXCEPT !.name = name]>>)

\* Mutant: a second begin opens a committed object again.
BeginMediaAgain(L, m) == Commit(L, <<[L EXCEPT !.media = [L.media EXCEPT ![m] = "begun"]]>>)

\* beginSQL leaves a committed row alone, and so does a second begin of an open one.
BeginMedia(L, m) ==
    Commit(L, <<IF L.media[m] = "absent" THEN [L EXCEPT !.media = [L.media EXCEPT ![m] = "begun"]]
                ELSE L>>)

MarkMediaUploaded(L, m) ==
    IF L.media[m] = "absent" THEN Refuse(L, "notFound")
    ELSE Commit(L, <<[L EXCEPT !.media = [L.media EXCEPT ![m] = "committed"]]>>)

-----------------------------------------------------------------------------
(***************************************************************************)
(* The requests, and what serving one does.                                *)
(***************************************************************************)

Request(op, id, body) == [op |-> op, id |-> id, body |-> body]

Perform(L, r, now) ==
    CASE r.op = "PutTrip"           -> PutTrip(L, r.id, r.body)
      [] r.op = "DeleteTrip"        -> DeleteTrip(L, r.id)
      [] r.op = "PutCity"           -> PutCity(L, r.id, r.body)
      [] r.op = "PutPlace"          -> PutPlace(L, r.id, r.body)
      [] r.op = "RemovePlace"       -> RemovePlace(L, r.id, r.body)
      [] r.op = "PutPhoto"          -> PutPhoto(L, r.id, r.body)
      [] r.op = "DeletePhoto"       -> DeletePhoto(L, r.id)
      [] r.op = "SnoozePhotos"      -> SnoozePhotos(L, r.id, r.body)
      [] r.op = "RefilePhoto"       -> RefilePhoto(L, r.id, r.body)
      [] r.op = "PutWalk"           -> PutWalk(L, r.id, r.body)
      [] r.op = "SetShareOptions"   -> SetShareOptions(L, r.id, r.body)
      [] r.op = "NewShareLink"      -> NewShareLink(L, r.id, r.body, now)
      [] r.op = "StopSharing"       -> StopSharing(L, r.id, now)
      [] r.op = "SetTravellerName"  -> SetTravellerName(L, r.body)
      [] r.op = "BeginMedia"        -> BeginMedia(L, r.id)
      [] r.op = "MarkMediaUploaded" -> MarkMediaUploaded(L, r.id)

\* WithTravellerTx begins the transaction, which fixes now(), and only then
\* waits for the traveller's lock: the order in which writes get the lock says
\* nothing of the order in which they began.
Serve(r) ==
    \E now \in Moments :
        LET result == Perform(log, r, now)
        IN  /\ request' = r
            /\ began' = now
            /\ log' = result.log
            /\ answer' = result.answer

EmptyLog == [name |-> None,
             trips |-> [t \in Trips |-> NoRow],
             tripCities |-> [t \in Trips |-> [c \in Cities |-> None]],
             cities |-> [c \in Cities |-> NoRow],
             places |-> [p \in Places |-> NoRow],
             visits |-> [v \in Visits |-> NoRow],
             photos |-> [h \in Photos |-> NoRow],
             walks |-> [w \in Walks |-> NoRow],
             links |-> [k \in Tokens |-> NoRow],
             media |-> [m \in Media |-> "absent"]]

Init ==
    /\ log = EmptyLog
    /\ request = Request("none", None, None)
    /\ answer = "none"
    /\ began = None

TripNext ==
    \/ \E t \in Trips, w \in TripWrites : Serve(Request("PutTrip", t, w))
    \/ \E t \in Trips : Serve(Request("DeleteTrip", t, None))

CityNext == \E c \in Cities, w \in CityWrites : Serve(Request("PutCity", c, w))

PlaceNext ==
    \/ \E p \in Places, w \in PlaceWrites : Serve(Request("PutPlace", p, w))
    \/ \E p \in Places, d \in Dispositions : Serve(Request("RemovePlace", p, d))

PhotoNext ==
    \/ \E h \in Photos, w \in PhotoWrites : Serve(Request("PutPhoto", h, w))
    \/ \E h \in Photos : Serve(Request("DeletePhoto", h, None))
    \/ \E S \in SUBSET Photos, until \in Laters : Serve(Request("SnoozePhotos", S, until))
    \/ \E h \in Photos, w \in Refilings : Serve(Request("RefilePhoto", h, w))

WalkNext == \E k \in Walks, w \in WalkWrites : Serve(Request("PutWalk", k, w))

ShareNext ==
    \/ \E t \in Trips, w \in ShareWrites : Serve(Request("SetShareOptions", t, w))
    \/ \E t \in Trips, k \in Tokens : Serve(Request("NewShareLink", t, k))
    \/ \E t \in Trips : Serve(Request("StopSharing", t, None))

NameNext == \E n \in Names : Serve(Request("SetTravellerName", None, n))

MediaNext ==
    \/ \E m \in Media : Serve(Request("BeginMedia", m, None))
    \/ \E m \in Media : Serve(Request("MarkMediaUploaded", m, None))

Next == \/ TripNext \/ CityNext \/ PlaceNext \/ PhotoNext
        \/ WalkNext \/ ShareNext \/ NameNext \/ MediaNext

Spec == Init /\ [][Next]_vars

-----------------------------------------------------------------------------
(***************************************************************************)
(* Properties.                                                             *)
(***************************************************************************)

\* A photograph filed to an occasion names the place that occasion is at.
PairsCoherent(L) ==
    \A h \in Photos : L.photos[h] # NoRow /\ L.photos[h].visit # None =>
        /\ L.visits[L.photos[h].visit] # NoRow
        /\ L.visits[L.photos[h].visit].place = L.photos[h].place

\* The filing pair is coherent in every log.  photos.place_id and
\* photos.visit_id are two independent foreign keys, so only the Go rules of
\* PutPlace, RefilePhoto and PutPhoto keep this (0003's comment on the columns).
FiledToOwnPlace == PairsCoherent(log)

\* Every photograph and every cover names an object whose upload was committed.
NamesCommitted(L) ==
    /\ \A h \in Photos : L.photos[h] # NoRow => L.media[L.photos[h].asset] = "committed"
    /\ \A t \in Trips : L.trips[t] # NoRow => CoverCommitted(L, L.trips[t].cover)
    /\ \A c \in Cities : L.cities[c] # NoRow => CoverCommitted(L, L.cities[c].cover)
    /\ \A p \in Places : L.places[p] # NoRow => CoverCommitted(L, L.places[p].cover)

\* No log names an object that was only begun: the foreign keys would accept
\* one, requireCover and requirePhotoAsset do not, and nothing takes a commit
\* back.
AssetsCommitted == NamesCommitted(log)

\* A trip's itinerary is numbered 0..n-1 whatever mix of PutTrip arrays and
\* PutCity attachments built it.
ItineraryDense ==
    \A t \in Trips : {log.tripCities[t][c] : c \in Itinerary(log, t)}
                        = 0 .. Cardinality(Itinerary(log, t)) - 1

\* The Go rules come first: no write that passed them is failed by a foreign
\* key, a unique index or a check, which would be a 500 that names no field.
\* Two exceptions, both of a link: a share token whose row the log already
\* holds, and a link that was minted while the write that revokes it waited for
\* the lock, which would be revoked before it was created.
ConstraintsNeverAnswer ==
    [][answer' = "constraint" =>
         \/ request'.op = "NewShareLink" /\ log.links[request'.body] # NoRow
         \/ /\ request'.op \in {"NewShareLink", "StopSharing"}
            /\ \E k \in LiveLinks(log, request'.id) : log.links[k].created > began']_vars

\* A photograph that survives a write keeps its filing, unless the write is
\* its own refile, the removal of the place it is filed at (which clears both
\* halves), or the deletion of the trip its occasion was on (which clears the
\* occasion only).  No PutPlace and no PutPhoto ever unfiles a photograph.
FilingKept(h) ==
    LET old == log.photos[h]
        new == log'.photos[h]
    IN  old # NoRow /\ new # NoRow =>
            \/ new.place = old.place /\ new.visit = old.visit
            \/ request'.op = "RefilePhoto" /\ request'.id = h
            \/ /\ request'.op = "RemovePlace" /\ request'.id = old.place
               /\ new.place = None /\ new.visit = None
            \/ /\ request'.op = "DeleteTrip" /\ log.visits[old.visit].trip = request'.id
               /\ new.place = old.place /\ new.visit = None

FilingsLostOnlyToDeletion == [][\A h \in Photos : FilingKept(h)]_vars

\* D2's promise, whichever branch is chosen: "delete" takes exactly the
\* photographs filed at the place, "keep" takes none and leaves them filed
\* nowhere.
RemovalKeepsItsPromise ==
    [][request'.op = "RemovePlace" /\ answer' = "ok" =>
         \A h \in Photos : log.photos[h] # NoRow =>
            IF log.photos[h].place # request'.id THEN log'.photos[h] = log.photos[h]
            ELSE IF request'.body = "delete" THEN log'.photos[h] = NoRow
            ELSE log'.photos[h] = [log.photos[h] EXCEPT !.place = None, !.visit = None]]_vars

\* D3 deletes what belongs to the trip and nothing else: cities and pins
\* stay, and so do the rows of every other trip, its occasions and itinerary
\* with their ordinals, its walks and its links; a photograph of another trip
\* may lose the occasion it was filed to, never its row.
TripDeletionScope ==
    [][request'.op = "DeleteTrip" =>
         /\ log'.cities = log.cities /\ log'.places = log.places /\ log'.media = log.media
         /\ \A v \in Visits : log.visits[v] # NoRow /\ log.visits[v].trip # request'.id =>
               log'.visits[v] = log.visits[v]
         /\ \A h \in Photos : log.photos[h] # NoRow /\ log.photos[h].trip # request'.id =>
               log'.photos[h] # NoRow
         /\ \A t \in Trips \ {request'.id} :
               log'.trips[t] = log.trips[t] /\ log'.tripCities[t] = log.tripCities[t]
         /\ \A w \in Walks : log.walks[w] # NoRow /\ log.walks[w].trip # request'.id =>
               log'.walks[w] = log.walks[w]
         /\ \A k \in Tokens : log.links[k] # NoRow /\ log.links[k].trip # request'.id =>
               log'.links[k] = log.links[k]
         /\ answer' = "ok" => VisitsOn(log', request'.id) = {} /\ PhotosOn(log', request'.id) = {}
         ]_vars

\* A refile that opens an occasion leaves its place numbered 0..n-1, newest
\* first, whatever order PutPlace had stored there.
MintedOccasionsInTimeOrder ==
    [][request'.op = "RefilePhoto" /\ answer' = "ok" /\ log.visits[request'.body.visit] = NoRow =>
         LET here == OccasionsAt(log', request'.body.place)
         IN  /\ {log'.visits[v].ordinal : v \in here} = 0 .. Cardinality(here) - 1
             /\ \A u, v \in here :
                   log'.visits[u].ordinal < log'.visits[v].ordinal =>
                       log'.visits[u].at >= log'.visits[v].at]_vars

\* A link somebody was sent and that was then revoked never opens the log
\* again while its row stands, and a trip that stopped being shared goes back
\* to the default flags, so that the next link does not inherit coordinates.
RevokedStaysRevoked ==
    [][/\ \A k \in Tokens : log.links[k] # NoRow /\ log.links[k].revoked # None =>
             log'.links[k] \in {log.links[k], NoRow}
       /\ request'.op = "StopSharing" /\ answer' = "ok" =>
             /\ LiveLinks(log', request'.id) = {}
             /\ log'.trips[request'.id].sharePhotos
             /\ log'.trips[request'.id].shareNotes
             /\ ~log'.trips[request'.id].shareCoordinates]_vars

\* A client that lost the answer sends the request again, at any moment: the
\* repeat changes nothing and is not failed by the schema.
RetryIsSafe ==
    [][answer' = "ok" => \A now \in Moments :
                            LET again == Perform(log', request', now)
                            IN  again.log = log' /\ again.answer # "constraint"]_vars

\* No photograph names a place without an occasion there.
NoHalfFiled ==
    \A h \in Photos : log.photos[h] # NoRow =>
        (log.photos[h].place = None <=> log.photos[h].visit = None)

\* The states TLC tells apart: the other variables only label the step taken.
view == log
=============================================================================
