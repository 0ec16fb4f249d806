-------------------------- MODULE PublicReadProofs --------------------------
(***************************************************************************)
(* Safety of the public read and of the limiter in front of it, for any    *)
(* number of reads, tokens and clients.                                    *)
(***************************************************************************)
EXTENDS PublicRead, FiniteSetTheorems, TLAPS

-----------------------------------------------------------------------------
(***************************************************************************)
(* The limiter, for any number of clients, any rate and any threshold.     *)
(***************************************************************************)

\* A client is let through at most Burst times, and once more for every token
\* its bucket was refilled by, however often the bucket was dropped.
GrantsBounded ==
    \A c \in Clients : granted[c] * Unit + Level(c) <= Brim + clock * Burst

\* The limiter's inductive invariant.
LimiterInv == LimiterTypeOK /\ GrantsBounded

LEMMA BrimNat == Brim \in Nat /\ Brim >= Unit
BY AmountsNat DEF Brim

\* A bucket's level is between nothing and the brim, and the same whether it
\* is held full or dropped.
LEMMA LevelIn == ASSUME LimiterTypeOK, NEW c \in Clients PROVE Level(c) \in 0 .. Brim
<1>1. CASE buckets[c] = None BY <1>1, BrimNat DEF Level
<1>2. CASE buckets[c] # None
  <2>1. buckets[c] \in Bucket /\ buckets[c].last <= clock BY <1>2 DEF LimiterTypeOK
  <2>2. clock - buckets[c].last \in Nat BY <2>1 DEF LimiterTypeOK, Bucket
  <2>3. (clock - buckets[c].last) * Burst \in Nat BY <2>2, AmountsNat
  <2>4. Accrued(buckets[c]) \in Nat BY <2>1, <2>3, BrimNat DEF Accrued, Bucket
  <2> QED BY <2>4, BrimNat DEF Level, Refilled
<1> QED BY <1>1, <1>2

\* A moment brings every bucket, held or not, Burst units up to the brim.
LEMMA LevelAtNextSecond ==
    ASSUME LimiterTypeOK, Second, NEW c \in Clients
    PROVE  Level(c)' = IF Level(c) + Burst < Brim THEN Level(c) + Burst ELSE Brim
<1>1. clock' = clock + 1 /\ buckets' = buckets /\ Brim' = Brim BY DEF Second, Brim
<1>2. CASE buckets[c] = None BY <1>1, <1>2, BrimNat, AmountsNat DEF Level
<1>3. CASE buckets[c] # None
  <2>1. buckets[c] \in Bucket /\ buckets[c].last <= clock BY <1>3 DEF LimiterTypeOK
  <2> DEFINE e == clock - buckets[c].last
             a == buckets[c].tokens + e * Burst
  <2>2. e \in Nat /\ clock + 1 - buckets[c].last = e + 1 BY <2>1 DEF LimiterTypeOK, Bucket
  <2>3. (e + 1) * Burst = e * Burst + Burst /\ e * Burst \in Nat BY <2>2, AmountsNat
  <2>4. a \in Nat /\ Accrued(buckets[c]) = a BY <2>1, <2>3, BrimNat DEF Accrued, Bucket
  <2>5. Accrued(buckets[c])' = a + Burst
    <3>1. clock' - buckets'[c].last = e + 1 /\ buckets'[c].tokens = buckets[c].tokens
      <4>1. clock' - buckets[c].last = e + 1 BY <1>1, <2>1, <2>2 DEF LimiterTypeOK, Bucket
      <4> QED BY <1>1, <4>1
    <3>2. buckets[c].tokens \in Nat BY <2>1, BrimNat DEF Bucket
    <3> HIDE DEF e
    <3>3. Accrued(buckets[c])' = buckets[c].tokens + (e + 1) * Burst BY <3>1 DEF Accrued
    <3> QED BY <2>2, <2>3, <3>2, <3>3, AmountsNat
  <2> HIDE DEF a, e
  <2> QED BY <1>1, <1>3, <2>4, <2>5, BrimNat, AmountsNat DEF Level, Refilled
<1> QED BY <1>2, <1>3

\* Asking takes a token from the client that asks, and changes the level of no
\* other client although its bucket may be dropped.
LEMMA LevelAfterAllow ==
    ASSUME LimiterTypeOK, NEW c \in Clients, Allow(c)
    PROVE  /\ LimiterTypeOK'
           /\ Level(c)' = IF Level(c) >= Unit THEN Level(c) - Unit ELSE Level(c)
           /\ \A d \in Clients \ {c} : Level(d)' = Level(d)
<1> DEFINE left == IF Level(c) >= Unit THEN Level(c) - Unit ELSE Level(c)
<1>1. left \in 0 .. Brim BY LevelIn, BrimNat, AmountsNat
<1>2. [tokens |-> left, last |-> clock] \in Bucket BY <1>1 DEF LimiterTypeOK, Bucket
<1>3. Kept(c) \in [Clients -> Bucket \cup {None}]
  BY DEF LimiterTypeOK, Kept, Prune
<1>4. buckets' = [Kept(c) EXCEPT ![c] = [tokens |-> left, last |-> clock]] /\ clock' = clock
  BY DEF Allow, Spend
<1>5. buckets'[c] = [tokens |-> left, last |-> clock] BY <1>3, <1>4
<1>6. \A d \in Clients \ {c} :
          \/ buckets'[d] = buckets[d]
          \/ buckets'[d] = None /\ buckets[d] # None /\ Refilled(buckets[d])
  BY <1>3, <1>4 DEF LimiterTypeOK, Kept, Prune, Droppable, Held
<1>7. LimiterTypeOK'
  <2>1. buckets' \in [Clients -> Bucket \cup {None}] BY <1>2, <1>3, <1>4
  <2>2. \A d \in Clients : buckets'[d] # None => buckets'[d].last <= clock'
    BY <1>4, <1>5, <1>6 DEF LimiterTypeOK
  <2>3. answer' \in [Clients -> BOOLEAN] /\ granted' \in [Clients -> Nat]
    BY DEF LimiterTypeOK, Allow, Spend
  <2> QED BY <1>4, <2>1, <2>2, <2>3 DEF LimiterTypeOK
<1>8. Level(c)' = left
  <2>1. buckets'[c] # None BY <1>2, <1>5, NoneIsNoBucket
  <2>2. Accrued(buckets[c])' = left
    BY <1>1, <1>4, <1>5, AmountsNat DEF Accrued, LimiterTypeOK
  <2> HIDE DEF left
  <2> QED BY <1>1, <2>1, <2>2, BrimNat DEF Level, Refilled, Brim
<1>9. \A d \in Clients \ {c} : Level(d)' = Level(d)
  BY <1>4, <1>6 DEF Level, Refilled, Accrued, Brim
<1> QED BY <1>7, <1>8, <1>9

LEMMA LimiterInitHolds == LimiterInit => LimiterInv
BY BrimNat, AmountsNat DEF LimiterInit, LimiterInv, LimiterTypeOK, GrantsBounded, Level

LEMMA LimiterNextKeeps == LimiterInv /\ [LimiterNext]_limiterVars => LimiterInv'
<1> SUFFICES ASSUME LimiterInv, [LimiterNext]_limiterVars PROVE LimiterInv' OBVIOUS
<1>1. CASE Second
  <2>1. LimiterTypeOK' BY <1>1 DEF LimiterInv, LimiterTypeOK, Second, Bucket, Brim
  <2>2. ASSUME NEW c \in Clients PROVE (granted[c] * Unit + Level(c) <= Brim + clock * Burst)'
    <3>1. granted[c] \in Nat /\ granted[c] * Unit \in Nat /\ clock * Burst \in Nat
      BY AmountsNat DEF LimiterInv, LimiterTypeOK
    <3>2. (clock + 1) * Burst = clock * Burst + Burst BY AmountsNat DEF LimiterInv, LimiterTypeOK
    <3>3. granted[c] * Unit + Level(c) <= Brim + clock * Burst BY DEF LimiterInv, GrantsBounded
    <3>4. Level(c)' <= Level(c) + Burst /\ Level(c) \in Nat /\ Level(c)' \in Nat
      BY <1>1, <2>1, LevelIn, LevelAtNextSecond, BrimNat, AmountsNat DEF LimiterInv
    <3>5. granted'[c] = granted[c] /\ clock' = clock + 1 /\ Brim' = Brim BY <1>1 DEF Second, Brim
    <3> HIDE DEF Level
    <3> QED BY <3>1, <3>2, <3>3, <3>4, <3>5, BrimNat, AmountsNat
  <2> QED BY <2>1, <2>2 DEF LimiterInv, GrantsBounded
<1>2. ASSUME NEW c \in Clients, Allow(c) PROVE LimiterInv'
  <2>1. LimiterTypeOK' BY <1>2, LevelAfterAllow DEF LimiterInv
  <2>2. ASSUME NEW d \in Clients PROVE (granted[d] * Unit + Level(d) <= Brim + clock * Burst)'
    <3>1. granted[d] \in Nat /\ granted[d] * Unit \in Nat /\ clock * Burst \in Nat
          /\ (granted[d] + 1) * Unit = granted[d] * Unit + Unit
      BY AmountsNat DEF LimiterInv, LimiterTypeOK
    <3>2. granted[d] * Unit + Level(d) <= Brim + clock * Burst BY DEF LimiterInv, GrantsBounded
    <3>3. clock' = clock /\ Brim' = Brim BY <1>2 DEF Allow, Brim
    <3>4. Level(d) \in Nat BY LevelIn, BrimNat DEF LimiterInv
    <3>5. CASE d # c \/ Level(c) < Unit
      <4>1. granted'[d] = granted[d]
        BY <1>2, <3>5, LevelIn, BrimNat, AmountsNat DEF LimiterInv, LimiterTypeOK, Allow, Spend
      <4>2. Level(d)' = Level(d)
        BY <1>2, <3>5, LevelAfterAllow, LevelIn, BrimNat, AmountsNat DEF LimiterInv
      <4> QED BY <3>2, <3>3, <4>1, <4>2
    <3>6. CASE d = c /\ Level(c) >= Unit
      <4>1. granted'[d] = granted[d] + 1
        BY <1>2, <3>6 DEF LimiterInv, LimiterTypeOK, Allow, Spend
      <4>2. Level(d)' = Level(d) - Unit BY <1>2, <3>6, LevelAfterAllow DEF LimiterInv
      <4> QED BY <3>1, <3>2, <3>3, <3>4, <4>1, <4>2, BrimNat, AmountsNat
    <3> QED BY <3>4, <3>5, <3>6, LevelIn, BrimNat, AmountsNat DEF LimiterInv
  <2> QED BY <2>1, <2>2 DEF LimiterInv, GrantsBounded
<1>3. CASE UNCHANGED limiterVars
  BY <1>3 DEF LimiterInv, LimiterTypeOK, GrantsBounded, Level, Refilled, Accrued, Brim, Bucket, limiterVars
<1> QED BY <1>1, <1>2, <1>3 DEF LimiterNext

-----------------------------------------------------------------------------
\* Amounts stay between nothing and the brim, no bucket is from the future,
\* and the bound on what was let through holds.
THEOREM LimiterInvariance == LimiterSpec => []LimiterInv
BY LimiterInitHolds, LimiterNextKeeps, PTL DEF LimiterSpec

\* However often Allow's prune drops a client's bucket, that client is let
\* through Burst times and once for each token refilled, and no more.
THEOREM NoFreeBurst == LimiterSpec => []GrantsBounded
<1>1. LimiterInv => GrantsBounded BY DEF LimiterInv
<1> QED BY <1>1, LimiterInvariance, PTL

\* A new client makes the map larger than its threshold only if no bucket in
\* it is full: Allow cleans the map first.
THEOREM MapStaysBounded == LimiterSpec => MapBounded
<1>1. ASSUME LimiterInv, [LimiterNext]_limiterVars, NEW c \in Clients,
             buckets[c] = None, buckets'[c] # None
      PROVE  \/ Cardinality(Held') <= PruneAbove
             \/ \A d \in Clients \ {c} : buckets'[d] # None => ~Refilled(buckets[d])
  <2>1. PICK b \in Clients : Allow(b) BY <1>1 DEF LimiterNext, Second, limiterVars
  <2>2. Kept(b) \in [Clients -> Bucket \cup {None}] BY <1>1 DEF LimiterInv, LimiterTypeOK, Kept, Prune
  <2>3. b = c /\ \A d \in Clients \ {c} : buckets'[d] = Kept(c)[d]
    BY <1>1, <2>1, <2>2 DEF Allow, Kept, Prune, Held
  <2>4. CASE Cardinality(Held) >= PruneAbove
    BY <1>1, <2>3, <2>4 DEF LimiterInv, LimiterTypeOK, Kept, Prune, Held, Droppable
  <2>5. CASE ~(Cardinality(Held) >= PruneAbove)
    <3>1. Held' = Held \cup {c} /\ c \notin Held
      BY <1>1, <2>3, <2>5 DEF LimiterInv, LimiterTypeOK, Kept, Held
    <3>2. IsFiniteSet(Held) BY ClientsFinite, FS_Subset DEF Held
    <3>3. Cardinality(Held') = Cardinality(Held) + 1 /\ Cardinality(Held) \in Nat
      BY <3>1, <3>2, FS_AddElement, FS_CardinalityType
    <3> QED BY <2>5, <3>3, AmountsNat
  <2> QED BY <2>4, <2>5
<1>2. LimiterInv /\ [LimiterNext]_limiterVars =>
        [\A c \in Clients : buckets[c] = None /\ buckets'[c] # None =>
          \/ Cardinality(Held') <= PruneAbove
          \/ \A d \in Clients \ {c} : buckets'[d] # None => ~Refilled(buckets[d])]_limiterVars
  BY <1>1
<1> QED BY <1>2, LimiterInvariance, PTL DEF LimiterSpec, MapBounded

LEMMA LimiterStep ==
    LimiterInv /\ [LimiterNext]_limiterVars =>
        [Buckets!Next]_<<[c \in Clients |-> Level(c)], answer>>
<1> SUFFICES ASSUME LimiterInv, [LimiterNext]_limiterVars
             PROVE  [Buckets!Next]_<<[c \in Clients |-> Level(c)], answer>>
  OBVIOUS
<1>1. CASE Second
  <2>1. [c \in Clients |-> Level(c)]'
          = [c \in Clients |-> IF Level(c) + Burst < Brim THEN Level(c) + Burst ELSE Brim]
    BY <1>1, LevelAtNextSecond DEF LimiterInv
  <2> QED BY <1>1, <2>1 DEF Buckets!Next, Buckets!Moment, Buckets!Brim, Brim, Second
<1>2. ASSUME NEW c \in Clients, Allow(c) PROVE Buckets!Ask(c)
  <2>1. [d \in Clients |-> Level(d)]'
          = [[d \in Clients |-> Level(d)] EXCEPT ![c] = IF @ >= Unit THEN @ - Unit ELSE @]
    BY <1>2, LevelAfterAllow DEF LimiterInv
  <2> QED BY <1>2, <2>1 DEF Buckets!Ask, Allow, Spend
<1>3. CASE UNCHANGED limiterVars
  BY <1>3 DEF limiterVars, Level, Refilled, Accrued, Brim
<1> QED BY <1>1, <1>2, <1>3 DEF LimiterNext, Buckets!Next

\* The limiter that drops buckets answers every request like one that keeps a
\* bucket for every client for good.
THEOREM PruningInvisible == LimiterSpec => ImplementsTokenBuckets
<1>1. LimiterInit => Buckets!Init
  BY DEF LimiterInit, Buckets!Init, Buckets!Brim, Level, Brim
<1> QED BY <1>1, LimiterStep, LimiterInvariance, PTL DEF LimiterSpec, ImplementsTokenBuckets, Buckets!Spec

-----------------------------------------------------------------------------
(***************************************************************************)
(* The public read in front of which it stands.                            *)
(***************************************************************************)

Shown(t) == EmitPublic(t.flags, t.rows)

\* What a read at a stage, carrying q, has to go on when its trip is t, its
\* links are ls and seenBy is what it could have been shown.
Founds(t, ls, stage, q, seenBy) ==
    /\ Showable(t, ls, q.token) \subseteq seenBy
    /\ stage \in {"trip", "rows", "answered"} => \E seen \in seenBy : seen.live
    /\ stage = "rows" =>
          /\ q.snapshot \in Trip /\ q.flags = q.snapshot.flags
          /\ \E seen \in seenBy : seen.shown = Shown(q.snapshot)
    /\ stage = "answered" => \E seen \in seenBy : seen.shown = q.envelope

Founded(r) == Founds(trip, links, pc[r], req[r], could[r])

\* The inductive invariant.
IInv == TypeOK /\ \A r \in Requests : pc[r] # "idle" => Founded(r)

LEMMA ShowableType ==
    ASSUME NEW t \in Trip \cup {None}, NEW ls \in [Tokens -> {"none", "live", "revoked"}], NEW k \in Tokens
    PROVE  Showable(t, ls, k) \in SUBSET [live : BOOLEAN, shown : SUBSET Parts]
BY DEF Showable, EmitPublic

LEMMA FoundedNext ==
    ASSUME NEW r \in Requests
    PROVE  Founded(r)' <=> Founds(trip', links', pc'[r], req'[r], could'[r])
BY DEF Founded, Founds, Showable, Shown, EmitPublic, Parts, Trip

LEMMA InitHolds == Init => IInv
BY LimiterInitHolds DEF Init, IInv, TypeOK, LimiterInv, Trip, DefaultFlags

\* A write of the owner is added to what every read in flight could be shown.
LEMMA WriteKeeps ==
    ASSUME IInv, NEW t \in Trip \cup {None}, NEW ls \in [Tokens -> {"none", "live", "revoked"}],
           \A k, l \in Tokens : ls[k] = "live" /\ ls[l] = "live" => k = l,
           t = None => \A k \in Tokens : ls[k] = "none",
           Write(t, ls)
    PROVE  IInv'
<1>1. \A r \in Requests : pc[r] # "idle" => req[r].token \in Tokens BY DEF IInv, TypeOK, RequestState
<1>2. \A r \in Requests : could'[r] = IF pc[r] = "idle" THEN {}
                                      ELSE could[r] \cup Showable(t, ls, req[r].token)
  BY DEF Write
<1>3. TypeOK'
  <2>1. could' \in [Requests -> SUBSET [live : BOOLEAN, shown : SUBSET Parts]]
    BY <1>1, ShowableType DEF IInv, TypeOK, Write
  <2>2. LimiterTypeOK' BY DEF IInv, TypeOK, LimiterTypeOK, Write, limiterVars, Bucket, Brim
  <2> QED BY <2>1, <2>2 DEF IInv, TypeOK, Write, Trip, RequestState, Parts
<1>4. ASSUME NEW r \in Requests, pc'[r] # "idle" PROVE Founded(r)'
  <2>1. pc'[r] = pc[r] /\ req'[r] = req[r] /\ trip' = t /\ links' = ls BY DEF Write
  <2>2. Founded(r) /\ could[r] \subseteq could'[r] /\ Showable(t, ls, req[r].token) \subseteq could'[r]
    BY <1>2, <1>4, <2>1 DEF IInv
  <2>3. Founds(t, ls, pc[r], req[r], could'[r]) BY <2>2 DEF Founded, Founds
  <2> QED BY <2>1, <2>3, FoundedNext
<1> QED BY <1>3, <1>4 DEF IInv

LEMMA OwnerKeeps == ASSUME IInv, OwnerWrites PROVE IInv'
<1> USE DEF IInv, TypeOK
<1>1. ASSUME NEW flags \in SUBSET Flags, SetShareOptions(flags) PROVE IInv'
  BY <1>1, WriteKeeps, NoneIsNoTrip DEF SetShareOptions, Trip
<1>2. ASSUME NEW rows \in SUBSET Rows, WriteRows(rows) PROVE IInv'
  BY <1>2, WriteKeeps, NoneIsNoTrip DEF WriteRows, Trip
<1>3. ASSUME NEW k \in Tokens, NewShareLink(k) PROVE IInv'
  BY <1>3, WriteKeeps DEF NewShareLink, Revoked
<1>4. CASE StopSharing
  BY <1>4, WriteKeeps, NoneIsNoTrip DEF StopSharing, Revoked, DefaultFlags, Trip
<1>5. CASE DeleteTrip BY <1>5, WriteKeeps DEF DeleteTrip
<1>6. CASE PutTrip BY <1>6, WriteKeeps, NoneIsNoTrip DEF PutTrip, DefaultFlags, Trip
<1> QED BY <1>1, <1>2, <1>3, <1>4, <1>5, <1>6 DEF OwnerWrites

\* A step of one read leaves the others alone.
LEMMA OthersKeep ==
    ASSUME IInv, NEW r \in Requests, UNCHANGED <<trip, links>>, TypeOK',
           \A s \in Requests \ {r} : pc'[s] = pc[s] /\ req'[s] = req[s] /\ could'[s] = could[s],
           pc'[r] # "idle" => Founded(r)'
    PROVE  IInv'
<1>1. ASSUME NEW s \in Requests \ {r}, pc'[s] # "idle" PROVE Founded(s)'
  BY <1>1, FoundedNext DEF IInv, Founded
<1> QED BY <1>1 DEF IInv

LEMMA AskKeeps ==
    ASSUME IInv, NEW r \in Requests, NEW c \in Clients, NEW k \in Tokens, Ask(r, c, k)
    PROVE  IInv'
<1>1. LimiterTypeOK' BY LevelAfterAllow DEF IInv, TypeOK, Ask
<1>2. Showable(trip, links, k) \in SUBSET [live : BOOLEAN, shown : SUBSET Parts]
  BY ShowableType DEF IInv, TypeOK
<1>3. TypeOK' BY <1>1, <1>2 DEF IInv, TypeOK, Ask, RequestState, Trip, Parts
<1>4. pc'[r] # "idle" => Founded(r)'
  <2> SUFFICES ASSUME answer'[c] PROVE Founded(r)' BY DEF Ask, IInv, TypeOK
  <2>1. pc'[r] = "link" /\ req'[r].token = k /\ could'[r] = Showable(trip, links, k)
    BY DEF Ask, IInv, TypeOK
  <2>2. Founds(trip, links, "link", req'[r], could'[r]) BY <2>1 DEF Founds
  <2> QED BY <2>1, <2>2, FoundedNext DEF Ask
<1> QED BY <1>3, <1>4, OthersKeep DEF Ask, IInv, TypeOK

LEMMA ReadKeeps ==
    ASSUME IInv, NEW r \in Requests, ShareLink(r) \/ ReadPublicTrip(r) \/ AnswerEnvelope(r) \/ Finish(r)
    PROVE  IInv'
<1>1. LimiterTypeOK'
  BY DEF IInv, TypeOK, LimiterTypeOK, ShareLink, ReadPublicTrip, AnswerEnvelope, Finish, limiterVars,
         Bucket, Brim
<1>2. pc[r] # "idle" /\ req[r] \in RequestState /\ Founded(r) /\ UNCHANGED <<trip, links>>
  BY DEF IInv, TypeOK, ShareLink, ReadPublicTrip, AnswerEnvelope, Finish
<1>3. CASE End(r)
  <2>1. TypeOK' BY <1>1, <1>2, <1>3 DEF IInv, TypeOK, End, Trip, RequestState, Parts
  <2> QED BY <1>2, <1>3, <2>1, OthersKeep DEF End, IInv, TypeOK
<1>4. CASE ShareLink(r) /\ Opens(req[r].token)
  <2>1. pc' = [pc EXCEPT ![r] = "trip"] /\ req' = req /\ could' = could BY <1>4 DEF ShareLink
  <2>2. TypeOK' BY <1>1, <1>2, <2>1 DEF IInv, TypeOK, Trip, RequestState, Parts
  <2>3. \E seen \in could[r] : seen.live
    BY <1>2, <1>4 DEF IInv, TypeOK, Opens, Founded, Founds, Showable, RequestState
  <2>4. Founds(trip, links, "trip", req[r], could[r]) BY <1>2, <2>3 DEF Founded, Founds
  <2>5. Founded(r)' BY <1>2, <2>1, <2>4, FoundedNext DEF IInv, TypeOK
  <2> QED BY <1>2, <2>1, <2>2, <2>5, OthersKeep DEF IInv, TypeOK
<1>5. CASE ReadPublicTrip(r) /\ trip # None
  <2>1. /\ pc' = [pc EXCEPT ![r] = "rows"] /\ could' = could
        /\ req' = [req EXCEPT ![r] = [req[r] EXCEPT !.snapshot = trip, !.flags = trip.flags]]
    BY <1>5 DEF ReadPublicTrip, IInv, TypeOK, RequestState
  <2>2. trip \in Trip /\ trip.flags \in SUBSET Flags BY <1>5 DEF IInv, TypeOK, Trip
  <2>3. req'[r] \in RequestState /\ req'[r].snapshot = trip /\ req'[r].flags = trip.flags
        /\ req'[r].token = req[r].token
    BY <1>2, <2>1, <2>2 DEF RequestState, IInv, TypeOK
  <2>4. TypeOK' BY <1>1, <1>2, <2>1, <2>3 DEF IInv, TypeOK, Trip, RequestState, Parts
  <2>5. \E seen \in could[r] : seen.shown = Shown(trip)
    BY <1>2, <1>5 DEF Founded, Founds, Showable, Shown
  <2>6. Founds(trip, links, "rows", req'[r], could[r])
    BY <1>2, <1>5, <2>2, <2>3, <2>5 DEF ReadPublicTrip, Founded, Founds
  <2>7. Founded(r)' BY <1>2, <2>1, <2>6, FoundedNext DEF IInv, TypeOK
  <2> QED BY <1>2, <2>1, <2>4, <2>7, OthersKeep DEF IInv, TypeOK
<1>6. CASE AnswerEnvelope(r)
  <2> DEFINE e == EmitPublic(req[r].flags, Sees(r))
  <2>1. /\ pc' = [pc EXCEPT ![r] = "answered"] /\ could' = could
        /\ req' = [req EXCEPT ![r] = [req[r] EXCEPT !.envelope = e, !.snapshot = None, !.flags = {}]]
    BY <1>6 DEF AnswerEnvelope, IInv, TypeOK, RequestState
  <2>2. e \in SUBSET Parts /\ e = Shown(req[r].snapshot)
    BY <1>2, <1>6 DEF AnswerEnvelope, Founded, Founds, EmitPublic, Shown, Sees
  <2> HIDE DEF e
  <2>3. req'[r] \in RequestState /\ req'[r].envelope = e /\ req'[r].token = req[r].token
    BY <1>2, <2>1, <2>2 DEF RequestState, IInv, TypeOK
  <2>4. TypeOK' BY <1>1, <1>2, <2>1, <2>3 DEF IInv, TypeOK, Trip, RequestState, Parts
  <2>5. Founds(trip, links, "answered", req'[r], could[r])
    BY <1>2, <1>6, <2>2, <2>3 DEF AnswerEnvelope, Founded, Founds
  <2>6. Founded(r)' BY <1>2, <2>1, <2>5, FoundedNext DEF IInv, TypeOK
  <2> QED BY <1>2, <2>1, <2>4, <2>6, OthersKeep DEF IInv, TypeOK
<1> QED BY <1>3, <1>4, <1>5, <1>6 DEF ShareLink, ReadPublicTrip, Finish

LEMMA NextKeeps == IInv /\ [Next]_vars => IInv'
<1> SUFFICES ASSUME IInv, [Next]_vars PROVE IInv' OBVIOUS
<1>1. CASE Second /\ UNCHANGED <<trip, links, pc, req, could>>
  <2>1. LimiterTypeOK' BY <1>1 DEF IInv, TypeOK, LimiterTypeOK, Second, Bucket, Brim
  <2>2. TypeOK' BY <1>1, <2>1 DEF IInv, TypeOK, Trip, RequestState, Parts
  <2>3. \A r \in Requests : pc'[r] # "idle" => Founded(r)' BY <1>1, FoundedNext DEF IInv, Founded
  <2> QED BY <2>2, <2>3 DEF IInv
<1>2. CASE OwnerWrites BY <1>2, OwnerKeeps
<1>3. ASSUME NEW r \in Requests, Read(r) PROVE IInv' BY <1>3, AskKeeps, ReadKeeps DEF Read
<1>4. CASE UNCHANGED vars
  <2>1. TypeOK'
    BY <1>4 DEF IInv, TypeOK, LimiterTypeOK, Trip, RequestState, Parts, Bucket, Brim, vars, limiterVars
  <2>2. \A r \in Requests : pc'[r] # "idle" => Founded(r)' BY <1>4, FoundedNext DEF IInv, Founded, vars
  <2> QED BY <2>1, <2>2 DEF IInv
<1> QED BY <1>1, <1>2, <1>3, <1>4 DEF Next

-----------------------------------------------------------------------------
\* The inductive invariant of the public read: what each stage has read was
\* there to be shown since the read came.
THEOREM Invariance == Spec => []IInv
BY InitHolds, NextKeeps, PTL DEF Spec

\* Rows, links, reads and buckets have their types, and a trip has at most one
\* live link.
THEOREM Typed == Spec => []TypeOK
<1>1. IInv => TypeOK BY DEF IInv
<1> QED BY <1>1, Invariance, PTL

\* publicShare answers an envelope only to a token that was live since it came.
THEOREM LinksLive == Spec => []LinkWasLive
<1>1. IInv => LinkWasLive BY DEF IInv, Founded, Founds, LinkWasLive
<1> QED BY <1>1, Invariance, PTL

\* The envelope's flags and rows are of one moment since the read came.
THEOREM OneMoment == Spec => []EnvelopeOfOneMoment
<1>1. IInv => EnvelopeOfOneMoment BY DEF IInv, Founded, Founds, EnvelopeOfOneMoment
<1> QED BY <1>1, Invariance, PTL

\* The handler and the owner use the limiter only through Allow, so whatever
\* holds of the limiter alone holds of it here.
THEOREM LimiterInside == Spec => LimiterSpec
<1>1. Init => LimiterInit BY DEF Init
<1>2. [Next]_vars => [LimiterNext]_limiterVars
  BY DEF Next, vars, limiterVars, LimiterNext, OwnerWrites, SetShareOptions, WriteRows, NewShareLink,
         StopSharing, DeleteTrip, PutTrip, Write, Read, Ask, ShareLink, ReadPublicTrip,
         AnswerEnvelope, Finish
<1> QED BY <1>1, <1>2, PTL DEF Spec, LimiterSpec

\* In front of the public read too, dropping buckets is invisible.
THEOREM PublicLimit == Spec => ImplementsTokenBuckets
BY LimiterInside, PruningInvisible, PTL
=============================================================================
