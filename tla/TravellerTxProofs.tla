------------------------- MODULE TravellerTxProofs -------------------------
(***************************************************************************)
(* Safety of TravellerTx, and that it implements VersionedLog, for every   *)
(* number of requests, devices, tables and emitters.                       *)
(***************************************************************************)
EXTENDS TravellerTx, TLAPS

\* The committed document is the one its version names.
Versions == Len(history) = db.version + 1 /\ history[db.version + 1] = db.doc

\* What a request carries, stage by stage, and how it relates to the log.
Carries(r) ==
    /\ req[r].floor <= db.version
    /\ req[r].kind \notin {"lockOnly", "remove"} =>
          req[r].device \in Devices /\ req[r].emitter \in Emitters
    /\ pc[r] \in {"locked", "body", "assembling"} => lock = r
    /\ pc[r] \in {"body", "assembling"} => db.present
    /\ pc[r] \in {"waiting", "locked", "body", "opening"} => req[r].got = Nothing
    /\ pc[r] \in {"body", "assembling"} /\ req[r].kind \in Writes =>
          req[r].version = db.version + 1
    /\ pc[r] = "assembling" =>
          /\ req[r].kind = "cascade"
          /\ \A t \in Tables :
                req[r].got[t] \in {None, Overlay(db.doc, req[r].changed, req[r].version)[t]}
    /\ pc[r] = "opening" => req[r].kind \in {"read", "probe"}
    /\ pc[r] = "reading" =>
          /\ req[r].kind = "read"
          /\ req[r].floor <= req[r].version /\ req[r].version <= db.version
          /\ req[r].snapshot = history[req[r].version + 1]
          /\ \A t \in Tables : req[r].got[t] \in {None, req[r].snapshot[t]}
    /\ pc[r] = "envelope" =>
          /\ req[r].kind \in {"read", "cascade"}
          /\ req[r].floor <= req[r].version /\ req[r].version <= db.version
          /\ req[r].got = history[req[r].version + 1]
    /\ pc[r] = "notModified" =>
          /\ req[r].floor <= req[r].version
          /\ req[r].sent = <<req[r].emitter, req[r].version>>

AllCarry == \A r \in Requests : pc[r] # "idle" => Carries(r)

\* The inductive invariant.
IInv == TypeOK /\ Versions /\ AllCarry /\ CacheUnderItsOwnTag

-----------------------------------------------------------------------------
(***************************************************************************)
(* Steps of one request leave the others' facts alone.                     *)
(***************************************************************************)

\* A request that does not move keeps what it carries when the log does not
\* move either, and no lock is taken away from it.
LEMMA LogStands ==
    ASSUME NEW s \in Requests, Carries(s), pc'[s] = pc[s], req'[s] = req[s],
           db'.version = db.version, db'.doc = db.doc, history' = history,
           lock = s => lock' = s /\ db'.present = db.present
    PROVE  Carries(s)'
BY DEF Carries, Overlay, Nothing

\* Another request commits while this one has no lock: documents already
\* published stay where they are.
LEMMA LogGrows ==
    ASSUME NEW s \in Requests, TypeOK, pc[s] # "idle", Carries(s), Versions,
           pc'[s] = pc[s], req'[s] = req[s], lock # s,
           db'.version = db.version + 1,
           \A i \in 1 .. Len(history) : history'[i] = history[i]
    PROVE  Carries(s)'
<1>1. db.version \in Nat /\ Len(history) = db.version + 1
  BY DEF TypeOK, Versions
<1>2. req[s] \in RequestState BY DEF TypeOK
<1>3. req[s].version \in Nat /\ req[s].floor \in Nat BY <1>2 DEF RequestState
<1>4. pc[s] \notin {"locked", "body", "assembling"} BY DEF Carries
<1>5. req[s].floor <= db'.version BY <1>1, <1>3 DEF Carries
<1>6. CASE pc[s] = "reading"
  <2>1. req[s].version + 1 \in 1 .. Len(history) BY <1>1, <1>3, <1>6 DEF Carries
  <2> QED BY <1>1, <1>3, <1>5, <1>6, <2>1 DEF Carries, Nothing
<1>7. CASE pc[s] = "envelope"
  <2>1. req[s].version + 1 \in 1 .. Len(history) BY <1>1, <1>3, <1>7 DEF Carries
  <2> QED BY <1>1, <1>3, <1>5, <1>7, <2>1 DEF Carries, Nothing
<1>8. CASE pc[s] \notin {"reading", "envelope"}
  BY <1>4, <1>5, <1>8 DEF Carries, Nothing
<1> QED BY <1>6, <1>7, <1>8

\* A step of request r that leaves the log and the caches alone keeps the
\* invariant if it keeps what r carries.
LEMMA QuietStep ==
    ASSUME IInv, NEW r \in Requests, NEW stage \in Stages, NEW q \in RequestState \cup {None},
           pc' = [pc EXCEPT ![r] = stage], req' = [req EXCEPT ![r] = q],
           stage # "idle" => q \in RequestState /\ Carries(r)',
           lock' \in Requests \cup {None}, \A s \in Requests \ {r} : lock = s => lock' = s /\ db'.present = db.present,
           db' \in [present : BOOLEAN, version : Nat, doc : Docs],
           db'.version = db.version, db'.doc = db.doc,
           history' = history, cache' = cache
    PROVE  IInv'
<1>1. TypeOK /\ Versions /\ AllCarry /\ CacheUnderItsOwnTag BY DEF IInv
<1>2. /\ pc'[r] = stage /\ req'[r] = q
      /\ \A s \in Requests \ {r} : pc'[s] = pc[s] /\ req'[s] = req[s]
  BY <1>1 DEF TypeOK
<1>3. TypeOK' BY <1>1, <1>2 DEF TypeOK
<1>4. Versions' BY <1>1 DEF Versions
<1>5. AllCarry'
  <2> SUFFICES ASSUME NEW s \in Requests, pc'[s] # "idle" PROVE Carries(s)'
    BY DEF AllCarry
  <2>1. CASE s = r BY <1>2, <2>1
  <2>2. CASE s # r BY <1>1, <1>2, <2>2, LogStands DEF AllCarry
  <2> QED BY <2>1, <2>2
<1>6. CacheUnderItsOwnTag' BY <1>1 DEF CacheUnderItsOwnTag, VersionHeld
<1> QED BY <1>3, <1>4, <1>5, <1>6 DEF IInv

\* A request that ends without touching the log.
LEMMA EndStep ==
    ASSUME IInv, NEW r \in Requests, End(r), db' \in [present : BOOLEAN, version : Nat, doc : Docs],
           db'.present # db.present => lock = r,
           db'.version = db.version, db'.doc = db.doc, history' = history, cache' = cache
    PROVE  IInv'
<1>1. /\ pc' = [pc EXCEPT ![r] = "idle"] /\ req' = [req EXCEPT ![r] = None]
      /\ lock' = IF lock = r THEN None ELSE lock
  BY DEF End, Go
<1>2. lock' \in Requests \cup {None} BY <1>1 DEF IInv, TypeOK
<1>3. \A s \in Requests \ {r} : lock = s => lock' = s /\ db'.present = db.present BY <1>1
<1>4. "idle" \in Stages BY DEF Stages
<1> HIDE DEF IInv, Stages
<1> QED BY <1>1, <1>2, <1>3, <1>4, QuietStep

-----------------------------------------------------------------------------
(***************************************************************************)
(* Arrivals.                                                               *)
(***************************************************************************)

\* What a request starts with is well formed.
LEMMA FreshTyped ==
    ASSUME NEW kind \in Kinds, NEW d \in Devices \cup {None}, NEW e \in Emitters \cup {None},
           NEW sent \in Tags, NEW floor \in Nat
    PROVE  Fresh(kind, d, e, sent, floor) \in RequestState
BY DEF Fresh, RequestState, Nothing

\* A request that has just arrived carries no more than the log offers.
LEMMA ArrivalKeeps ==
    ASSUME IInv, NEW r \in Requests, NEW kind \in Kinds, NEW d \in Devices \cup {None},
           NEW e \in Emitters \cup {None}, NEW sent \in Tags, NEW floor \in Nat,
           NEW stage \in {"waiting", "opening"},
           floor <= db.version, kind \notin {"lockOnly", "remove"} => d \in Devices /\ e \in Emitters,
           stage = "opening" => kind = "read",
           req' = [req EXCEPT ![r] = Fresh(kind, d, e, sent, floor)],
           Go(r, stage), UNCHANGED <<db, lock, cache, history>>
    PROVE  IInv'
<1> DEFINE q == Fresh(kind, d, e, sent, floor)
<1>1. q \in RequestState BY FreshTyped
<1>2. /\ q.kind = kind /\ q.device = d /\ q.emitter = e /\ q.floor = floor /\ q.got = Nothing
  BY DEF Fresh
<1> HIDE DEF q
<1>4. pc'[r] = stage /\ req'[r] = q BY DEF Go, IInv, TypeOK, q
<1>5. Carries(r)' BY <1>2, <1>4 DEF Carries, Nothing
<1>6. stage \in Stages BY DEF Stages
<1>7. req' = [req EXCEPT ![r] = q] /\ pc' = [pc EXCEPT ![r] = stage] BY DEF q, Go
<1>8. lock' \in Requests \cup {None} /\ db' \in [present : BOOLEAN, version : Nat, doc : Docs]
  BY DEF IInv, TypeOK
<1> QED BY <1>1, <1>5, <1>6, <1>7, <1>8, QuietStep

\* Arrivals of every kind keep the invariant.
LEMMA ArriveKeeps ==
    ASSUME IInv, NEW r \in Requests, Arrive(r)
    PROVE  IInv'
<1>1. db.version \in Nat /\ db.version <= db.version BY DEF IInv, TypeOK
<1>2. ASSUME NEW d \in Devices, NEW e \in Emitters, ArriveRead(r, d, e) PROVE IInv'
  <2>1. TagHeld(d) \in Tags BY DEF TagHeld, IInv, TypeOK, Cached, Tags
  <2>2. "read" \in Kinds BY DEF Kinds
  <2> QED BY <1>1, <1>2, <2>1, <2>2, ArrivalKeeps DEF ArriveRead
<1>3. ASSUME NEW d \in Devices, NEW e \in Emitters, NEW kind \in Writes, ArriveWrite(r, kind, d, e)
      PROVE IInv'
  <2>1. None \in Tags BY DEF Tags
  <2>2. kind \in Kinds BY DEF Kinds, Writes
  <2> QED BY <1>1, <1>3, <2>1, <2>2, ArrivalKeeps DEF ArriveWrite
<1>4. ASSUME NEW kind \in {"lockOnly", "remove"}, ArriveLocked(r, kind) PROVE IInv'
  <2>1. None \in Tags BY DEF Tags
  <2>2. kind \in Kinds BY DEF Kinds
  <2>3. 0 \in Nat /\ 0 <= db.version BY <1>1
  <2> QED BY <1>4, <2>1, <2>2, <2>3, ArrivalKeeps DEF ArriveLocked
<1> QED BY <1>2, <1>3, <1>4 DEF Arrive

-----------------------------------------------------------------------------
(***************************************************************************)
(* The steps of a transaction.                                             *)
(***************************************************************************)

\* The record of a request in flight, and what the invariant says of it.
LEMMA InFlight ==
    ASSUME IInv, NEW r \in Requests, pc[r] # "idle"
    PROVE  /\ req[r] \in RequestState /\ Carries(r)
           /\ db.version \in Nat /\ db.doc \in Docs /\ Versions
           /\ lock \in Requests \cup {None}
           /\ db \in [present : BOOLEAN, version : Nat, doc : Docs]
           /\ pc \in [Requests -> Stages] /\ req \in [Requests -> RequestState \cup {None}]
           /\ history \in Seq(Docs)
BY DEF IInv, TypeOK, AllCarry

\* Taking the traveller's advisory lock keeps the invariant.
LEMMA LockKeeps ==
    ASSUME IInv, NEW r \in Requests, LockTraveller(r)
    PROVE  IInv'
<1>1. pc[r] = "waiting" /\ lock = None /\ lock' = r BY DEF LockTraveller
<1>2. req[r] \in RequestState /\ Carries(r) BY <1>1, InFlight
<1>3. pc' = [pc EXCEPT ![r] = "locked"] /\ req' = [req EXCEPT ![r] = req[r]]
  BY DEF LockTraveller, Go, IInv, TypeOK
<1>4. pc'[r] = "locked" /\ req'[r] = req[r] BY <1>3 DEF IInv, TypeOK
<1>5. UNCHANGED <<db, cache, history>> BY DEF LockTraveller
<1>6. Carries(r)' BY <1>1, <1>2, <1>4, <1>5 DEF Carries, Nothing
<1>7. "locked" \in Stages BY DEF Stages
<1>8. db \in [present : BOOLEAN, version : Nat, doc : Docs] BY DEF IInv, TypeOK
<1>9. \A s \in Requests \ {r} : lock = s => lock' = s /\ db'.present = db.present
  BY <1>1, NoneIsNoValue
<1> QED BY <1>1, <1>2, <1>3, <1>5, <1>6, <1>7, <1>8, <1>9, QuietStep

\* The bump, or finding no traveller to bump, keeps the invariant.
LEMMA BumpKeeps ==
    ASSUME IInv, NEW r \in Requests, Bump(r)
    PROVE  IInv'
<1> DEFINE q == [req[r] EXCEPT !.version = db.version + 1]
<1>1. pc[r] = "locked" /\ req[r].kind \in Writes /\ db.present BY DEF Bump
<1>2. /\ req[r] \in RequestState /\ Carries(r) /\ db.version \in Nat
      /\ lock \in Requests \cup {None} /\ db \in [present : BOOLEAN, version : Nat, doc : Docs]
      /\ pc \in [Requests -> Stages] /\ req \in [Requests -> RequestState \cup {None}]
  BY <1>1, InFlight
<1>3. pc' = [pc EXCEPT ![r] = "body"] /\ req' = [req EXCEPT ![r] = q] /\ UNCHANGED <<db, lock, cache, history>>
  BY DEF Bump, Go
<1>4. q \in RequestState BY <1>2 DEF RequestState
<1>5. /\ q.version = db.version + 1 /\ q.kind = req[r].kind /\ q.device = req[r].device
      /\ q.emitter = req[r].emitter /\ q.floor = req[r].floor /\ q.got = req[r].got
  BY <1>2 DEF RequestState
<1> HIDE DEF q
<1>6. pc'[r] = "body" /\ req'[r] = q BY <1>2, <1>3
<1>7. Carries(r)' BY <1>1, <1>2, <1>3, <1>5, <1>6 DEF Carries, Nothing
<1>8. "body" \in Stages BY DEF Stages
<1> QED BY <1>2, <1>3, <1>4, <1>7, <1>8, QuietStep

\* requireTraveller keeps the invariant.
LEMMA RequireKeeps ==
    ASSUME IInv, NEW r \in Requests, RequireTraveller(r)
    PROVE  IInv'
<1>1. pc[r] = "locked" /\ req[r].kind \notin Writes /\ db.present BY DEF RequireTraveller
<1>2. /\ req[r] \in RequestState /\ Carries(r)
      /\ lock \in Requests \cup {None} /\ db \in [present : BOOLEAN, version : Nat, doc : Docs]
      /\ pc \in [Requests -> Stages] /\ req \in [Requests -> RequestState \cup {None}]
  BY <1>1, InFlight
<1>3. pc' = [pc EXCEPT ![r] = "body"] /\ UNCHANGED <<db, lock, req, cache, history>>
  BY DEF RequireTraveller, Go
<1>4. req' = [req EXCEPT ![r] = req[r]] BY <1>2, <1>3
<1>5. pc'[r] = "body" /\ req'[r] = req[r] BY <1>2, <1>3
<1>6. Carries(r)' BY <1>1, <1>2, <1>3, <1>5 DEF Carries, Nothing
<1>7. "body" \in Stages BY DEF Stages
<1> QED BY <1>2, <1>3, <1>4, <1>6, <1>7, QuietStep

\* A write inside the transaction is seen by nobody else.
LEMMA WriteTableKeeps ==
    ASSUME IInv, NEW r \in Requests, NEW t \in Tables, WriteTable(r, t)
    PROVE  IInv'
<1> DEFINE q == [req[r] EXCEPT !.changed = @ \cup {t}]
<1>1. pc[r] = "body" BY DEF WriteTable
<1>2. /\ req[r] \in RequestState /\ Carries(r)
      /\ lock \in Requests \cup {None} /\ db \in [present : BOOLEAN, version : Nat, doc : Docs]
      /\ pc \in [Requests -> Stages] /\ req \in [Requests -> RequestState \cup {None}]
  BY <1>1, InFlight
<1>3. req' = [req EXCEPT ![r] = q] /\ UNCHANGED <<db, lock, pc, cache, history>>
  BY DEF WriteTable
<1>4. q \in RequestState BY <1>2 DEF RequestState
<1>5. /\ q.version = req[r].version /\ q.kind = req[r].kind /\ q.device = req[r].device
      /\ q.emitter = req[r].emitter /\ q.floor = req[r].floor /\ q.got = req[r].got
  BY <1>2 DEF RequestState
<1> HIDE DEF q
<1>6. pc' = [pc EXCEPT ![r] = "body"] /\ pc'[r] = "body" /\ req'[r] = q BY <1>1, <1>2, <1>3
<1>7. Carries(r)' BY <1>1, <1>2, <1>3, <1>5, <1>6 DEF Carries, Nothing
<1>8. "body" \in Stages BY DEF Stages
<1> QED BY <1>2, <1>3, <1>4, <1>6, <1>7, <1>8, QuietStep

\* A cascade assembles its answer from its own transaction.
LEMMA AssembleKeeps ==
    ASSUME IInv, NEW r \in Requests, NEW t \in Tables, AssembleInTx(r, t)
    PROVE  IInv'
<1> DEFINE q == [req[r] EXCEPT !.got = [req[r].got EXCEPT ![t] =
                    Overlay(db.doc, req[r].changed, req[r].version)[t]]]
<1>1. pc[r] \in {"body", "assembling"} /\ req[r].kind = "cascade" BY DEF AssembleInTx
<1>2. /\ req[r] \in RequestState /\ Carries(r) /\ db.doc \in Docs
      /\ lock \in Requests \cup {None} /\ db \in [present : BOOLEAN, version : Nat, doc : Docs]
      /\ pc \in [Requests -> Stages] /\ req \in [Requests -> RequestState \cup {None}]
  BY <1>1, InFlight
<1>3. /\ pc' = [pc EXCEPT ![r] = "assembling"] /\ req' = [req EXCEPT ![r] = q]
      /\ UNCHANGED <<db, lock, cache, history>>
  BY DEF AssembleInTx, Go
<1>4. req[r].got \in [Tables -> Nat \cup {None}] /\ req[r].version \in Nat
  BY <1>2 DEF RequestState
<1>5. Overlay(db.doc, req[r].changed, req[r].version)[t] \in Nat
  BY <1>2, <1>4 DEF Overlay, Docs
<1>6. q \in RequestState BY <1>2, <1>4, <1>5 DEF RequestState
<1>7. /\ q.version = req[r].version /\ q.kind = req[r].kind /\ q.device = req[r].device
      /\ q.emitter = req[r].emitter /\ q.floor = req[r].floor /\ q.changed = req[r].changed
      /\ q.got = [req[r].got EXCEPT ![t] = Overlay(db.doc, req[r].changed, req[r].version)[t]]
  BY <1>2 DEF RequestState
<1>8. \A u \in Tables : req[r].got[u] \in {None, Overlay(db.doc, req[r].changed, req[r].version)[u]}
  BY <1>1, <1>2 DEF Carries, Nothing
<1>9. \A u \in Tables : q.got[u] \in {None, Overlay(db.doc, q.changed, q.version)[u]}
  BY <1>4, <1>7, <1>8
<1> HIDE DEF q
<1>10. pc'[r] = "assembling" /\ req'[r] = q BY <1>2, <1>3
<1>11. Carries(r)' BY <1>1, <1>2, <1>3, <1>7, <1>9, <1>10 DEF Carries, Overlay, Writes
<1>12. "assembling" \in Stages BY DEF Stages
<1> QED BY <1>2, <1>3, <1>6, <1>11, <1>12, QuietStep

\* A miss rolls the bump back and goes on as a read of the committed log.
LEMMA MissKeeps ==
    ASSUME IInv, NEW r \in Requests, Miss(r)
    PROVE  IInv'
<1> DEFINE q == [req[r] EXCEPT !.kind = IF @ = "cascade" THEN "read" ELSE "probe",
                               !.sent = None, !.version = 0]
<1>1. pc[r] = "body" /\ req[r].kind \in Writes BY DEF Miss
<1>2. /\ req[r] \in RequestState /\ Carries(r)
      /\ lock \in Requests \cup {None} /\ db \in [present : BOOLEAN, version : Nat, doc : Docs]
      /\ pc \in [Requests -> Stages] /\ req \in [Requests -> RequestState \cup {None}]
  BY <1>1, InFlight
<1>3. /\ pc' = [pc EXCEPT ![r] = "opening"] /\ req' = [req EXCEPT ![r] = q]
      /\ lock' = None /\ UNCHANGED <<db, cache, history>>
  BY DEF Miss, Go
<1>4. q \in RequestState BY <1>2 DEF RequestState, Kinds, Tags
<1>5. /\ q.kind \in {"read", "probe"} /\ q.device = req[r].device
      /\ q.emitter = req[r].emitter /\ q.floor = req[r].floor /\ q.got = req[r].got
  BY <1>2 DEF RequestState
<1> HIDE DEF q
<1>6. pc'[r] = "opening" /\ req'[r] = q BY <1>2, <1>3
<1>7. lock = r BY <1>1, <1>2 DEF Carries
<1>8. Carries(r)' BY <1>1, <1>2, <1>3, <1>5, <1>6 DEF Carries, Nothing, Writes
<1>9. "opening" \in Stages BY DEF Stages
<1> QED BY <1>2, <1>3, <1>4, <1>7, <1>8, <1>9, QuietStep

\* Opening a snapshot fixes the document a read answers with, or ends it with a
\* 304.
LEMMA OpenKeeps ==
    ASSUME IInv, NEW r \in Requests, OpenSnapshot(r)
    PROVE  IInv'
<1> DEFINE q == [req[r] EXCEPT !.version = db.version, !.snapshot = db.doc]
           stage == IF req[r].kind = "probe" THEN "entity"
                    ELSE IF ETagMatches(req[r].sent, TagFor(req[r].emitter, db.version))
                    THEN "notModified" ELSE "reading"
<1>1. pc[r] = "opening" BY DEF OpenSnapshot
<1>2. /\ req[r] \in RequestState /\ Carries(r) /\ db.version \in Nat /\ db.doc \in Docs /\ Versions
      /\ lock \in Requests \cup {None} /\ db \in [present : BOOLEAN, version : Nat, doc : Docs]
      /\ pc \in [Requests -> Stages] /\ req \in [Requests -> RequestState \cup {None}]
  BY <1>1, InFlight
<1>3. /\ pc' = [pc EXCEPT ![r] = stage] /\ req' = [req EXCEPT ![r] = q]
      /\ UNCHANGED <<db, lock, cache, history>>
  BY DEF OpenSnapshot, Go
<1>4. q \in RequestState BY <1>2 DEF RequestState
<1>5. /\ q.version = db.version /\ q.snapshot = db.doc /\ q.kind = req[r].kind
      /\ q.device = req[r].device /\ q.emitter = req[r].emitter /\ q.sent = req[r].sent
      /\ q.floor = req[r].floor /\ q.got = req[r].got
  BY <1>2 DEF RequestState
<1>6. stage \in Stages /\ stage \in {"entity", "notModified", "reading"} BY DEF Stages
<1>7. stage = "notModified" => req[r].sent = <<req[r].emitter, db.version>>
  BY DEF ETagMatches, TagFor
<1>8. stage = "reading" => req[r].kind = "read" BY <1>1, <1>2 DEF Carries
<1> HIDE DEF q, stage
<1>9. pc'[r] = stage /\ req'[r] = q BY <1>2, <1>3
<1>10. \A t \in Tables : q.got[t] \in {None, q.snapshot[t]} BY <1>1, <1>2, <1>5 DEF Carries, Nothing
<1>11. Carries(r)'
  BY <1>1, <1>2, <1>3, <1>5, <1>6, <1>7, <1>8, <1>9, <1>10 DEF Carries, Versions
<1> QED BY <1>2, <1>3, <1>4, <1>6, <1>11, QuietStep

\* A read collects the tables of its snapshot only.
LEMMA ReadTableKeeps ==
    ASSUME IInv, NEW r \in Requests, NEW t \in Tables, ReadTable(r, t)
    PROVE  IInv'
<1> DEFINE q == [req[r] EXCEPT !.got = [req[r].got EXCEPT ![t] = req[r].snapshot[t]]]
<1>1. pc[r] = "reading" BY DEF ReadTable
<1>2. /\ req[r] \in RequestState /\ Carries(r) /\ db.version \in Nat /\ Versions
      /\ lock \in Requests \cup {None} /\ db \in [present : BOOLEAN, version : Nat, doc : Docs]
      /\ pc \in [Requests -> Stages] /\ req \in [Requests -> RequestState \cup {None}]
      /\ history \in Seq(Docs)
  BY <1>1, InFlight
<1>3. req' = [req EXCEPT ![r] = q] /\ UNCHANGED <<db, lock, pc, cache, history>>
  BY DEF ReadTable, SeenBy
<1>4. req[r].got \in [Tables -> Nat \cup {None}] /\ req[r].version \in Nat
  BY <1>2 DEF RequestState
<1>5. req[r].snapshot \in Docs
  <2>1. req[r].version + 1 \in 1 .. Len(history) BY <1>1, <1>2, <1>4 DEF Carries, Versions
  <2> QED BY <1>1, <1>2, <2>1 DEF Carries
<1>6. req[r].snapshot[t] \in Nat BY <1>5 DEF Docs
<1>7. q \in RequestState BY <1>2, <1>4, <1>6 DEF RequestState
<1>8. /\ q.version = req[r].version /\ q.snapshot = req[r].snapshot /\ q.kind = req[r].kind
      /\ q.device = req[r].device /\ q.emitter = req[r].emitter
      /\ q.floor = req[r].floor /\ q.got = [req[r].got EXCEPT ![t] = req[r].snapshot[t]]
  BY <1>2 DEF RequestState
<1>9. \A u \in Tables : q.got[u] \in {None, q.snapshot[u]}
  BY <1>1, <1>2, <1>4, <1>8 DEF Carries
<1> HIDE DEF q
<1>10. pc' = [pc EXCEPT ![r] = "reading"] /\ pc'[r] = "reading" /\ req'[r] = q BY <1>1, <1>2, <1>3
<1>11. Carries(r)' BY <1>1, <1>2, <1>3, <1>8, <1>9, <1>10 DEF Carries
<1>12. "reading" \in Stages BY DEF Stages
<1> QED BY <1>2, <1>3, <1>7, <1>10, <1>11, <1>12, QuietStep

\* A document assembled table by table from one source, with no table left
\* out, is that source.
LEMMA Assembled ==
    ASSUME NEW document \in Docs, NEW got \in [Tables -> Nat \cup {None}],
           \A t \in Tables : got[t] \in {None, document[t]}, \A t \in Tables : got[t] # None
    PROVE  got = document
BY DEF Docs

\* A complete document is the one its version names.
LEMMA AnswerKeeps ==
    ASSUME IInv, NEW r \in Requests, AnswerEnvelope(r)
    PROVE  IInv'
<1>1. pc[r] = "reading" /\ \A t \in Tables : req[r].got[t] # None
  BY DEF AnswerEnvelope, Complete
<1>2. /\ req[r] \in RequestState /\ Carries(r) /\ db.version \in Nat /\ Versions
      /\ lock \in Requests \cup {None} /\ db \in [present : BOOLEAN, version : Nat, doc : Docs]
      /\ pc \in [Requests -> Stages] /\ req \in [Requests -> RequestState \cup {None}]
      /\ history \in Seq(Docs)
  BY <1>1, InFlight
<1>3. pc' = [pc EXCEPT ![r] = "envelope"] /\ UNCHANGED <<db, lock, req, cache, history>>
  BY DEF AnswerEnvelope, Go
<1>4. req[r].got \in [Tables -> Nat \cup {None}] /\ req[r].version \in Nat
  BY <1>2 DEF RequestState
<1>5. req[r].snapshot \in Docs
  <2>1. req[r].version + 1 \in 1 .. Len(history) BY <1>1, <1>2, <1>4 DEF Carries, Versions
  <2> QED BY <1>1, <1>2, <2>1 DEF Carries
<1>6. \A t \in Tables : req[r].got[t] \in {None, req[r].snapshot[t]} BY <1>1, <1>2 DEF Carries
<1>7. req[r].got = req[r].snapshot BY <1>1, <1>4, <1>5, <1>6, Assembled
<1>8. req' = [req EXCEPT ![r] = req[r]] /\ pc'[r] = "envelope" /\ req'[r] = req[r]
  BY <1>2, <1>3
<1>9. Carries(r)' BY <1>1, <1>2, <1>3, <1>7, <1>8 DEF Carries
<1>10. "envelope" \in Stages BY DEF Stages
<1> QED BY <1>2, <1>3, <1>8, <1>9, <1>10, QuietStep

\* A commit appends its document under the version it bumped to, and is the
\* only step that publishes one.
LEMMA CommitPublishes ==
    ASSUME IInv, NEW r \in Requests, CommitWrite(r)
    PROVE  /\ req[r] \in RequestState /\ req[r].kind \in Writes /\ lock = r
           /\ req[r].version = db.version + 1
           /\ Overlay(db.doc, req[r].changed, req[r].version) \in Docs
           /\ history' = Append(history, Overlay(db.doc, req[r].changed, req[r].version))
<1>1. pc[r] \in {"body", "assembling"} /\ (pc[r] = "body" => req[r].kind = "put") BY DEF CommitWrite
<1>2. req[r] \in RequestState /\ Carries(r) /\ db.doc \in Docs /\ db.version \in Nat
  BY <1>1, InFlight
<1>3. req[r].kind \in Writes BY <1>1, <1>2 DEF Carries, Writes
<1>4. lock = r /\ req[r].version = db.version + 1 BY <1>1, <1>2, <1>3 DEF Carries
<1>5. Overlay(db.doc, req[r].changed, req[r].version) \in Docs
  BY <1>2, <1>4 DEF Overlay, Docs
<1>6. history' = Append(history, Overlay(db.doc, req[r].changed, req[r].version))
  BY DEF CommitWrite
<1> QED BY <1>2, <1>3, <1>4, <1>5, <1>6

\* A committed write publishes one new version, under the lock.
LEMMA CommitKeeps ==
    ASSUME IInv, NEW r \in Requests, CommitWrite(r)
    PROVE  IInv'
<1> DEFINE document == Overlay(db.doc, req[r].changed, req[r].version)
<1>1. /\ req[r] \in RequestState /\ req[r].kind \in Writes /\ lock = r
      /\ req[r].version = db.version + 1 /\ document \in Docs
      /\ history' = Append(history, document)
  BY CommitPublishes
<1>2. TypeOK /\ Versions /\ AllCarry /\ CacheUnderItsOwnTag BY DEF IInv
<1>3. \/ pc[r] = "body" /\ pc' = [pc EXCEPT ![r] = "entity"]
      \/ pc[r] = "assembling" /\ Complete(r) /\ pc' = [pc EXCEPT ![r] = "envelope"]
  BY DEF CommitWrite, Go
<1>4. /\ db' = [db EXCEPT !.version = req[r].version, !.doc = document]
      /\ lock' = None /\ UNCHANGED <<req, cache>>
  BY DEF CommitWrite
<1>5. /\ db.version \in Nat /\ db \in [present : BOOLEAN, version : Nat, doc : Docs]
      /\ history \in Seq(Docs) /\ Len(history) = db.version + 1
  BY <1>2 DEF TypeOK, Versions
<1>6. Carries(r) /\ pc[r] # "idle" BY <1>2, <1>3 DEF AllCarry
<1>7. pc[r] = "assembling" => req[r].got = document
  <2> SUFFICES ASSUME pc[r] = "assembling" PROVE req[r].got = document
    OBVIOUS
  <2>1. \A t \in Tables : req[r].got[t] \in {None, document[t]} BY <1>6 DEF Carries
  <2>2. \A t \in Tables : req[r].got[t] # None BY <1>3 DEF Complete
  <2>3. req[r].got \in [Tables -> Nat \cup {None}] BY <1>1 DEF RequestState
  <2> HIDE DEF document
  <2> QED BY <1>1, <2>1, <2>2, <2>3, Assembled
<1> HIDE DEF document
<1>8. /\ db'.version = db.version + 1 /\ db'.doc = document
      /\ db' \in [present : BOOLEAN, version : Nat, doc : Docs]
  <2>1. /\ db' = [db EXCEPT !.version = req[r].version, !.doc = document]
        /\ db \in [present : BOOLEAN, version : Nat, doc : Docs] /\ document \in Docs
    BY <1>1, <1>4, <1>5
  <2>2. req[r].version \in Nat /\ req[r].version = db.version + 1 BY <1>1, <1>5
  <2>3. db'.version = req[r].version /\ db'.doc = document BY <2>1
  <2>4. db' \in [present : BOOLEAN, version : Nat, doc : Docs] BY ONLY <2>1, <2>2
  <2> QED BY <2>2, <2>3, <2>4
<1>9. /\ history' \in Seq(Docs) /\ Len(history') = Len(history) + 1
      /\ \A i \in 1 .. Len(history) : history'[i] = history[i]
      /\ history'[Len(history) + 1] = document
  BY <1>1, <1>5
<1>10. /\ pc' \in [Requests -> Stages] /\ pc'[r] \in {"entity", "envelope"}
       /\ \A s \in Requests \ {r} : pc'[s] = pc[s]
  BY <1>2, <1>3 DEF TypeOK, Stages
<1>11. TypeOK'
  <2>1. \A s \in Requests : pc'[s] # "idle" => req'[s] \in RequestState
    BY <1>1, <1>2, <1>4, <1>10 DEF TypeOK
  <2> QED BY <1>2, <1>4, <1>8, <1>9, <1>10, <2>1 DEF TypeOK
<1>12. Versions' BY <1>5, <1>8, <1>9 DEF Versions
<1>13. AllCarry'
  <2> SUFFICES ASSUME NEW s \in Requests, pc'[s] # "idle" PROVE Carries(s)'
    BY DEF AllCarry
  <2>1. CASE s = r
    <3>1. req'[r] = req[r] BY <1>4
    <3>2. req[r].floor <= db.version /\ req[r].floor \in Nat /\ req[r].kind \in {"put", "cascade"}
      BY <1>1, <1>6 DEF Carries, RequestState, Writes
    <3>3. req[r].device \in Devices /\ req[r].emitter \in Emitters BY <1>6, <3>2 DEF Carries
    <3>4. CASE pc'[r] = "entity" BY <1>5, <1>8, <2>1, <3>1, <3>2, <3>3, <3>4 DEF Carries
    <3>5. CASE pc'[r] = "envelope"
      <4>1. pc[r] = "assembling" BY <1>2, <1>3, <3>5 DEF TypeOK
      <4>2. req[r].kind = "cascade" BY <1>6, <4>1 DEF Carries
      <4>3. req[r].got = history'[req[r].version + 1] BY <1>1, <1>5, <1>7, <1>9, <4>1
      <4> QED BY <1>1, <1>5, <1>8, <2>1, <3>1, <3>2, <3>3, <3>5, <4>2, <4>3 DEF Carries
    <3> QED BY <1>10, <3>4, <3>5
  <2>2. CASE s # r
    <3>1. pc'[s] = pc[s] /\ req'[s] = req[s] /\ lock # s BY <1>1, <1>4, <1>10, <2>2
    <3>2. Carries(s) BY <1>2, <3>1 DEF AllCarry
    <3> QED BY <1>2, <1>8, <1>9, <3>1, <3>2, LogGrows
  <2> QED BY <2>1, <2>2
<1>14. CacheUnderItsOwnTag'
  <2> SUFFICES ASSUME NEW d \in Devices, cache[d] # None
               PROVE  /\ VersionHeld(cache[d]) + 1 \in DOMAIN history'
                      /\ cache[d].tag = TagFor(cache[d].emitter, VersionHeld(cache[d]))
                      /\ cache[d].doc = history'[VersionHeld(cache[d]) + 1]
    BY <1>4 DEF CacheUnderItsOwnTag, VersionHeld, TagFor
  <2>1. /\ VersionHeld(cache[d]) + 1 \in DOMAIN history
        /\ cache[d].tag = TagFor(cache[d].emitter, VersionHeld(cache[d]))
        /\ cache[d].doc = history[VersionHeld(cache[d]) + 1]
    BY <1>2 DEF CacheUnderItsOwnTag
  <2>2. DOMAIN history = 1 .. Len(history) /\ DOMAIN history' = 1 .. Len(history) + 1
    BY <1>5, <1>9
  <2> QED BY <1>5, <1>9, <2>1, <2>2
<1> QED BY <1>11, <1>12, <1>13, <1>14 DEF IInv

-----------------------------------------------------------------------------
(***************************************************************************)
(* Delivery.                                                               *)
(***************************************************************************)

\* What a device is handed is a published document under its own tag.
LEMMA EnvelopePublished ==
    ASSUME IInv, NEW r \in Requests, pc[r] = "envelope"
    PROVE  /\ req[r].device \in Devices /\ req[r].emitter \in Emitters
           /\ req[r].version \in 0 .. Len(history) - 1
           /\ req[r].got = history[req[r].version + 1]
           /\ Envelope(r) \in Cached
           /\ VersionHeld(Envelope(r)) = req[r].version
<1>1. /\ req[r] \in RequestState /\ Carries(r) /\ db.version \in Nat /\ Versions
      /\ history \in Seq(Docs)
  BY InFlight
<1>2. req[r].version \in Nat BY <1>1 DEF RequestState
<1>3. req[r].device \in Devices /\ req[r].emitter \in Emitters BY <1>1 DEF Carries
<1>4. req[r].version \in 0 .. Len(history) - 1 BY <1>1, <1>2 DEF Carries, Versions
<1>5. req[r].got = history[req[r].version + 1] BY <1>1 DEF Carries
<1>6. req[r].got \in Docs BY <1>1, <1>2, <1>4, <1>5
<1>7. Envelope(r) \in Cached BY <1>2, <1>3, <1>6 DEF Envelope, Cached, Tags, TagFor
<1>8. <<req[r].emitter, req[r].version>> # None BY <1>2, <1>3, NoneIsNoValue
<1>9. VersionHeld(Envelope(r)) = req[r].version
  BY <1>2, <1>8 DEF VersionHeld, Envelope, TagFor
<1> QED BY <1>3, <1>4, <1>5, <1>7, <1>9

\* What a device caches from an answer is that version's document.
LEMMA DeliverKeeps ==
    ASSUME IInv, NEW r \in Requests, DeliverEnvelope(r)
    PROVE  IInv'
<1>1. pc[r] = "envelope" BY DEF DeliverEnvelope
<1>2. /\ pc' = [pc EXCEPT ![r] = "idle"] /\ req' = [req EXCEPT ![r] = None]
      /\ lock' = IF lock = r THEN None ELSE lock
      /\ cache' = [cache EXCEPT ![req[r].device] = Envelope(r)] /\ UNCHANGED <<db, history>>
  BY DEF DeliverEnvelope, End, Go
<1>3. /\ req[r].device \in Devices /\ req[r].emitter \in Emitters
      /\ req[r].version \in 0 .. Len(history) - 1
      /\ req[r].got = history[req[r].version + 1]
      /\ Envelope(r) \in Cached /\ VersionHeld(Envelope(r)) = req[r].version
  BY <1>1, EnvelopePublished
<1>4. TypeOK /\ Versions /\ AllCarry /\ CacheUnderItsOwnTag BY DEF IInv
<1>5. /\ pc'[r] = "idle" /\ pc' \in [Requests -> Stages]
      /\ \A s \in Requests \ {r} : pc'[s] = pc[s] /\ req'[s] = req[s]
  BY <1>2, <1>4 DEF TypeOK, Stages
<1>6. TypeOK' BY <1>2, <1>3, <1>4, <1>5 DEF TypeOK
<1>7. Versions' BY <1>2, <1>4 DEF Versions
<1>8. AllCarry'
  <2> SUFFICES ASSUME NEW s \in Requests, pc'[s] # "idle" PROVE Carries(s)'
    BY DEF AllCarry
  <2>1. s # r /\ pc'[s] = pc[s] /\ req'[s] = req[s] BY <1>5
  <2>2. lock = s => lock' = s BY <1>2, <2>1
  <2> QED BY <1>2, <1>4, <2>1, <2>2, LogStands DEF AllCarry
<1>9. CacheUnderItsOwnTag'
  <2> SUFFICES ASSUME NEW d \in Devices, cache'[d] # None
               PROVE  /\ VersionHeld(cache'[d]) + 1 \in DOMAIN history
                      /\ cache'[d].tag = TagFor(cache'[d].emitter, VersionHeld(cache'[d]))
                      /\ cache'[d].doc = history[VersionHeld(cache'[d]) + 1]
    BY <1>2 DEF CacheUnderItsOwnTag, VersionHeld, TagFor
  <2>1. CASE d = req[r].device
    <3>1. cache'[d] = Envelope(r) BY <1>2, <1>3, <1>4, <2>1 DEF TypeOK
    <3>2. /\ Envelope(r).tag = TagFor(req[r].emitter, req[r].version)
          /\ Envelope(r).emitter = req[r].emitter /\ Envelope(r).doc = req[r].got
      BY DEF Envelope
    <3>3. history \in Seq(Docs) BY <1>4 DEF TypeOK
    <3>4. req[r].version + 1 \in DOMAIN history BY <1>3, <3>3
    <3> QED BY <1>3, <3>1, <3>2, <3>4
  <2>2. CASE d # req[r].device
    <3>1. cache'[d] = cache[d] BY <1>2, <1>4, <2>2 DEF TypeOK
    <3> QED BY <1>4, <3>1 DEF CacheUnderItsOwnTag
  <2> QED BY <2>1, <2>2
<1> QED BY <1>6, <1>7, <1>8, <1>9 DEF IInv

\* Every way a request ends without an envelope.
LEMMA EndingKeeps ==
    ASSUME IInv, NEW r \in Requests,
           \/ NoTraveller(r) \/ Refuse(r) \/ CommitLocked(r) \/ CommitRemoval(r)
           \/ DeliverShort(r) \/ CutOff(r)
    PROVE  IInv'
<1>1. db \in [present : BOOLEAN, version : Nat, doc : Docs] BY DEF IInv, TypeOK
<1>2. CASE CommitRemoval(r)
  <2>1. End(r) /\ db' = [db EXCEPT !.present = FALSE] /\ UNCHANGED <<cache, history>>
    BY <1>2 DEF CommitRemoval
  <2>2. db'.version = db.version /\ db'.doc = db.doc BY <1>1, <2>1
  <2>4. lock = r
    <3>1. pc[r] = "body" BY <1>2 DEF CommitRemoval
    <3> QED BY <3>1, InFlight DEF Carries
  <2>3. db' \in [present : BOOLEAN, version : Nat, doc : Docs] BY ONLY <1>1, <2>1
  <2> QED BY <2>1, <2>2, <2>3, <2>4, EndStep
<1>3. CASE NoTraveller(r) \/ Refuse(r) \/ CommitLocked(r) \/ DeliverShort(r) \/ CutOff(r)
  <2>1. End(r) /\ UNCHANGED <<db, cache, history>>
    BY <1>3 DEF NoTraveller, Refuse, CommitLocked, DeliverShort, CutOff
  <2> QED BY <1>1, <2>1, EndStep
<1> QED BY <1>2, <1>3

-----------------------------------------------------------------------------
(***************************************************************************)
(* The theorems.                                                           *)
(***************************************************************************)

\* The invariant holds initially.
LEMMA InitKeeps == Init => IInv
<1> SUFFICES ASSUME Init PROVE IInv OBVIOUS
<1>1. [t \in Tables |-> 0] \in Docs BY DEF Docs
<1>2. history \in Seq(Docs) /\ Len(history) = 1 /\ history[1] = [t \in Tables |-> 0]
  BY <1>1 DEF Init
<1>3. db.version = 0 /\ db.doc = [t \in Tables |-> 0] BY DEF Init
<1>4. db \in [present : BOOLEAN, version : Nat, doc : Docs] BY <1>1 DEF Init
<1>5. TypeOK BY <1>2, <1>4 DEF Init, TypeOK, Stages
<1>6. Versions BY <1>2, <1>3 DEF Versions
<1>7. AllCarry BY DEF Init, AllCarry
<1>8. CacheUnderItsOwnTag BY DEF Init, CacheUnderItsOwnTag
<1> QED BY <1>5, <1>6, <1>7, <1>8 DEF IInv

\* Every step keeps the invariant.
LEMMA StepKeeps == IInv /\ [Next]_vars => IInv'
<1> SUFFICES ASSUME IInv, [Next]_vars PROVE IInv' OBVIOUS
<1>1. CASE UNCHANGED vars
  <2>1. UNCHANGED <<db, lock, pc, req, cache, history>> BY <1>1 DEF vars
  <2> QED BY <2>1 DEF IInv, TypeOK, Versions, AllCarry, Carries, CacheUnderItsOwnTag,
                      VersionHeld, Overlay, Nothing
<1>2. CASE Next
  <2>1. PICK r \in Requests : Arrive(r) \/ LockTraveller(r) \/ Step(r) \/ CutOff(r)
    BY <1>2 DEF Next
  <2>2. CASE Arrive(r) BY <2>2, ArriveKeeps
  <2>3. CASE LockTraveller(r) BY <2>3, LockKeeps
  <2>4. CASE CutOff(r) BY <2>4, EndingKeeps
  <2>5. CASE Step(r)
    <3>1. CASE Bump(r) BY <3>1, BumpKeeps
    <3>2. CASE RequireTraveller(r) BY <3>2, RequireKeeps
    <3>3. CASE \E t \in Tables : WriteTable(r, t) \/ AssembleInTx(r, t) \/ ReadTable(r, t)
      BY <3>3, WriteTableKeeps, AssembleKeeps, ReadTableKeeps
    <3>4. CASE Miss(r) BY <3>4, MissKeeps
    <3>5. CASE CommitWrite(r) BY <3>5, CommitKeeps
    <3>6. CASE OpenSnapshot(r) BY <3>6, OpenKeeps
    <3>7. CASE AnswerEnvelope(r) BY <3>7, AnswerKeeps
    <3>8. CASE DeliverEnvelope(r) BY <3>8, DeliverKeeps
    <3>9. CASE \/ NoTraveller(r) \/ Refuse(r) \/ CommitLocked(r) \/ CommitRemoval(r)
               \/ DeliverShort(r)
      BY <3>9, EndingKeeps
    <3> QED BY <2>5, <3>1, <3>2, <3>3, <3>4, <3>5, <3>6, <3>7, <3>8, <3>9 DEF Step
  <2> QED BY <2>1, <2>2, <2>3, <2>4, <2>5
<1> QED BY <1>1, <1>2 DEF vars

\* The inductive invariant holds however requests interleave, are cut off or
\* lose their answers.
THEOREM Invariance == Spec => []IInv
BY InitKeeps, StepKeeps, PTL DEF Spec

\* Type correctness of the transaction helpers and the read snapshot.
THEOREM Typed == Spec => []TypeOK
<1>1. IInv => TypeOK BY DEF IInv
<1> QED BY <1>1, Invariance, PTL

\* No device ever holds a document under a tag that is not its own: the ETag
\* of WithTravellerTx and WithReadSnapshot is sound for any number of
\* concurrent writers, readers and emitters.
THEOREM TagSound == Spec => []CacheUnderItsOwnTag
<1>1. IInv => CacheUnderItsOwnTag BY DEF IInv
<1> QED BY <1>1, Invariance, PTL

\* Every 304 is true and every envelope current as of the request's arrival.
THEOREM AnswersCurrent == Spec => []AnswersAreCurrent
<1>1. IInv => AnswersAreCurrent
  <2> SUFFICES ASSUME IInv, NEW r \in Requests, pc[r] \in {"envelope", "notModified"}
               PROVE  /\ req[r].version >= req[r].floor
                      /\ pc[r] = "notModified" => req[r].sent = <<req[r].emitter, req[r].version>>
    BY DEF AnswersAreCurrent
  <2>1. req[r] \in RequestState /\ Carries(r) BY InFlight
  <2>2. req[r].version \in Nat /\ req[r].floor \in Nat BY <2>1 DEF RequestState
  <2> QED BY <2>1, <2>2 DEF Carries
<1> QED BY <1>1, Invariance, PTL

\* Nothing is written for a traveller once the panel has deleted them.
THEOREM DeletionFinal == Spec => DeletedIsFinal
<1>1. IInv /\ [Next]_vars => [~db.present => UNCHANGED <<db, history>>]_vars
  <2> SUFFICES ASSUME IInv, Next, ~db.present PROVE UNCHANGED <<db, history>>
    OBVIOUS
  <2>1. PICK r \in Requests : Arrive(r) \/ LockTraveller(r) \/ Step(r) \/ CutOff(r)
    BY DEF Next
  <2>2. pc[r] \notin {"body", "assembling"}
    <3>1. CASE pc[r] = "idle" BY <3>1
    <3>2. CASE pc[r] # "idle" BY <3>2, InFlight DEF Carries
    <3> QED BY <3>1, <3>2
  <2>3. ~CommitWrite(r) /\ ~CommitRemoval(r) BY <2>2 DEF CommitWrite, CommitRemoval
  <2> QED
    BY <2>1, <2>3 DEF Arrive, ArriveRead, ArriveWrite, ArriveLocked, LockTraveller, CutOff, Step,
         Bump, RequireTraveller, NoTraveller, WriteTable, AssembleInTx, ReadTable, Refuse, Miss,
         CommitLocked, OpenSnapshot, AnswerEnvelope, DeliverEnvelope, DeliverShort
<1> QED BY <1>1, Invariance, PTL DEF Spec, DeletedIsFinal

\* A commit publishes, an envelope refreshes a device, and no other step is
\* visible: TravellerTx implements VersionedLog.
THEOREM Implementation == Spec => ImplementsVersionedLog
<1>1. Init => Abstract!Init
  BY DEF Init, Abstract!Init, Docs
<1>2. IInv /\ [Next]_vars => [Abstract!Next]_<<history, cache>>
  <2> SUFFICES ASSUME IInv, Next PROVE Abstract!Next \/ UNCHANGED <<history, cache>>
    BY DEF vars
  <2>1. PICK r \in Requests : Arrive(r) \/ LockTraveller(r) \/ Step(r) \/ CutOff(r)
    BY DEF Next
  <2>2. CASE CommitWrite(r)
    <3> DEFINE document == Overlay(db.doc, req[r].changed, req[r].version)
    <3>1. document \in Docs /\ history' = Append(history, document) BY <2>2, CommitPublishes
    <3>2. history \in Seq(Docs) BY DEF IInv, TypeOK
    <3> HIDE DEF document
    <3>3. history'[Len(history')] = document BY <3>1, <3>2
    <3>4. UNCHANGED cache BY <2>2 DEF CommitWrite
    <3>5. Abstract!Publish BY <3>1, <3>3, <3>4 DEF Abstract!Publish
    <3> QED BY <3>5 DEF Abstract!Next
  <2>3. CASE DeliverEnvelope(r)
    <3>1. /\ pc[r] = "envelope" /\ UNCHANGED history
          /\ cache' = [cache EXCEPT ![req[r].device] = Envelope(r)]
      BY <2>3 DEF DeliverEnvelope
    <3>2. /\ req[r].device \in Devices /\ req[r].emitter \in Emitters
          /\ req[r].version \in 0 .. Len(history) - 1
          /\ req[r].got = history[req[r].version + 1]
      BY <3>1, EnvelopePublished
    <3>3. Envelope(r) = Abstract!Rendered(req[r].emitter, req[r].version, history[req[r].version + 1])
      BY <3>2 DEF Envelope, TagFor, Abstract!Rendered, Abstract!TagFor
    <3>4. Abstract!Refresh(req[r].device) BY <3>1, <3>2, <3>3 DEF Abstract!Refresh
    <3> QED BY <3>2, <3>4 DEF Abstract!Next
  <2>4. CASE ~CommitWrite(r) /\ ~DeliverEnvelope(r)
    BY <2>1, <2>4 DEF Arrive, ArriveRead, ArriveWrite, ArriveLocked, LockTraveller, CutOff, Step,
         Bump, RequireTraveller, NoTraveller, WriteTable, AssembleInTx, ReadTable, Refuse, Miss,
         CommitLocked, CommitRemoval, OpenSnapshot, AnswerEnvelope, DeliverShort
  <2> QED BY <2>2, <2>3, <2>4
<1> QED BY <1>1, <1>2, Invariance, PTL DEF Spec, ImplementsVersionedLog, Abstract!Spec
=============================================================================
