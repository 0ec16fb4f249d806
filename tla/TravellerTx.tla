----------------------------- MODULE TravellerTx -----------------------------
(***************************************************************************)
(* Transactions on one traveller's log, and the conditional reads that run *)
(* beside them (internal/postgres/tx.go and read_tx.go, LogbookStore.Read, *)
(* httpapi readLogbook, httpx/etag.go).                                    *)
(*                                                                         *)
(* A write takes the traveller's advisory lock, bumps logbook_version, runs*)
(* its body and commits; any error rolls everything back, the bump         *)
(* included.  A read opens a repeatable-read snapshot, reads the version,  *)
(* answers 304 if the tag it was sent names it and otherwise assembles the *)
(* document table by table.  Requests interleave at every statement, may   *)
(* be cut off at any of them, and their answers may be delayed or lost.    *)
(*                                                                         *)
(* The document is one value per table: the version that last changed it.  *)
(***************************************************************************)
EXTENDS Integers, Sequences, FiniteSets

CONSTANTS
    Requests,   \* requests the servers can have in flight at once
    Devices,    \* the traveller's devices, each with one cached document
    Tables,     \* the tables of a document, numbered as readDocument reads them
    Emitters,   \* emitter versions live during a rolling deployment
    MaxVersion, \* bound: writes accepted in one behaviour
    None        \* no lock holder, no tag, nothing cached, not read yet

ASSUME TablesOrdered == Tables \subseteq Nat
ASSUME EmittersPositive == Emitters \subseteq Nat \ {0}
ASSUME MaxVersionNat == MaxVersion \in Nat
ASSUME NoneIsNoValue == None \notin Nat /\ None \notin Requests /\ None \notin Emitters \X Nat

VARIABLES
    db,         \* committed state: the travellers row and the tables
    lock,       \* holder of pg_advisory_xact_lock for this traveller
    pc, req,    \* where each request is, and what it carries
    cache,      \* what each device holds
    history     \* history variable: the document each version committed

vars == <<db, lock, pc, req, cache, history>>

Docs == [Tables -> Nat]
Nothing == [t \in Tables |-> None]

\* Put answers the entity it wrote; cascade the whole document; lockOnly is
\* BeginMedia, MarkMediaUploaded and CreateSession; remove is the panel's
\* DeleteTraveller; a probe is the read a put that matched no row ends with.
Kinds == {"read", "put", "cascade", "lockOnly", "remove", "probe"}
Writes == {"put", "cascade"}

\* Mutant: a tag with one half validates the data and not its renderer.
TagOfVersion(emitter, version) ==
    IF version < 1 THEN None ELSE <<CHOOSE e \in Emitters : TRUE, version>>

TagFor(emitter, version) == IF version < 1 THEN None ELSE <<emitter, version>>
Tags == (Emitters \X Nat) \cup {None}
Cached == [tag : Tags, emitter : Emitters, doc : Docs]

\* floor is a history variable: the version committed when the request came.
RequestState == [kind : Kinds, device : Devices \cup {None}, emitter : Emitters \cup {None}, sent : Tags,
                 floor : Nat, version : Nat, snapshot : Docs \cup {Nothing},
                 changed : SUBSET Tables, got : [Tables -> Nat \cup {None}]]

Stages == {"idle", "waiting", "locked", "body", "assembling", "opening", "reading",
           "envelope", "notModified", "entity"}

TypeOK ==
    /\ db \in [present : BOOLEAN, version : Nat, doc : Docs]
    /\ lock \in Requests \cup {None}
    /\ pc \in [Requests -> Stages]
    /\ req \in [Requests -> RequestState \cup {None}]
    /\ \A r \in Requests : pc[r] # "idle" => req[r] \in RequestState
    /\ cache \in [Devices -> Cached \cup {None}]
    /\ history \in Seq(Docs)

Init ==
    /\ db = [present |-> TRUE, version |-> 0, doc |-> [t \in Tables |-> 0]]
    /\ lock = None
    /\ pc = [r \in Requests |-> "idle"]
    /\ req = [r \in Requests |-> None]
    /\ cache = [d \in Devices |-> None]
    /\ history = <<[t \in Tables |-> 0]>>

Go(r, stage) == pc' = [pc EXCEPT ![r] = stage]

\* Mutant: a session-level lock outlives the transaction.
EndKeepingLock(r) ==
    /\ Go(r, "idle")
    /\ req' = [req EXCEPT ![r] = None]
    /\ lock' = lock

\* The request is over: a transaction it had open is rolled back or was
\* committed, and either way its lock is gone.
End(r) ==
    /\ Go(r, "idle")
    /\ req' = [req EXCEPT ![r] = None]
    /\ lock' = IF lock = r THEN None ELSE lock

InFlightWrites == {r \in Requests : pc[r] # "idle" /\ req[r].kind \in Writes}

\* If-None-Match is the tag of what the device holds.
TagHeld(d) == IF cache[d] = None THEN None ELSE cache[d].tag

Fresh(kind, d, emitter, sent, floor) ==
    [kind |-> kind, device |-> d, emitter |-> emitter, sent |-> sent, floor |-> floor,
     version |-> 0, snapshot |-> Nothing, changed |-> {}, got |-> Nothing]

ArriveRead(r, d, emitter) ==
    /\ pc[r] = "idle"
    /\ req' = [req EXCEPT ![r] = Fresh("read", d, emitter, TagHeld(d), db.version)]
    /\ Go(r, "opening")
    /\ UNCHANGED <<db, lock, cache, history>>

ArriveWrite(r, kind, d, emitter) ==
    /\ pc[r] = "idle"
    /\ db.version + Cardinality(InFlightWrites) < MaxVersion
    /\ req' = [req EXCEPT ![r] = Fresh(kind, d, emitter, None, db.version)]
    /\ Go(r, "waiting")
    /\ UNCHANGED <<db, lock, cache, history>>

\* Their answers carry no tag, so who asked does not matter here.
ArriveLocked(r, kind) ==
    /\ pc[r] = "idle"
    /\ req' = [req EXCEPT ![r] = Fresh(kind, None, None, None, 0)]
    /\ Go(r, "waiting")
    /\ UNCHANGED <<db, lock, cache, history>>

-----------------------------------------------------------------------------
(***************************************************************************)
(* The write side: WithTravellerTx and WithTravellerLock.                  *)
(***************************************************************************)

LockTraveller(r) ==
    /\ pc[r] = "waiting"
    /\ lock = None
    /\ lock' = r
    /\ Go(r, "locked")
    /\ UNCHANGED <<db, req, cache, history>>

\* Mutant: the bump inserts the row it does not find.
BumpUpserting(r) ==
    /\ pc[r] = "locked" /\ req[r].kind \in Writes
    /\ req' = [req EXCEPT ![r].version = db.version + 1]
    /\ Go(r, "body")
    /\ UNCHANGED <<db, lock, cache, history>>

\* bumpSQL: UPDATE .. SET logbook_version = logbook_version + 1 RETURNING.
Bump(r) ==
    /\ pc[r] = "locked" /\ req[r].kind \in Writes
    /\ db.present
    /\ req' = [req EXCEPT ![r].version = db.version + 1]
    /\ Go(r, "body")
    /\ UNCHANGED <<db, lock, cache, history>>

RequireTraveller(r) ==
    /\ pc[r] = "locked" /\ req[r].kind \notin Writes
    /\ db.present
    /\ Go(r, "body")
    /\ UNCHANGED <<db, lock, req, cache, history>>

\* ErrNoTraveller, from the bump, from requireTraveller or from a snapshot.
NoTraveller(r) ==
    /\ pc[r] \in {"locked", "opening"}
    /\ ~db.present
    /\ End(r)
    /\ UNCHANGED <<db, cache, history>>

\* A statement of the body changes rows of one table.
WriteTable(r, t) ==
    /\ pc[r] = "body" /\ req[r].kind \in Writes
    /\ t \notin req[r].changed
    /\ req' = [req EXCEPT ![r].changed = @ \cup {t}]
    /\ UNCHANGED <<db, lock, pc, cache, history>>

\* readDocument reads one table after the other.
NextTable(r, t) ==
    /\ req[r].got[t] = None
    /\ \A u \in Tables : u < t => req[r].got[u] # None

\* The document as the open transaction sees it.
Overlay(document, changed, version) ==
    [t \in Tables |-> IF t \in changed THEN version ELSE document[t]]

\* A cascade's body ends with readDocument, inside the transaction.
AssembleInTx(r, t) ==
    /\ pc[r] \in {"body", "assembling"} /\ req[r].kind = "cascade"
    /\ NextTable(r, t)
    /\ req' = [req EXCEPT ![r].got[t] = Overlay(db.doc, req[r].changed, req[r].version)[t]]
    /\ Go(r, "assembling")
    /\ UNCHANGED <<db, lock, cache, history>>

\* The body refuses: a rule failed, a row was missing, a constraint fired.
Refuse(r) ==
    /\ pc[r] = "body"
    /\ End(r)
    /\ UNCHANGED <<db, cache, history>>

\* errNothingDeleted, errNoSuchPlace, errNoSuchPhoto and errNothingSnoozed:
\* the bump is rolled back, and the log is read afresh with no tag to compare;
\* only a cascade's answer needs the document.
Miss(r) ==
    /\ pc[r] = "body" /\ req[r].kind \in Writes /\ req[r].changed = {}
    /\ req' = [req EXCEPT ![r].kind = IF @ = "cascade" THEN "read" ELSE "probe",
                          ![r].sent = None, ![r].version = 0]
    /\ lock' = None
    /\ Go(r, "opening")
    /\ UNCHANGED <<db, cache, history>>

Complete(r) == \A t \in Tables : req[r].got[t] # None

\* tx.Commit of a write: the rows and the version become visible together.
CommitWrite(r) ==
    LET document == Overlay(db.doc, req[r].changed, req[r].version)
    IN  /\ \/ pc[r] = "body" /\ req[r].kind = "put" /\ Go(r, "entity")
           \/ pc[r] = "assembling" /\ Complete(r) /\ Go(r, "envelope")
        /\ db' = [db EXCEPT !.version = req[r].version, !.doc = document]
        /\ history' = Append(history, document)
        /\ lock' = None
        /\ UNCHANGED <<req, cache>>

\* BeginMedia and MarkMediaUploaded write no row a document shows.
CommitLocked(r) ==
    /\ pc[r] = "body" /\ req[r].kind = "lockOnly"
    /\ End(r)
    /\ UNCHANGED <<db, cache, history>>

CommitRemoval(r) ==
    /\ pc[r] = "body" /\ req[r].kind = "remove"
    /\ db' = [db EXCEPT !.present = FALSE]
    /\ End(r)
    /\ UNCHANGED <<cache, history>>

-----------------------------------------------------------------------------
(***************************************************************************)
(* The read side: WithReadSnapshot, LogbookStore.Read and readLogbook.     *)
(***************************************************************************)

\* Mutant: two tags that are both missing match.
ETagEquals(sent, tag) == sent = tag

\* ETagMatches: a log without a tag never matches.
ETagMatches(sent, tag) == tag # None /\ sent = tag

\* The version is the snapshot's first statement, so it fixes the snapshot.
OpenSnapshot(r) ==
    /\ pc[r] = "opening"
    /\ db.present
    /\ req' = [req EXCEPT ![r].version = db.version, ![r].snapshot = db.doc]
    /\ Go(r, IF req[r].kind = "probe" THEN "entity"
             ELSE IF ETagMatches(req[r].sent, TagFor(req[r].emitter, db.version))
             THEN "notModified" ELSE "reading")
    /\ UNCHANGED <<db, lock, cache, history>>

\* Mutant: read committed, every statement sees what is committed by then.
SeenNow(r) == db.doc

\* Repeatable read: every statement sees the snapshot.
SeenBy(r) == req[r].snapshot

ReadTable(r, t) ==
    /\ pc[r] = "reading"
    /\ NextTable(r, t)
    /\ req' = [req EXCEPT ![r].got[t] = SeenBy(r)[t]]
    /\ UNCHANGED <<db, lock, pc, cache, history>>

\* Mutant: the answer leaves before every table was read.
AnswerEarly(r) ==
    /\ pc[r] = "reading"
    /\ Go(r, "envelope")
    /\ UNCHANGED <<db, lock, req, cache, history>>

AnswerEnvelope(r) ==
    /\ pc[r] = "reading" /\ Complete(r)
    /\ Go(r, "envelope")
    /\ UNCHANGED <<db, lock, req, cache, history>>

-----------------------------------------------------------------------------
(***************************************************************************)
(* The devices.  They are not part of this repository: a device replaces   *)
(* what it holds by an envelope, and keeps it on a 304.                    *)
(***************************************************************************)

Envelope(r) == [tag |-> TagFor(req[r].emitter, req[r].version), emitter |-> req[r].emitter,
                doc |-> req[r].got]

DeliverEnvelope(r) ==
    /\ pc[r] = "envelope"
    /\ cache' = [cache EXCEPT ![req[r].device] = Envelope(r)]
    /\ End(r)
    /\ UNCHANGED <<db, history>>

DeliverShort(r) ==
    /\ pc[r] \in {"notModified", "entity"}
    /\ End(r)
    /\ UNCHANGED <<db, cache, history>>

\* A deadline, a dropped connection, a crash of the server or a lost answer.
CutOff(r) ==
    /\ pc[r] # "idle"
    /\ End(r)
    /\ UNCHANGED <<db, cache, history>>

Step(r) ==
    \/ Bump(r) \/ RequireTraveller(r) \/ NoTraveller(r)
    \/ \E t \in Tables : WriteTable(r, t) \/ AssembleInTx(r, t) \/ ReadTable(r, t)
    \/ Refuse(r) \/ Miss(r) \/ CommitWrite(r) \/ CommitLocked(r) \/ CommitRemoval(r)
    \/ OpenSnapshot(r) \/ AnswerEnvelope(r) \/ DeliverEnvelope(r) \/ DeliverShort(r)

Arrive(r) ==
    \/ \E d \in Devices, emitter \in Emitters :
          \/ ArriveRead(r, d, emitter)
          \/ \E kind \in Writes : ArriveWrite(r, kind, d, emitter)
    \/ \E kind \in {"lockOnly", "remove"} : ArriveLocked(r, kind)

Next == \E r \in Requests : Arrive(r) \/ LockTraveller(r) \/ Step(r) \/ CutOff(r)

\* Every statement ends, in an answer or at the request's deadline, and
\* PostgreSQL grants a lock in the order it was asked for.
Fairness == \A r \in Requests : WF_vars(Step(r)) /\ SF_vars(LockTraveller(r))

Spec == Init /\ [][Next]_vars /\ Fairness

\* The client the API's guide describes: it patches the entity a write
\* answered into what it holds, and stamps the result with the write's tag.
SpliceEntity(r) ==
    LET held == cache[req[r].device]
    IN  /\ pc[r] = "entity"
        /\ held # None
        /\ cache' = [cache EXCEPT ![req[r].device] =
              [tag |-> TagFor(req[r].emitter, req[r].version), emitter |-> held.emitter,
               doc |-> Overlay(held.doc, req[r].changed, req[r].version)]]
        /\ End(r)
        /\ UNCHANGED <<db, history>>

\* A device with one request in flight at a time.
OneAtATime ==
    \A r, s \in Requests : "idle" \notin {pc[r], pc[s]} /\ req[r].device = req[s].device => r = s

SplicingNext == (Next \/ \E r \in Requests : SpliceEntity(r)) /\ OneAtATime'

SplicingSpec == Init /\ [][SplicingNext]_vars /\ Fairness

-----------------------------------------------------------------------------
(***************************************************************************)
(* Properties.                                                             *)
(***************************************************************************)

\* The version a held document claims to be.
VersionHeld(c) == IF c.tag = None THEN 0 ELSE c.tag[2]

\* What a device holds under a tag is the document that version committed, as
\* the emitter the tag names renders it: no torn read, no document of one
\* version under the tag of another.
CacheUnderItsOwnTag ==
    \A d \in Devices : cache[d] # None =>
        /\ VersionHeld(cache[d]) + 1 \in DOMAIN history
        /\ cache[d].tag = TagFor(cache[d].emitter, VersionHeld(cache[d]))
        /\ cache[d].doc = history[VersionHeld(cache[d]) + 1]

\* A 304 is true, and no older than the question: the tag the device sent
\* names the version the log had at some moment since the request came, and
\* an envelope is no older than that either, whatever committed meanwhile.
AnswersAreCurrent ==
    \A r \in Requests : pc[r] \in {"envelope", "notModified"} =>
        /\ req[r].version >= req[r].floor
        /\ pc[r] = "notModified" => req[r].sent = <<req[r].emitter, req[r].version>>

\* Once the traveller is deleted nothing is written for them any more, not by
\* the requests that were already waiting for the lock either.
DeletedIsFinal == [][~db.present => UNCHANGED <<db, history>>]_vars

\* No request hangs: the lock is released on every path out of a transaction,
\* so whoever waits for it gets it.
EveryRequestEnds == \A r \in Requests : pc[r] # "idle" ~> pc[r] = "idle"

\* The abstract log: publishing is the commit of a write, refreshing is the
\* arrival of an envelope, and every other step leaves both alone.
Abstract == INSTANCE VersionedLog WITH NoCache <- None, NoTag <- None

\* The transactions and snapshots of this module implement VersionedLog.
ImplementsVersionedLog == Abstract!Spec
=============================================================================
