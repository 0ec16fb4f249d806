----------------------------- MODULE PublicRead -----------------------------
(***************************************************************************)
(* GET /l/{token}, the read no session stands in front of                  *)
(* (httpapi/public_handlers.go, postgres/share_read.go,                    *)
(* logbook.EmitPublic), behind its rate limiter and beside the owner's     *)
(* writes of the same trip (postgres/share_store.go).                      *)
(*                                                                         *)
(* The link is checked by a statement of its own; the trip, its flags and  *)
(* its rows are then read in one repeatable-read snapshot, whether or not  *)
(* the link is still what it was.                                          *)
(***************************************************************************)
EXTENDS Limiter

CONSTANTS
    Requests,   \* public reads in flight at once
    Tokens,     \* share tokens
    Flags,      \* the sharing flags in use: of "photos", "notes", "coordinates"
    Rows,       \* the rows in use: of "cover", "place", "photo", "walk"
    MaxSeen     \* bound: different envelopes the trip goes through in one read

VARIABLES
    trip,       \* the trip's flags and rows, or None
    links,      \* share_links of the trip
    pc, req,
    could       \* history: since the read came, what a reader could have been
                \* shown, and whether its token was live then

vars == <<limiterVars, trip, links, pc, req, could>>

Trip == [flags : SUBSET Flags, rows : SUBSET Rows]

ASSUME NoneIsNoTrip == None \notin Trip

\* EmitPublic: what each row shows, and the flags it shows it under.
Parts == {
    [row |-> "cover", shows |-> "url",         needs |-> {"photos"}],
    [row |-> "place", shows |-> "name",        needs |-> {}],
    [row |-> "place", shows |-> "note",        needs |-> {"notes"}],
    [row |-> "place", shows |-> "coordinates", needs |-> {"coordinates"}],
    [row |-> "photo", shows |-> "url",         needs |-> {"photos"}],
    [row |-> "photo", shows |-> "caption",     needs |-> {"photos", "notes"}],
    [row |-> "photo", shows |-> "coordinates", needs |-> {"photos", "coordinates"}],
    [row |-> "walk",  shows |-> "distance",    needs |-> {}],
    [row |-> "walk",  shows |-> "points",      needs |-> {"coordinates"}] }

EmitPublic(flags, rows) == {p \in Parts : p.row \in rows /\ p.needs \subseteq flags}

RequestState == [token : Tokens, snapshot : Trip \cup {None}, flags : SUBSET Flags,
                 envelope : SUBSET Parts]

TypeOK ==
    /\ LimiterTypeOK
    /\ trip \in Trip \cup {None}
    /\ links \in [Tokens -> {"none", "live", "revoked"}]
    /\ \A k, l \in Tokens : links[k] = "live" /\ links[l] = "live" => k = l
    /\ trip = None => \A k \in Tokens : links[k] = "none"
    /\ pc \in [Requests -> {"idle", "link", "trip", "rows", "answered"}]
    /\ req \in [Requests -> RequestState \cup {None}]
    /\ \A r \in Requests : pc[r] # "idle" => req[r] \in RequestState
    /\ could \in [Requests -> SUBSET [live : BOOLEAN, shown : SUBSET Parts]]

\* 0002_share_defaults: what a new trip shares.
DefaultFlags == Flags \ {"coordinates"}

Init ==
    /\ LimiterInit
    /\ trip = [flags |-> DefaultFlags, rows |-> {}]
    /\ links = [k \in Tokens |-> "none"]
    /\ pc = [r \in Requests |-> "idle"]
    /\ req = [r \in Requests |-> None]
    /\ could = [r \in Requests |-> {}]

-----------------------------------------------------------------------------
(***************************************************************************)
(* The owner's writes: each is one transaction.                            *)
(***************************************************************************)

\* What a reader with the token could be shown once the write is committed.
Showable(t, ls, k) ==
    IF t = None THEN {} ELSE {[live |-> ls[k] = "live", shown |-> EmitPublic(t.flags, t.rows)]}

Write(t, ls) ==
    /\ trip' = t
    /\ links' = ls
    /\ could' = [r \in Requests |-> IF pc[r] = "idle" THEN {}
                                    ELSE could[r] \cup Showable(t, ls, req[r].token)]
    /\ \A r \in Requests : Cardinality(could'[r]) <= MaxSeen
    /\ UNCHANGED <<limiterVars, pc, req>>

Revoked == [k \in Tokens |-> IF links[k] = "live" THEN "revoked" ELSE links[k]]

SetShareOptions(flags) == trip # None /\ Write([trip EXCEPT !.flags = flags], links)

\* A write of anything the trip holds: see LogbookStore for the writes.
WriteRows(rows) == trip # None /\ Write([trip EXCEPT !.rows = rows], links)

\* Mutant: the live link is left alone.
NewShareLinkBeside(k) ==
    trip # None /\ links[k] = "none" /\ Write(trip, [links EXCEPT ![k] = "live"])

\* Revoke, then insert; the unique index refuses a token that was used.
NewShareLink(k) ==
    trip # None /\ links[k] = "none" /\ Write(trip, [Revoked EXCEPT ![k] = "live"])

\* The revocation, and resetShareFlagsSQL's three values.
StopSharing == trip # None /\ Write([trip EXCEPT !.flags = DefaultFlags], Revoked)

\* The links go with the trip; its id may be used for a new one.
DeleteTrip == trip # None /\ Write(None, [k \in Tokens |-> "none"])
PutTrip == trip = None /\ Write([flags |-> DefaultFlags, rows |-> {}], links)

OwnerWrites ==
    \/ \E flags \in SUBSET Flags : SetShareOptions(flags)
    \/ \E rows \in SUBSET Rows : WriteRows(rows)
    \/ \E k \in Tokens : NewShareLink(k)
    \/ StopSharing \/ DeleteTrip \/ PutTrip

-----------------------------------------------------------------------------
(***************************************************************************)
(* The read.                                                               *)
(***************************************************************************)

End(r) ==
    /\ pc' = [pc EXCEPT ![r] = "idle"]
    /\ req' = [req EXCEPT ![r] = None]
    /\ could' = [could EXCEPT ![r] = {}]

\* RateLimit answers 429 before the handler runs.
Ask(r, c, k) ==
    /\ pc[r] = "idle"
    /\ Allow(c)
    /\ IF answer'[c]
       THEN /\ pc' = [pc EXCEPT ![r] = "link"]
            /\ req' = [req EXCEPT ![r] = [token |-> k, snapshot |-> None, flags |-> {}, envelope |-> {}]]
            /\ could' = [could EXCEPT ![r] = Showable(trip, links, k)]
       ELSE UNCHANGED <<pc, req, could>>
    /\ UNCHANGED <<trip, links>>

\* Mutant: a link that was ever handed out will do.
OpensOnceMinted(k) == links[k] # "none"

Opens(k) == links[k] = "live"

\* ShareLink: an unknown and a revoked token are both a 404.
ShareLink(r) ==
    /\ pc[r] = "link"
    /\ IF Opens(req[r].token)
       THEN pc' = [pc EXCEPT ![r] = "trip"] /\ UNCHANGED <<req, could>>
       ELSE End(r)
    /\ UNCHANGED <<limiterVars, trip, links>>

\* The snapshot's first statements read the version and readPublicTrip's row.
ReadPublicTrip(r) ==
    /\ pc[r] = "trip"
    /\ IF trip # None
       THEN /\ pc' = [pc EXCEPT ![r] = "rows"]
            /\ req' = [req EXCEPT ![r].snapshot = trip, ![r].flags = trip.flags]
            /\ UNCHANGED could
       ELSE End(r)     \* ErrNoTrip, ErrNoTraveller
    /\ UNCHANGED <<limiterVars, trip, links>>

\* Mutant: read committed.
SeesLatest(r) == IF trip = None THEN {} ELSE trip.rows

\* Repeatable read: the later statements see the snapshot.
Sees(r) == req[r].snapshot.rows

\* The remaining statements, and EmitPublic with its presigned GETs.
AnswerEnvelope(r) ==
    /\ pc[r] = "rows"
    /\ pc' = [pc EXCEPT ![r] = "answered"]
    /\ req' = [req EXCEPT ![r].envelope = EmitPublic(req[r].flags, Sees(r)), ![r].snapshot = None,
                          ![r].flags = {}]
    /\ UNCHANGED <<limiterVars, trip, links, could>>

\* The answer is delivered or lost, or the read is cut off on the way.
Finish(r) ==
    /\ pc[r] # "idle"
    /\ End(r)
    /\ UNCHANGED <<limiterVars, trip, links>>

Read(r) ==
    \/ \E c \in Clients, k \in Tokens : Ask(r, c, k)
    \/ ShareLink(r) \/ ReadPublicTrip(r) \/ AnswerEnvelope(r) \/ Finish(r)

Next ==
    \/ Second /\ UNCHANGED <<trip, links, pc, req, could>>
    \/ OwnerWrites
    \/ \E r \in Requests : Read(r)

Spec == Init /\ [][Next]_vars

-----------------------------------------------------------------------------
(***************************************************************************)
(* Properties.                                                             *)
(***************************************************************************)

\* A read is answered with an envelope only if its token was live at some
\* moment since it came: not through a token replaced or revoked before.
LinkWasLive ==
    \A r \in Requests : pc[r] = "answered" => \E seen \in could[r] : seen.live

\* The envelope is what the trip's flags let through of the trip's rows at one
\* moment since the read came: no flag of one moment over rows of another.
\* That moment may be one after the link was revoked, so a read that overlaps
\* StopSharing may show what its reset flags show.
EnvelopeOfOneMoment ==
    \A r \in Requests : pc[r] = "answered" =>
        \E seen \in could[r] : seen.shown = req[r].envelope
=============================================================================
