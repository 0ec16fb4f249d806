------------------------------- MODULE Limiter -------------------------------
(***************************************************************************)
(* The in-memory rate limiter (internal/httpx/ratelimit.go): one token     *)
(* bucket per client address or traveller, made when a client is first     *)
(* seen, refilled only when it is asked, and dropped again when the map is *)
(* large and the bucket would be full.                                     *)
(*                                                                         *)
(* The code refills perMinute/60 tokens a second in floating point.  Here  *)
(* a token is Unit units (60 in the code), a moment is a second and brings *)
(* Burst units (Burst is perMinute), so every amount is a whole number;    *)
(* rounding is not modelled.                                               *)
(***************************************************************************)
EXTENDS Integers, FiniteSets

CONSTANTS
    Clients,
    Burst, Unit,
    PruneAbove, \* limiterPruneAbove
    MaxTime,    \* bound: moments in one behaviour
    None        \* no bucket

ASSUME ClientsFinite == IsFiniteSet(Clients)    \* those seen in one behaviour
ASSUME AmountsNat == Burst \in Nat \ {0} /\ Unit \in Nat \ {0} /\ PruneAbove \in Nat /\ MaxTime \in Nat

VARIABLES
    clock,
    buckets,    \* the map; None where it has no key
    answer,     \* the last answer each client got
    granted     \* history: requests let through

limiterVars == <<clock, buckets, answer, granted>>

Brim == Burst * Unit
Bucket == [tokens : 0 .. Brim, last : Nat]

ASSUME NoneIsNoBucket == None \notin Bucket

LimiterTypeOK ==
    /\ clock \in Nat
    /\ buckets \in [Clients -> Bucket \cup {None}]
    /\ \A c \in Clients : buckets[c] # None => buckets[c].last <= clock
    /\ answer \in [Clients -> BOOLEAN]
    /\ granted \in [Clients -> Nat]

LimiterInit ==
    /\ clock = 0
    /\ buckets = [c \in Clients |-> None]
    /\ answer = [c \in Clients |-> TRUE]
    /\ granted = [c \in Clients |-> 0]

Second ==
    /\ clock < MaxTime
    /\ clock' = clock + 1
    /\ UNCHANGED <<buckets, answer, granted>>

Held == {c \in Clients : buckets[c] # None}

\* tokens + elapsed * perSecond, before it is capped.
Accrued(b) == b.tokens + (clock - b.last) * Burst

Refilled(b) == Accrued(b) >= Brim

\* Mutant: a bucket nobody used since the last second is idle.
DroppableWhenIdle(b) == b.last < clock

\* prune drops what has refilled to full.
Droppable(b) == Refilled(b)

Prune == [c \in Clients |-> IF c \in Held /\ Droppable(buckets[c]) THEN None ELSE buckets[c]]

\* Mutant: the map is never cleaned.
KeptAll(c) == buckets

\* Only a client that is not in the map makes it grow, and only a map at its
\* threshold is cleaned first.
Kept(c) == IF c \notin Held /\ Cardinality(Held) >= PruneAbove THEN Prune ELSE buckets

Level(c) ==
    IF buckets[c] = None \/ Refilled(buckets[c]) THEN Brim ELSE Accrued(buckets[c])

Spend(level) == level >= Unit

Allow(c) ==
    LET level == Level(c)
        ok == Spend(level)
    IN  /\ buckets' = [Kept(c) EXCEPT ![c] =
               [tokens |-> IF ok THEN level - Unit ELSE level, last |-> clock]]
        /\ answer' = [answer EXCEPT ![c] = ok]
        /\ granted' = [granted EXCEPT ![c] = IF ok THEN @ + 1 ELSE @]
        /\ UNCHANGED clock

LimiterNext == Second \/ \E c \in Clients : Allow(c)

LimiterSpec == LimiterInit /\ [][LimiterNext]_limiterVars

-----------------------------------------------------------------------------
(***************************************************************************)
(* Properties.                                                             *)
(***************************************************************************)

\* The map outgrows its threshold only by clients that are owed a refusal or
\* a wait: when a new client makes it larger than that, no full bucket is
\* left in it.
MapBounded ==
    [][\A c \in Clients : buckets[c] = None /\ buckets'[c] # None =>
          \/ Cardinality(Held') <= PruneAbove
          \/ \A d \in Clients \ {c} : buckets'[d] # None => ~Refilled(buckets[d])]_limiterVars

\* Dropping buckets is invisible: every answer is the one a limiter that
\* keeps every bucket for good and refills it all the time would give.
Buckets == INSTANCE TokenBuckets WITH level <- [c \in Clients |-> Level(c)]
ImplementsTokenBuckets == Buckets!Spec
=============================================================================
