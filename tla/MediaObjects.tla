---------------------------- MODULE MediaObjects ----------------------------
(***************************************************************************)
(* Photographs' bytes: the media_objects rows, the bucket they describe,   *)
(* and everything that removes bytes (httpapi/media_handlers.go,           *)
(* logbook.CommitMedia, postgres/media_store.go, internal/media, the       *)
(* panel's deletion of a traveller, internal/sweep and cmd/sweep).         *)
(*                                                                         *)
(* No transaction spans the database and the bucket.  A begin writes the   *)
(* row and then signs an upload; the device uploads past this server       *)
(* whenever it likes; a commit reads the row, looks at the bytes and marks *)
(* the row; a deletion takes the rows and then the bytes one at a time; a  *)
(* sweep reads the rows, lists the bucket and then deletes.  One statement *)
(* or one call to the bucket is one step, and any of them may be the last. *)
(***************************************************************************)
EXTENDS Integers, FiniteSets

CONSTANTS
    Travellers, Objects,
    Declarations,   \* the pairs of a size and a content type a begin may carry
    Uploadable,     \* those of them whose size the bytes really have
    Requests,       \* requests in flight at once
    MinAge, Budget, \* cmd/sweep's minAge and budget
    MaxTime,        \* bound: moments in one behaviour
    None            \* no row, no bytes, no request, no sweep

ASSUME UploadableDeclared == Uploadable \subseteq Declarations
ASSUME TimesNat == MinAge \in Nat /\ Budget \in Nat /\ MaxTime \in Nat
ASSUME BudgetBelowMinAge == Budget < MinAge     \* five minutes and a day

\* media.Key: the traveller is a path segment, the object is a digest.
Keys == Travellers \X Objects

VARIABLES
    clock,
    travellers, \* the travellers that exist; a deleted id is never used again
    rows,       \* media_objects
    bucket,     \* the stored attributes of each key
    urls,       \* presigned PUTs handed out: a key and the declaration signed
    pc, req,    \* where each request is, and what it carries
    forgetting, \* keys a deletion in progress still has to remove
    sweep,      \* the sweep in progress
    restated    \* history: keys declared anew while a commit held the old row

vars == <<clock, travellers, rows, bucket, urls, pc, req, forgetting, sweep, restated>>
bytes == <<bucket, urls>>
removers == <<forgetting, sweep>>

Row == [decl : Declarations, committed : BOOLEAN]
Attributes == [decl : Declarations, at : Nat]
RequestState == [keys : SUBSET Keys, decl : Declarations \cup {None}]

\* known, now and orphans are cmd/sweep's; left is what List has yet to come
\* to; doomed is a history variable: the old orphans of the sweep's start,
\* without those whose own deletion failed.
Sweeps == [stage : {"known", "listing", "removing"}, started : Nat, now : Nat,
           known : SUBSET Keys, left : SUBSET Keys, orphans : SUBSET Keys,
           doomed : SUBSET Keys]

ASSUME NoneIsNoRecord == None \notin Row \cup Attributes \cup Sweeps

TypeOK ==
    /\ clock \in Nat
    /\ travellers \subseteq Travellers
    /\ rows \in [Keys -> Row \cup {None}]
    /\ bucket \in [Keys -> Attributes \cup {None}]
    /\ urls \subseteq Keys \X Declarations
    /\ pc \in [Requests -> {"idle", "signing", "declared", "verified", "minting"}]
    /\ req \in [Requests -> RequestState \cup {None}]
    /\ \A r \in Requests : pc[r] # "idle" => req[r] \in RequestState
    /\ forgetting \subseteq Keys
    /\ sweep \in Sweeps \cup {None}
    /\ restated \subseteq Keys

Init ==
    /\ clock = 0
    /\ travellers = Travellers
    /\ rows = [k \in Keys |-> None]
    /\ bucket = [k \in Keys |-> None]
    /\ urls = {}
    /\ pc = [r \in Requests |-> "idle"]
    /\ req = [r \in Requests |-> None]
    /\ forgetting = {}
    /\ sweep = None
    /\ restated = {}

Owner(k) == k[1]
Go(r, stage, keys, decl) ==
    /\ pc' = [pc EXCEPT ![r] = stage]
    /\ req' = [req EXCEPT ![r] = [keys |-> keys, decl |-> decl]]

\* Mutant: the handler goes on although its request is over.
EndKeepingPlace(r) ==
    /\ pc' = pc
    /\ req' = [req EXCEPT ![r] = None]

End(r) ==
    /\ pc' = [pc EXCEPT ![r] = "idle"]
    /\ req' = [req EXCEPT ![r] = None]

Tick ==
    /\ clock < MaxTime
    /\ clock' = clock + 1
    /\ UNCHANGED <<travellers, rows, bytes, pc, req, removers, restated>>

-----------------------------------------------------------------------------
(***************************************************************************)
(* Begin and upload.                                                       *)
(***************************************************************************)

\* beginSQL: a row that is not committed takes the new declaration.
Upserted(k, decl) ==
    IF rows[k] # None /\ rows[k].committed THEN rows[k]
    ELSE [decl |-> decl, committed |-> FALSE]

\* A commit of k is past its read, and the declaration it read is not decl.
CommitHolds(k, decl) ==
    \E s \in Requests : /\ pc[s] \in {"declared", "verified"}
                        /\ k \in req[s].keys /\ req[s].decl # decl

\* BeginMedia, one transaction under the traveller's lock; without the
\* traveller it answers ErrNoTraveller and changes nothing.  An object that
\* is already committed is answered without an upload.
BeginMedia(r, k, decl) ==
    /\ pc[r] = "idle"
    /\ Owner(k) \in travellers
    /\ rows' = [rows EXCEPT ![k] = Upserted(k, decl)]
    /\ restated' = IF ~rows'[k].committed /\ CommitHolds(k, decl) THEN restated \cup {k} ELSE restated
    /\ IF rows'[k].committed THEN UNCHANGED <<pc, req>> ELSE Go(r, "signing", {k}, rows'[k].decl)
    /\ UNCHANGED <<clock, travellers, bytes, removers>>

\* PresignPut signs the length, the type and the digest.  The URL is kept for
\* good: an upload that started in time may land long after it.
PresignPut(r) ==
    /\ pc[r] = "signing"
    /\ urls' = urls \cup (req[r].keys \X {req[r].decl})
    /\ End(r)
    /\ UNCHANGED <<clock, travellers, rows, bucket, removers, restated>>

\* The bucket takes what the signature covers: bytes of the signed length,
\* under the signed type, once.
Put(k, decl) ==
    /\ <<k, decl>> \in urls
    /\ decl \in Uploadable
    /\ bucket[k] = None     \* If-None-Match: *
    /\ bucket' = [bucket EXCEPT ![k] = [decl |-> decl, at |-> clock]]
    /\ UNCHANGED <<clock, travellers, rows, urls, pc, req, removers, restated>>

-----------------------------------------------------------------------------
(***************************************************************************)
(* Commit: CommitMedia's read, Stat with its comparisons, and the mark.    *)
(***************************************************************************)

\* A row that is missing or committed is answered from this read alone.
ReadDeclared(r, k) ==
    /\ pc[r] = "idle"
    /\ Owner(k) \in travellers
    /\ rows[k] # None
    /\ ~rows[k].committed
    /\ Go(r, "declared", {k}, rows[k].decl)
    /\ UNCHANGED <<clock, travellers, rows, bytes, removers, restated>>

\* Mutant: whatever is there will do.
HoldsAnything(k, decl) == bucket[k] # None

\* The stored size and type are the ones the row declared when it was read.
Holds(k, decl) == bucket[k] # None /\ bucket[k].decl = decl

Stat(r) ==
    /\ pc[r] = "declared"
    /\ IF \A k \in req[r].keys : Holds(k, req[r].decl)
       THEN Go(r, "verified", req[r].keys, req[r].decl)
       ELSE End(r)     \* ErrUploadIncomplete
    /\ UNCHANGED <<clock, travellers, rows, bytes, removers, restated>>

\* markSQL under the traveller's lock.  It does not compare the declaration.
MarkMediaUploaded(r) ==
    /\ pc[r] = "verified"
    /\ rows' = [k \in Keys |-> IF k \in req[r].keys /\ rows[k] # None
                               THEN [rows[k] EXCEPT !.committed = TRUE] ELSE rows[k]]
    /\ End(r)
    /\ UNCHANGED <<clock, travellers, bytes, removers, restated>>

-----------------------------------------------------------------------------
(***************************************************************************)
(* Mint: one read of the rows, and then a signature for each.              *)
(***************************************************************************)

Committed(k) == rows[k] # None /\ rows[k].committed

\* Mutant: a row is enough.
MintableOnceBegun(k) == rows[k] # None

Mintable(k) == Committed(k)

\* One id that is unknown or not committed refuses the whole list.
MintMedia(r, t, objects) ==
    /\ pc[r] = "idle"
    /\ t \in travellers
    /\ \A k \in {t} \X objects : Mintable(k)
    /\ Go(r, "minting", {t} \X objects, None)
    /\ UNCHANGED <<clock, travellers, rows, bytes, removers, restated>>

PresignGets(r) ==
    /\ pc[r] = "minting"
    /\ End(r)
    /\ UNCHANGED <<clock, travellers, rows, bytes, removers, restated>>

\* A deadline, a failed call or a crash: what was written stays.
CutOff(r) ==
    /\ pc[r] # "idle"
    /\ End(r)
    /\ UNCHANGED <<clock, travellers, rows, bytes, removers, restated>>

-----------------------------------------------------------------------------
(***************************************************************************)
(* Deleting a traveller: the rows in one transaction, then the bytes.      *)
(***************************************************************************)

\* DeleteTraveller answers the ids it read before the cascade took the rows.
DeleteTraveller(t) ==
    /\ t \in travellers
    /\ forgetting = {}
    /\ travellers' = travellers \ {t}
    /\ rows' = [k \in Keys |-> IF Owner(k) = t THEN None ELSE rows[k]]
    /\ forgetting' = {k \in Keys : Owner(k) = t /\ rows[k] # None}
    /\ UNCHANGED <<clock, bytes, pc, req, sweep, restated>>

\* forget: a key that is not there is no error, and an error is only logged.
Forget(k) ==
    /\ k \in forgetting
    /\ forgetting' = forgetting \ {k}
    /\ bucket' \in {bucket, [bucket EXCEPT ![k] = None]}
    /\ UNCHANGED <<clock, travellers, rows, urls, pc, req, sweep, restated>>

ForgetCutOff ==
    /\ forgetting # {}
    /\ forgetting' = {}
    /\ UNCHANGED <<clock, travellers, rows, bytes, pc, req, sweep, restated>>

-----------------------------------------------------------------------------
(***************************************************************************)
(* The sweep.  An operator runs it by hand beside everything else.         *)
(***************************************************************************)

WithinBudget == clock <= sweep.started + Budget

\* Mutant: no age limit.
AnyAge(k, now) == TRUE

OldEnough(k, now) == now - bucket[k].at >= MinAge

\* KnownObjects: one statement, and the context's budget starts here.
KnownObjects ==
    /\ sweep = None
    /\ sweep' = [stage |-> "known", started |-> clock, now |-> clock,
                 known |-> {k \in Keys : rows[k] # None}, left |-> Keys, orphans |-> {},
                 doomed |-> {k \in Keys : rows[k] = None /\ bucket[k] # None
                                          /\ clock - bucket[k].at >= MinAge}]
    /\ UNCHANGED <<clock, travellers, rows, bytes, pc, req, forgetting, restated>>

\* Plan's argument now is evaluated before Plan lists anything.
PlanNow ==
    /\ sweep # None /\ sweep.stage = "known"
    /\ WithinBudget
    /\ sweep' = [sweep EXCEPT !.stage = "listing", !.now = clock]
    /\ UNCHANGED <<clock, travellers, rows, bytes, pc, req, forgetting, restated>>

\* List comes to one key after the other; Plan keeps the old unknown ones.
ListKey(k) ==
    /\ sweep # None /\ sweep.stage = "listing"
    /\ WithinBudget
    /\ k \in sweep.left
    /\ sweep' = [sweep EXCEPT !.left = @ \ {k},
                              !.orphans = IF bucket[k] # None /\ k \notin sweep.known
                                             /\ OldEnough(k, sweep.now)
                                          THEN @ \cup {k} ELSE @]
    /\ UNCHANGED <<clock, travellers, rows, bytes, pc, req, forgetting, restated>>

\* With -delete; without it the sweep reports and ends (SweepCutOff).
StartApply ==
    /\ sweep # None /\ sweep.stage = "listing" /\ sweep.left = {}
    /\ sweep' = [sweep EXCEPT !.stage = "removing"]
    /\ UNCHANGED <<clock, travellers, rows, bytes, pc, req, forgetting, restated>>

\* Apply: one Delete after the other; one that fails does not stop the rest,
\* and every one fails once the budget is spent.
Apply(k) ==
    /\ sweep # None /\ sweep.stage = "removing"
    /\ k \in sweep.orphans
    /\ \/ /\ WithinBudget
          /\ bucket' = [bucket EXCEPT ![k] = None]
          /\ sweep' = [sweep EXCEPT !.orphans = @ \ {k}]
       \/ /\ sweep' = [sweep EXCEPT !.orphans = @ \ {k}, !.doomed = @ \ {k}]
          /\ UNCHANGED bucket
    /\ UNCHANGED <<clock, travellers, rows, urls, pc, req, forgetting, restated>>

\* Mutant: the sweep stops wherever it meets a failure.
SweepDoneEarly ==
    /\ sweep # None /\ sweep.stage = "removing"
    /\ sweep' = None
    /\ UNCHANGED <<clock, travellers, rows, bytes, pc, req, forgetting, restated>>

SweepDone ==
    /\ sweep # None /\ sweep.stage = "removing" /\ sweep.orphans = {}
    /\ sweep' = None
    /\ UNCHANGED <<clock, travellers, rows, bytes, pc, req, forgetting, restated>>

SweepCutOff ==
    /\ sweep # None /\ sweep.stage # "removing"
    /\ sweep' = None
    /\ UNCHANGED <<clock, travellers, rows, bytes, pc, req, forgetting, restated>>

-----------------------------------------------------------------------------
Request(r) ==
    \/ \E k \in Keys : ReadDeclared(r, k) \/ \E decl \in Declarations : BeginMedia(r, k, decl)
    \/ \E t \in Travellers, objects \in SUBSET Objects \ {{}} : MintMedia(r, t, objects)
    \/ PresignPut(r) \/ Stat(r) \/ MarkMediaUploaded(r) \/ PresignGets(r) \/ CutOff(r)

Deletion == ForgetCutOff \/ (\E t \in Travellers : DeleteTraveller(t)) \/ \E k \in Keys : Forget(k)

Sweep ==
    \/ KnownObjects \/ PlanNow \/ StartApply \/ SweepDone \/ SweepCutOff
    \/ \E k \in Keys : ListKey(k) \/ Apply(k)

Next ==
    \/ Tick \/ Deletion \/ Sweep
    \/ \E r \in Requests : Request(r)
    \/ \E k \in Keys, decl \in Declarations : Put(k, decl)

Spec == Init /\ [][Next]_vars

-----------------------------------------------------------------------------
(***************************************************************************)
(* Properties.                                                             *)
(***************************************************************************)

\* Bytes are removed only after their traveller is: neither a sweep whose
\* list of rows is stale by the time it lists and deletes, nor a deletion cut
\* short, takes a photograph somebody can still begin, commit or look at.
BytesTakenOnlyFromTheGone ==
    [][\A k \in Keys : bucket[k] # None /\ bucket'[k] = None => Owner(k) \notin travellers]_vars

\* A committed row has its bytes, and they are the ones it declares, unless a
\* begin declared the object anew between a commit's read and its mark: the
\* mark does not look at the declaration again.
CommittedAsStored ==
    \A k \in Keys : Committed(k) =>
        /\ bucket[k] # None
        /\ k \in restated \/ bucket[k].decl = rows[k].decl

\* A presigned GET is signed, long after the rows were read, only for bytes
\* that are there, unless the traveller was deleted in between.
MintedLeadsToBytes ==
    \A r \in Requests : pc[r] = "minting" =>
        \A k \in req[r].keys : Owner(k) \in travellers => bucket[k] # None

\* A sweep that ends has collected every key that was an old orphan when it
\* began, except one whose own deletion failed or was uploaded again since:
\* a failure at one key costs no other key its collection.
SweepCollects ==
    [][sweep # None /\ sweep' = None /\ sweep.stage = "removing" =>
        \A k \in sweep.doomed : bucket[k] = None \/ bucket[k].at >= sweep.started]_vars
=============================================================================
