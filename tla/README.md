# Travel log backend: specifications

TLA+ specifications of the travel log backend, the TLC runs that check them on
small instances, and TLAPS proofs of what matters most for every instance.
Paths are relative to the repository (`src/` is its root).

## 1. The system

A Go HTTP server keeps one *logbook* per traveller in PostgreSQL, and the bytes
of photographs in an S3-compatible object store. Clients keep a cached copy of
the whole document and revalidate it with an entity tag. Many requests of one
traveller (several devices, retries) and several servers (rolling deployments)
run at the same time. An operator panel and two command line tools (`sweep`,
`invite`) write to the same database.

| Component | State | Operations | Interacts with |
|---|---|---|---|
| Logbook stores (`internal/postgres/*_store.go`, rules in `internal/logbook`) | trips, itinerary rows, cities, places, occasions (visits), photographs, walks, share links, the name | `PutTrip`, `DeleteTrip`, `PutCity`, `PutPlace`, `RemovePlace`, `PutPhoto`, `DeletePhoto`, `SnoozePhotos`, `RefilePhoto`, `PutWalk`, `SetShareOptions`, `NewShareLink`, `StopSharing`, `SetTravellerName` | schema (`migrations/`), traveller transactions |
| Traveller transactions (`tx.go`, `read_tx.go`) | advisory lock per traveller, `logbook_version` | `WithTravellerTx`, `WithTravellerLock`, `WithReadSnapshot` | every store; tags (`httpx/etag.go`) |
| Conditional reads (`logbook_handlers.go`, `emit.go`) | none on the server; a document and tag on each device | `GET /v1/logbook`, 304 | transactions, emitter version |
| Media (`media_store.go`, `logbook/service.go`, `internal/media`) | `media_objects` row (absent, begun, committed), bytes in the bucket | begin, upload to a presigned URL, commit, mint presigned reads | logbook stores (covers, photographs), sweep |
| Sign-in (`internal/auth`, `auth_store.go`, `signin_code_store.go`) | `sign_in_codes`, `sessions`, `invite_codes`, `travellers` | request a code, sign in, register, authenticate and slide, revoke one or all | mail, panel |
| Public share read (`share_read.go`, `public_handlers.go`) | none | resolve a link, read what is shared | share links, flags |
| Operator panel (`internal/admin`) | in memory: its sessions, and refusals and lock-out per client | sign in, rename, mint and delete invites, revoke a session, delete a traveller (rows, then bytes) | all stores, bucket |
| Sweep (`internal/sweep`, `cmd/sweep`) | none | read the rows, list the bucket, delete old bytes no row names | media rows, bucket |
| Rate limiter (`httpx/ratelimit.go`) | in memory: a token bucket per key, in a map that is pruned | allow | every route |
| Migrator and boot (`migrate.go`, `cmd/api/main.go`) | `schema_migrations`, a session advisory lock | apply what is missing, then serve | every process, of whatever release |

Mail, city search, configuration, logging, the seed loader and the wiring in
`cmd/` keep no state that outlives a call.

What is hard here, and what has to hold:

* **Relational side effects.** Foreign keys cascade and null columns, the unique
  index on ordinals is checked row by row, and Go rules and schema rules are
  written twice. A log must stay coherent over any sequence of writes, deletions
  must take what they promise and no more, and the schema should not be what
  refuses a request (that is a 500 that names nothing).
* **Moments.** A row is stamped with `now()`, which PostgreSQL fixes when the
  transaction begins. `WithTravellerTx` begins, then waits for the lock: the order
  of writes and the order of their stamps are two orders.
* **Retries.** Clients repeat writes whose answer was lost.
* **Versions and tags.** A document is assembled by several statements while
  others commit. What a device holds under a tag must be the document of that
  version, or the tag hides the damage for ever.
* **Sign-in outside the transaction discipline.** Codes, sessions and invites
  are read in one statement and acted on in another.
* **Two stores without a common transaction.** Bytes go past the server, whenever
  the device likes; rows and bytes are compared, committed and deleted in separate
  calls. No photograph somebody can still look at may lose its bytes, and no bytes
  of the gone may stay for ever because one call failed.
* **Reads nobody is signed in for.** A link is checked in one statement and what it
  opens is read later; sharing may stop, or its flags change, in between.
* **State in memory.** Buckets are dropped and refusals are counted while other
  requests of the same client are under way; a restart loses both.
* **Boots in parallel.** Processes of several releases migrate one database and die
  at any statement, and one kind of statement leaves something behind when it fails.
  What serves must have its schema; no boot may wait for ever.

## 2. Modules

| Module | Models | Role |
|---|---|---|
| `LogbookStore` | logbook stores, the media row, the schema | one action per store method; a log is a record of tables |
| `MCLogbookStore` | | symmetry of ids |
| `LogbookStoreProofs` | | theorems: filings and named objects |
| `LogbookSchemaProofs` | | theorems, on top of `LogbookStoreProofs`: ordinals, itineraries, what each write changes, retries |
| `TravellerTx` | transactions, versions, tags, conditional reads, devices | one step per statement |
| `VersionedLog` | | abstract specification that `TravellerTx` implements |
| `TravellerTxProofs` | | theorems, refinement included |
| `SignIn` | codes, sessions, invites, registration, the panel's writes to them | one step per statement |
| `MCSignIn` | | symmetry, and a view with ages in place of moments |
| `SignInProofs` | | theorems |
| `MediaObjects` | media rows, bucket, presigned URLs, deletion of a traveller, sweep | one step per statement or call to the bucket |
| `MediaObjectsProofs` | | theorems |
| `Limiter` | the rate limiter | one action per call of `allow` |
| `TokenBuckets` | | abstract specification that `Limiter` implements |
| `PublicRead` | the public share read, behind `Limiter` and beside the owner's writes | extends `Limiter`; one step per statement |
| `PublicReadProofs` | | theorems of `Limiter`, its refinement included, and of `PublicRead` |
| `Migrator` | boot and migrations of several processes | one step per statement |
| `MigratorProofs` | | theorems |
| `Server` | `Migrator`'s processes, and the panel's lock-out in the memory of each | extends `Migrator` |
| `MCServer` | | the releases' files |
| `ServerProofs` | | theorems, on top of `MigratorProofs` |

Operators whose comment starts with `Mutant:` are variants of the operator
that follows them. No specification uses them: each is the plausible bug that the
property listed with it in `PROJECT.json` was tried against.

### LogbookStore

`log` holds the rows, `request` and `answer` the request served last, `began` the
moment its transaction began. Every write runs inside `WithTravellerTx`, which
serialises the writes of one traveller, so one write is one action; interleaving is
`TravellerTx`'s subject. What serialising leaves open is the order of the stamps:
`Serve(r)` picks any `now` of `Moments` and performs `r` with the operator of the
store method (`Perform`). `share_links` is the table that compares two stamps:
`created` is the `now` of the mint, `revoked` that of the revocation. (The other is
`media_objects`, 0003:80: `uploaded_at` cannot precede `created_at`, because
`CommitMedia` has read the row before the transaction that marks it begins.)

A store operator first applies the Go rules in the order of the code (`Refuse`), then
commits the *sequence of tables its statements produce* (`Commit`). `Commit` fails with the
answer `constraint` and leaves the log alone if any of these tables breaks the
schema (`Lawful`: foreign keys, unique ordinals, date order, at most one live
link, no link revoked before it was created, non-empty texts), or if a statement that
renumbers occasions could collide with an ordinal another row held when it began
(`RowByRow`: the unique index is not deferrable, and the order rows are visited in is
nobody's choice). The `ON DELETE` rules are the operators `DeletePhotos`, `DeleteVisits`, `DeletePlaceRow` and `DeleteTripRow`. PATCH-like bodies carry
`Unsent` for an absent key and `None` for a null. Names, coordinates, lengths and
encodings are left out: `validate.go` repeats the schema's rule for each field
(except for empty texts, see the findings).

### TravellerTx

`db` is what is committed (is the traveller there, the version, the document),
`lock` the advisory lock, `pc` and `req` the request at each stage, `cache` what
each device holds, `history` the document each version committed. A document is
one number per table: the version that last changed it. A write waits for the
lock, bumps, writes tables, and commits or rolls back; a cascade (`DeleteTrip`)
assembles its answer inside its transaction; a miss rolls back and reads. A read
opens its snapshot, compares the tag and answers 304, or reads table by table.
Answers are delivered late, out of order or never. Two emitters run at once during
a deployment. `CutOff` is the request deadline, a dropped connection or a crash at
any statement. The client's side is external to the repository: it replaces its
document by an envelope, and keeps it on a 304.

### VersionedLog

A log of documents, one per version, and per device a tag and a document. A step
appends a document, or lets a device hold the document of some version under that
version's tag. It says nothing of locks, statements, snapshots or deadlines.

### SignIn

`travellers`, `codes`, `sessions`, `invites` are the tables; `pc` and `req` the
requests in flight; the other variables are history. One statement is one step:
`FindTraveller`, `ReadCode`, `CountAttempt`, `BurnCode`, `CreateSession` for a
sign-in; `AskForCode`, `IssueCode` for a requested code; `LookUpSession`,
`TouchSession`, `ServeThrough` for a request with a token; `SpendInvite`,
`CreateTraveller`, `RecordInviteUser` for a registration. The panel may run
between any two of them, and `CutOff` may end a request there. A code is the
number of its drawing: that the same six digits are drawn twice for one traveller
(one in a million) is left out. The service's clock and the database's are one
clock, and the time a row is judged at is the time it was read at.

### MediaObjects

`rows` is the table, `bucket` what is stored under each key, `urls` the presigned
uploads handed out, `pc` and `req` the requests in flight, `forgetting` the keys a
deletion still has to remove, `sweep` the sweep in progress. A size and a content
type are one *declaration*; `Uploadable` are those whose size the bytes have. `BeginMedia` and
`PresignPut` are begin; `Put` is the device's upload, external to the server and
possible as long as a URL exists; `ReadDeclared`, `Stat`, `MarkMediaUploaded` are
`CommitMedia`'s three calls; `MintMedia` and `PresignGets` the mint.
`DeleteTraveller` takes the rows, `Forget` the bytes key by key, each of which may
fail. `KnownObjects`, `PlanNow`, `ListKey`, `StartApply`, `Apply` are the sweep:
its list of rows is old by the time it lists and deletes. `CutOff`, `ForgetCutOff` and
`SweepCutOff` end each of them anywhere. `restated` and `sweep.doomed` are history.

### Limiter, TokenBuckets, PublicRead

A bucket is made on first sight, refilled when asked and dropped when the map is at
its threshold and the bucket would be full. Amounts are whole numbers of *units*
(1/60 token in the code); the rounding of the code's floating point is not
modelled. `TokenBuckets` has every bucket for good and refills it all the time:
`level <- [c |-> Level(c)]` is the refinement mapping.

`PublicRead` puts the limiter in front of `GET /l/{token}`: `Ask` (with the limiter's
`Allow`), `ShareLink`, `ReadPublicTrip`, `AnswerEnvelope`. The owner's writes are one
transaction each; what they write is `LogbookStore`'s subject, so here a trip is its
flags and the kinds of rows it has. `Parts` is what `EmitPublic` shows of a row and
under which flags. `could` is history: what a reader could have been shown since
the read came.

### Migrator, Server

`boot[p]` is how far process `p` is, `recorded` the table, `effects` the statements
whose effect is committed, `invalid` those that left an INVALID index. `Files[p]` are the migrations of `p`'s release, so two
releases may ship different files or edited ones. `TakeLock` or `GiveUp`, `ReadApplied`, then
per file `Skip`, `ChecksumMismatch`, or `RunStatement` and `Record`, then
`ReleaseLock` and `Serve`. A file's statements take effect with its row, unless it
declares `no-transaction`: then each does at once, and its author promises it may be
run again, each statement being `IF NOT EXISTS` or `DROP ... IF EXISTS`. Such a file
may build indexes `CONCURRENTLY` (`concurrent`, which PostgreSQL refuses inside a
transaction). A build that fails or loses its process is `FailStatement`: the index
stays, INVALID, and a later `RunStatement` finds its name and passes it over. That an
operator drops the index by hand before the next boot is not modelled. `Stop` is an error, a crash or a shutdown at any point; a stopped process
may start again. A statement that finds its effect there, or a row whose version is
there, is a `collided` boot.

`Server` adds the panel's sign-in: `Post` reads the clock, `Locked` looks at the
lock-out, `Fail`, `SignedIn` or `Abandon` follow after the form is read. `Exit` is
`Stop` together with the loss of the process's memory.

## 3. Runs

| Run | Question | Instance |
|---|---|---|
| `filing` | do filings stay coherent, do deletions keep their promise, is a repeated request harmless, is every named object committed, does a mint leave the other place's numbers alone, does the schema ever answer | 2 trips, 2 places, 2 occasions, 1 photograph, 1 walk |
| `ordinals` | does renumbering survive ties, gaps and any order of arrays and refiles | 3 occasions in arrays of up to 3, 2 moments, 1 place |
| `sharing` | are itineraries dense, do revoked links stay revoked; dates, names and links against the schema | 1 trip, 2 cities, 2 days, 2 tokens, transactions that began at 2 moments |
| `half_filed`, `retry_link`, `empty_text` | findings 1 to 3 below | as above |
| `transactions` | is every cached document its tag's, are answers current, is deletion final, does every request end; refinement | 2 requests, 1 device, 2 emitters, 1 table, 2 versions |
| `splice` | finding 4 | 2 devices |
| `sign_in` | do spent codes, revoked sessions and used invites stay so; cap on guesses; sliding | 2 requests, 2 traveller ids, 1 address, 1 session, 1 invite, 2 codes, unbounded clock |
| `media` | are bytes only ever taken from the gone, are committed rows and minted URLs backed by bytes, does a sweep collect | 1 traveller, 1 object, 3 declarations (2 uploadable), 2 requests, age limit 2, budget 1 |
| `public` | does a read need a link that was live, is its envelope of one moment; is pruning invisible, is the map bounded | 1 read, 2 tokens, 2 flags, 2 clients, a bucket of 1 token of 2 units, threshold 1 |
| `server` | does what serves have its schema, does no boot collide, does every boot end; is a client at the ceiling locked out, and how far past it can it get | 3 processes of 3 releases (one with an edited file, one with a file more), one file with an index built `CONCURRENTLY`; 1 panel, 1 client, 2 attempts, ceiling 2 |

**Why the bounds are enough.** Two of each row is where cross effects appear: a
photograph of one trip filed to an occasion of another, an occasion moved between
places. Three occasions are the least for which a renumbering can pass through a
collision that neither starts nor ends it, and arrays of three give every stored
order for an opened occasion to meet. Two moments give a write that began before and
one that began after the write it follows; two tokens, a link and its successor.
Two requests are the least that can overtake one another; the properties are about
pairs. In `sign_in` two ids and one
address give a deleted traveller who registers anew, a second code gives one
that replaces the first, and `MaxAttempts = 2` lets a guess be the last or not.
In `media` two requests give a begin between a commit's read and its mark, or two
commits that overlap; an age limit above the budget is what `cmd/sweep` has, and
time 3 lets an upload grow old during a sweep. In `public` two clients and a
threshold of one make every second client prune. In `server` two files, of which one
opted out of its transaction, two statements each, let a boot die half way in both
ways and leave the index of the second INVALID, and one file edited between releases
gives the checksum something to find. Two attempts above a ceiling of two let one
count after the other has locked, and the clock goes past the end of a lock-out that
a late count sets anew.

What the bounds leave out, the theorems cover for the properties they prove:
documents torn across several tables (`TagSound`; `splice` has two tables), covers
(`Covers` is empty in every passing run, so what `AssetsCommitted` says of a cover
rests on `NothingUncommittedNamed` alone), the links of another trip than the deleted one
(`TripDeletionScoped`; a run has two trips or tokens, not both), several
travellers and objects (`MediaObjectsProofs`), several reads and rows of every kind
(`PublicReadProofs`), several panels and clients (`ServerProofs`).

**Bounds in guards.** `MaxVisits` and `MaxItinerary` bound the arrays of a body,
`Moments` the clock of the stamps, `MaxVersion` the writes of a behaviour, `MaxCodes`
the codes drawn, `MaxTime` the clock of `MediaObjects`, `Limiter` and `Server`, `MaxSeen` the different envelopes a
trip goes through during one read. The proofs hold for every value of them. Ids are never
used twice, so a session or traveller id that is used up is a bound as well.

**Symmetry and views.** Ids that are only compared are symmetric; occasions are
not, since ties are ordered by id. No run with a liveness property uses symmetry. `LogbookStore`'s view is `log`: it drops
the last request, its moment and its answer, on which no later step depends; its properties about
them are action properties, which TLC evaluates on every transition. `MCSignIn`'s
view replaces each moment by its age, cut off where no later comparison can tell
ages apart: `expiresAt` at 0, `lastUsed` at the touch interval, `issuedAt` at the
code interval, a request's moments at the deadline they cannot pass, and the
moment a session was last let through at the deadline plus one, beyond which no
touch in flight can fall behind it. States that agree on the view have the same
future up to a shift of time, so the clock needs no bound.

**Fairness.** `TravellerTx` assumes weak fairness of each request's own steps and
strong fairness of taking the lock. Every statement ends in an answer or at the
request's deadline (`httpx.Timeout`, bounded in `config.go`), and PostgreSQL serves
the waiters of an advisory lock in order. `EveryRequestEnds` needs no fairness of
`CutOff`. `Server` assumes weak fairness of each process's boot steps: the ping, the
lock (`lock_timeout`, and `migrateTimeout` of two minutes, which bounds the whole run
and so that wait too), the migrations (`migrateTimeout`) and the bucket
(`bucketTimeout`) have deadlines. `GiveUp` stands for whichever of the two comes
first; without `lock_timeout` a boot would wait two minutes and not for ever. The
fairness assumes nothing of another process giving up the lock, of the pool closing a connection, or of a sign-in. `SignIn`,
`MediaObjects` and `PublicRead` state safety only and assume none: an operator runs
the sweep by hand, so that it ever runs is not the code's promise. What a sweep owes
when it ends is `SweepCollects`.

**Deadlock** is checked in every run: a server can always be sent another request.

## 4. Findings

1. `half_filed`: deleting a trip leaves a photograph of another trip with a place
   and no occasion, a state `place_store.go` says the log never holds.
2. `retry_link`: a repeated `POST` of a share link is failed by the unique index,
   although the documentation calls every write idempotent.
3. `empty_text`: an empty summary, plan or note passes every Go rule and is failed
   by a check constraint.
4. `splice`: a client that follows `docs/CLIENT-PREREQUISITES.md`, patches the
   written entity into its document and stamps it with the answer's tag, loses
   what another device wrote in between, and every later read answers 304.

`PROJECT.json` quotes the lines.

Three more lines of the repository are stricter than the code. They have no run of
their own: each is visible as the exception that a property of a passing run, and the
theorem for it, has to make.

5. A link is stamped with the moment its transaction began, before it waited for the
   lock (`tx.go:27`, `:33`). A revocation that began before the mint of the link it
   finds is failed by `share_links_revoked_after_created_ck` (`0001:494`) with a 500,
   although no rule of the code refuses it: `ConstraintsNeverAnswer` and
   `ConstraintsThatAnswer` name the case. The other way round, a mint that began before
   the revocation it follows is stamped with the earlier moment, and by the record two
   links of one trip were live at once, although `0001:463` says "the record now shows
   which token was live when" and `0004:42` that it answers "when did each stop
   working".
6. A `CREATE INDEX CONCURRENTLY` that fails "leaves an INVALID index behind"
   (`testdata/notx_fixture.up.sql:16`). The re-run that `migrate.go:253` demands be
   `IF NOT EXISTS` passes it over and records the file, although `migrate.go:69` says
   "Migrate applies every unapplied file". `ServesItsSchema` excepts such an index. No
   shipped migration opts out of its transaction, so this is a trap laid and not yet
   sprung: without such a file the ledger tells the truth (`RecordedIsApplied`,
   `LedgerTold`).
7. `login.go:17` has `MaxFailures` as "how many refusals one client address may collect
   before the login stops answering it, and LockFor is how long that lasts". Sign-ins
   that pass the check together are all counted, so a client collects up to one refusal
   more for every other sign-in in flight; `FailuresBounded` is the bound that holds.
   And `fail` counts from the clock its request read on arrival: a form that comes in
   slowly sets a lock-out shorter than `LockFor`, in the extreme one already over, and
   may move the end of one that is set back. `FailuresBounded` says that a lock-out is
   set, not how long it lasts.

In `SignIn`, overlapping sign-ins with one code
may each open a session, as each may have read the code before the first burns it:
what holds, and is proved, is that a code is useless to every sign-in that comes
after. Likewise a code answers up to `MaxAttempts` wrong guesses plus one for
every other request in flight.

What the models also say and no run reports, because what the repository says there
is imprecise about the reason or silent rather than false of what happens:

* A comment in `cmd/sweep/main.go` says that as "the row is written before the
  presigned PUT" nothing in flight can look orphaned, and that the age limit does
  not rely on that. It is the age limit that does the work: the rows are read before
  the bucket is listed, so an object begun and uploaded in between is listed and
  unknown. `BudgetBelowMinAge` is the assumption the theorem needs.
* A begin between a commit's read and its mark leaves a committed row that declares
  another size or type than its bytes have: `markSQL` does not compare. `restated`
  marks these keys in `CommittedAsStored`; the bytes themselves are never wrong,
  as the digest is signed.
* A public read that overlaps `StopSharing` may pass the link check before it and
  read the flags after it, and so show what the reset flags show. Its envelope is
  still of one moment.
* `lock_timeout` (3 s) is set before the advisory lock is asked for, so it bounds
  that wait too: a second boot waits, as comments in `main.go` and `migrate_test.go`
  have it, but for 3 s and not for the two minutes of its run, and then fails. That is
  `GiveUp`.
* The unlock is not sent once the run's deadline has passed, and the lock then stays
  with a pooled connection of a process that serves (`ReleaseLock`, `PoolCloses`).
  Other boots fail until the pool closes it; they do not hang.
* A `no-transaction` file that died half way has no row, so a later edit of it is
  not noticed by the checksum. Its statements have to be re-runnable in that sense
  too.

## 5. Proofs

The theorems have the form `Spec => []P`, `Spec => [][A]_vars` or
`Spec => Abstract!Spec`, for every value of the constants that satisfies the named
assumptions of the modules. Every safety property a passing run checks is stated by
one of them. The type invariants of `LogbookStore` (its log is lawful: `Commit` tests
it) and of `Server` hold by construction; they are parts of the invariants and neither
checked by a run nor listed as theorems.

* **LogbookStoreProofs** (`FilingCoherent`, `NothingUncommittedNamed`).
  The invariant `Coherent` is: the log is lawful, a photograph's occasion is at the
  photograph's place, every named object is committed. `FiledToOwnPlace` alone is
  not inductive: `RefilePhoto` relies on the foreign keys (lawfulness) to know
  that an occasion exists. Each store method has a lemma `...Sound`; a method of
  several statements is sound if its last table is, given that each table passed
  the schema. Parking, renumbering and inserting are shown to leave every occasion
  at its place (`OccasionsStand`), so that ordinals never enter the argument.
* **LogbookSchemaProofs** is about single steps, and goes request by request:
  `StepServes` turns a step into a request and the log it leaves, `AskedCases` into
  the store method. The invariant `JInv` adds `Counted` to the one above: the log
  holds finitely many occasions and every itinerary is finite and dense. Finiteness
  is needed because `MAX(ordinal) + 1` and the rank by time mean nothing for an
  infinite set; a request opens finitely many occasions because an array is one.
  * `ItinerariesDense`: an array spells a dense itinerary (`ArrayDense`) and an
    attachment extends one (`AppendDense`).
  * `MintingSorts`: parked ordinals lie above all new ones (`Parked`), and the rank
    of an occasion among those of its place is a bijection to 0..n-1 that follows
    time (`Ranks`).
  * `ConstraintsThatAnswer`: for each method a lemma `...Served` shows that the Go
    rules imply the schema after *every* statement, `RowByRow` included, for the
    constraints `Lawful` has (not for the field rules of section 6). Three cases
    remain: a share token already held (finding 2), a revocation whose transaction
    began before the live link's (`RevokesYounger`, finding 5), and an empty text
    (finding 3). `RulesComeFirst` is the run's property, which excepts the first two;
    its hypothesis, that no body carries the empty text, is there because without it
    the property is false (`empty_text`).
  * `TripDeletionScoped`, `RemovalPromise`, `RevocationFinal`, `FilingsSurvive`:
    for each method, the tables it leaves alone (`...Tables`) and what the `ON
    DELETE` rules leave (`VisitsGone`, `PlaceGone`, `TripGone`).
  * `RetriesSettle`: for each method a lemma `...Settles` shows that on the log its
    first run left, every table its statements end with is that log again, or the
    rules refuse. Only `PutPlace` takes a detour: it parks the occasions and writes
    the same rows back (`OccasionsSettled`). The repeat may begin at any moment: a
    second `StopSharing` finds no live link to stamp. A new share link is left out, as
    finding 2 has it; `RetriesWithoutLinks` is the run's property on the instances
    without tokens, which is how `filing` checks it.
* **TravellerTxProofs** (`Typed`, `TagSound`, `AnswersCurrent`, `DeletionFinal`,
  `Implementation`). `Carries` says for each stage what a request's partial
  document is: of its snapshot for a read, of the committed document overlaid with
  its own writes for a cascade. Only the holder of the lock commits, hence a
  cascade's overlay stays true until its commit. The refinement maps the committed
  document and history to `VersionedLog`; its fairness is not part of the theorem.
* **SignInProofs** (`Typed`, `SpentCodes`, `RevokedSessions`, `InvitesAdmitOne`,
  `Sliding`, `CodesResistGuessing`). The properties speak of the moment a request
  acts, so the invariant has to say what is left of its key at each stage: a key
  that was dead on arrival is held by nobody or out of date; a code about to be
  spent is held by its traveller at most, and by nobody once burned (`HeldOnce`:
  codes are drawn once); an invite that is claimed has admitted nobody and is
  claimed by one request (`Claims`); a session's lifetime lags its last use by at
  most a deadline (`Slides`). `Stands` shows that a request at rest keeps all of
  this while the tables only move `Forward`. For the guesses the invariant is
  extended by `Capped`: the row that holds the latest code has counted every guess
  at it, and once that code no longer takes guesses, those made and those still on
  their way to the counter stay below the cap plus the number of requests.
* **MediaObjectsProofs** (`Typed`, `CommitsAreStored`, `MintsLead`,
  `OnlyFromTheGone`, `Collected`). The invariant adds to the properties: a key with
  bytes, a URL or a request has a row, or its traveller is gone (`Owned`); what a
  commit has verified is in the bucket while its traveller exists (`Carried`);
  bytes older than a sweep that its list of rows does not name are of the gone, and
  only those can be old enough to become its orphans (`Spares`: here the age limit
  and the budget meet); every doomed key is still to be listed, an orphan, gone, or
  uploaded anew (`Collects`).
* **PublicReadProofs**, the limiter (`NoFreeBurst`, `MapStaysBounded`,
  `PruningInvisible`). The refinement rests on one fact: a bucket that may be dropped has the level a new one
  would have, now and later. `NoFreeBurst` bounds what a client is let through by
  its burst and the time that passed.
* **PublicReadProofs**, the read (`Typed`, `LinksLive`, `OneMoment`, `LimiterInside`,
  `PublicLimit`). A read past the link check has a live moment in its history; one
  past the snapshot has its snapshot there. `LimiterInside` shows that the composed
  module takes only steps of the limiter, so the limiter's theorems hold in it.
* **MigratorProofs** (`SchemaServed`, `LedgerTold`, `NoBootCollides`). `MutualExclusion` (who
  applies holds the lock) gives `Snapshot`: the map a run read at the start misses
  only what this run recorded. `AllOrNothing` (a transactional file without a row has
  no effect) and `Fresh` (a run starts at the first statement of the first file) give
  that no statement meets its own effect. `Passed` (the files a run is past are
  recorded), `Done` (the statements a run is past have their effect or stand INVALID),
  `Broken` (only an index built `CONCURRENTLY` is INVALID) and `Whole` (a row means all
  its effects, but for what is INVALID) give the schema. `LedgerTold` is what is left
  of finding 6 where no file builds such an index.
* **ServerProofs** (`Lockout`, `MigratorInside`, `ServedSchema`,
  `ServedWithoutCollision`). Without a lock-out a client's count is below the
  ceiling; under one, its count and the sign-ins already past the check sum to less
  than the ceiling plus the attempts in flight (`Room`), since nothing new passes.
  `MigratorInside` is `Spec => MigratorSpec`.

Assumptions worth knowing: the deadline is shorter than both lifetimes (`config.go`
caps it at 60 s; a code lives 10 min), requests are finite in number, markers
such as `NoRow` and `None` are no rows, and moments are numbers. The sweep's budget is
shorter than its age limit; a checksum identifies a file; a release ships no two files of one version, and
none that builds an index `CONCURRENTLY` inside a transaction.

**Only model-checked**: `EveryRequestEnds` and `EveryBootEnds`, which are liveness
under fairness and outside the prover's reach, and with them the fairness part of
`VersionedLog`. Findings 1 to 4 are counterexamples and stay with the runs that
find them.

## 6. Not modelled, and the plan

* **The panel's own sessions and CSRF token**: each call is one critical section
  over a map; pages and forms are rendering.
* **`split.go`**, which cuts a migration into statements: text in, text out, with no
  state; a file is here the number of its statements.
* **The seed loader**: one transaction on an empty database, by hand.
* **Mail, city search, the health probe**: one outbound call each, no state. That a
  mail is lost is `SignIn`'s request for a code that nobody uses.
* **Configuration, logging, gzip, JSON, error wording, route construction**: values
  read once, and formats.
* **Field rules** (lengths, character sets, ranges) that `validate.go` and the schema
  both state.

Left to do: nothing that a safety theorem could still add to the runs' properties.
A next step would be new properties: how a photograph comes to be half filed
(finding 1), as an action property of `LogbookStore`.
