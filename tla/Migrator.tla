------------------------------ MODULE Migrator ------------------------------
(***************************************************************************)
(* The boot of the API process (cmd/api/main.go: run, migrateOnlyRun) and  *)
(* the migrations it applies on the way (internal/postgres/migrate.go).    *)
(*                                                                         *)
(* Several processes, of releases that may ship different files, boot      *)
(* against one database.  A run of the migrator is behind a session        *)
(* advisory lock.  A file is run statement by statement, in a transaction  *)
(* with its schema_migrations row unless it opted out; a process that      *)
(* stops takes its session, its lock and its open transaction with it, and *)
(* may be started again.  A file that opted out may build an index         *)
(* CONCURRENTLY, the one statement that leaves something behind when it    *)
(* fails: an INVALID index, under the name a re-run asks for.              *)
(***************************************************************************)
EXTENDS Integers, Sequences, FiniteSets

CONSTANTS
    None,
    Processes,  \* API processes, `-migrate-only` ones included
    Files       \* Files[p]: the migrations of p's release, in lexical order

\* What loadMigrations and apply accept: no empty file, no two of a version.
\* concurrent: which of the statements are CREATE INDEX CONCURRENTLY.
Migration == [version : Nat, sum : STRING, noTransaction : BOOLEAN, size : Nat \ {0},
              concurrent : SUBSET Nat]

ASSUME ReleaseAssumption ==
    /\ Files \in [Processes -> Seq(Migration)]
    /\ \A p \in Processes : \A i, j \in 1..Len(Files[p]) :
           Files[p][i].version = Files[p][j].version => i = j

\* A checksum is SHA-256 over the whole file.
ASSUME ChecksumAssumption ==
    \A p, q \in Processes : \A i \in 1..Len(Files[p]), j \in 1..Len(Files[q]) :
        Files[p][i].version = Files[q][j].version /\ Files[p][i].sum = Files[q][j].sum
            => Files[p][i] = Files[q][j]

\* PostgreSQL refuses CREATE INDEX CONCURRENTLY in a transaction.
ASSUME ConcurrentAssumption ==
    \A p \in Processes : \A i \in 1..Len(Files[p]) :
        Files[p][i].concurrent # {} => Files[p][i].noTransaction

ASSUME NoneIsNoProcess == None \notin Processes

VARIABLES
    lock,       \* the process whose session holds the advisory lock, or None
    recorded,   \* schema_migrations
    effects,    \* the statements whose effect the database has committed
    invalid,    \* the statements that left an INVALID index
    boot        \* per process: how far it is

migratorVars == <<lock, recorded, effects, invalid, boot>>

Rows == [version : Nat, sum : STRING]
Effects == [version : Nat, sum : STRING, statement : Nat]

\* applied is the map Migrate read, next the file it is at, ran the statements
\* of that file it has run.
Boots == [phase : {"down", "waiting", "locked", "applying", "collided", "migrated", "serving"},
          applied : SUBSET Rows, next : Nat, ran : Nat]

Down == [phase |-> "down", applied |-> {}, next |-> 1, ran |-> 0]

MigratorTypeOK ==
    /\ lock \in Processes \cup {None}
    /\ recorded \subseteq Rows
    /\ effects \subseteq Effects
    /\ invalid \subseteq Effects
    /\ boot \in [Processes -> Boots]

MigratorInit ==
    /\ lock = None
    /\ recorded = {}
    /\ effects = {}
    /\ invalid = {}
    /\ boot = [p \in Processes |-> Down]

RowOf(f) == [version |-> f.version, sum |-> f.sum]

\* The effects of the first k statements of a file.
Statements(f, k) == {[version |-> f.version, sum |-> f.sum, statement |-> i] : i \in 1..k}

Versions(rows) == {r.version : r \in rows}

Enters(p, phase) == boot' = [boot EXCEPT ![p].phase = phase]

----------------------------------------------------------------------------

Start(p) ==
    /\ boot[p].phase = "down"
    /\ Enters(p, "waiting")
    /\ UNCHANGED <<lock, recorded, effects, invalid>>

\* Mutant: nothing keeps a second run out.
TakeLockAnyway(p) ==
    /\ boot[p].phase = "waiting"
    /\ lock' = p
    /\ Enters(p, "locked")
    /\ UNCHANGED <<recorded, effects, invalid>>

TakeLock(p) ==
    /\ boot[p].phase = "waiting"
    /\ lock = None
    /\ lock' = p
    /\ Enters(p, "locked")
    /\ UNCHANGED <<recorded, effects, invalid>>

\* Mutant: the wait for the lock has neither lock_timeout nor a deadline.
WaitForever(p) == FALSE /\ UNCHANGED migratorVars

\* lock_timeout is set before the advisory lock is asked for, so it bounds
\* that wait, as migrateTimeout does after it: the boot fails.
GiveUp(p) ==
    /\ boot[p].phase = "waiting"
    /\ boot' = [boot EXCEPT ![p] = Down]
    /\ UNCHANGED <<lock, recorded, effects, invalid>>

ReadApplied(p) ==
    /\ boot[p].phase = "locked"
    /\ boot' = [boot EXCEPT ![p].phase = "applying", ![p].applied = recorded]
    /\ UNCHANGED <<lock, recorded, effects, invalid>>

At(p) == Files[p][boot[p].next]

AtFile(p) == boot[p].phase = "applying" /\ boot[p].next <= Len(Files[p])

\* The file at hand is to be run: the run found no row of its version.
Unapplied(p) == AtFile(p) /\ At(p).version \notin Versions(boot[p].applied)

\* Mutant: the checksum is not compared.
SameVersion(p) == At(p).version \in Versions(boot[p].applied)

SameSum(p) == RowOf(At(p)) \in boot[p].applied

Skip(p) ==
    /\ AtFile(p)
    /\ ~Unapplied(p)
    /\ SameSum(p)
    /\ boot' = [boot EXCEPT ![p].next = @ + 1]
    /\ UNCHANGED <<lock, recorded, effects, invalid>>

\* The process is gone: an error that run returns, a crash or a shutdown.
Stop(p) ==
    /\ boot[p].phase # "down"
    /\ boot' = [boot EXCEPT ![p] = Down]
    /\ lock' = IF lock = p THEN None ELSE lock
    /\ UNCHANGED <<recorded, effects, invalid>>

ChecksumMismatch(p) ==
    /\ AtFile(p)
    /\ ~Unapplied(p)
    /\ ~SameSum(p)
    /\ Stop(p)

\* The statement at hand, as the effect it has.
Pending(p) == [version |-> At(p).version, sum |-> At(p).sum, statement |-> boot[p].ran + 1]

\* A statement that has its effect already fails, unless its file declared
\* itself re-runnable; a transaction's effects wait for its commit.  IF NOT
\* EXISTS asks for the name alone, so an INVALID index is passed over.
RunStatement(p) ==
    LET f == At(p) IN
    /\ Unapplied(p)
    /\ boot[p].ran < f.size
    /\ IF Pending(p) \in effects /\ ~f.noTransaction
       THEN Enters(p, "collided")
       ELSE boot' = [boot EXCEPT ![p].ran = @ + 1]
    /\ effects' = IF f.noTransaction /\ Pending(p) \notin invalid
                  THEN effects \cup {Pending(p)}
                  ELSE effects
    /\ UNCHANGED <<lock, recorded, invalid>>

\* An index that is being built CONCURRENTLY when its statement fails or its
\* process ends stays, INVALID; any other statement that fails leaves nothing
\* (that is Stop).
FailStatement(p) ==
    /\ Unapplied(p)
    /\ boot[p].ran + 1 \in 1..At(p).size \cap At(p).concurrent
    /\ Pending(p) \notin effects \cup invalid
    /\ invalid' = invalid \cup {Pending(p)}
    /\ boot' = [boot EXCEPT ![p] = Down]
    /\ lock' = IF lock = p THEN None ELSE lock
    /\ UNCHANGED <<recorded, effects>>

RanAll(p) == boot[p].ran = At(p).size

\* The row, and with it the commit of a transactional file: the statements of
\* any other took effect as they ran.  The version is the table's primary key.
Record(p) ==
    LET f == At(p) IN
    /\ Unapplied(p)
    /\ RanAll(p)
    /\ IF f.version \in Versions(recorded)
       THEN Enters(p, "collided") /\ UNCHANGED <<recorded, effects>>
       ELSE /\ boot' = [boot EXCEPT ![p].next = @ + 1, ![p].ran = 0]
            /\ recorded' = recorded \cup {RowOf(f)}
            /\ effects' = IF f.noTransaction THEN effects
                          ELSE effects \cup Statements(f, boot[p].ran)
    /\ UNCHANGED <<lock, invalid>>

\* releaseLock: the unlock is not sent when the run's deadline has passed, and
\* the connection goes back to the pool with the lock.
ReleaseLock(p) ==
    /\ boot[p].phase = "applying"
    /\ boot[p].next > Len(Files[p])
    /\ Enters(p, "migrated")
    /\ lock' \in {lock, None}
    /\ UNCHANGED <<recorded, effects, invalid>>

\* The pool closes an idle connection, and the session's lock goes.
PoolCloses(p) ==
    /\ boot[p].phase \in {"migrated", "serving"}
    /\ lock = p
    /\ lock' = None
    /\ UNCHANGED <<recorded, effects, invalid, boot>>

\* The bucket is there and the routes are mounted.
Serve(p) ==
    /\ boot[p].phase = "migrated"
    /\ Enters(p, "serving")
    /\ UNCHANGED <<lock, recorded, effects, invalid>>

\* Every step of a boot is a call with a deadline: it answers or it fails.
BootStep(p) ==
    \/ TakeLock(p) \/ GiveUp(p)
    \/ ReadApplied(p)
    \/ Skip(p) \/ ChecksumMismatch(p)
    \/ RunStatement(p) \/ FailStatement(p) \/ Record(p)
    \/ ReleaseLock(p)
    \/ Serve(p)

MigratorNext ==
    \E p \in Processes : Start(p) \/ BootStep(p) \/ Stop(p) \/ PoolCloses(p)

MigratorSpec == MigratorInit /\ [][MigratorNext]_migratorVars

----------------------------------------------------------------------------

Booting(p) == boot[p].phase \notin {"down", "serving"}

\* The statements of a file that CREATE INDEX CONCURRENTLY.
Indexes(f) == {e \in Statements(f, f.size) : e.statement \in f.concurrent}

\* A process that serves has the schema its release was built for: each of its
\* files is recorded with the checksum it ships, and every statement of it has
\* taken effect, whoever ran it and wherever earlier boots died; what may be
\* missing is an index that was being built CONCURRENTLY, and then it is there
\* INVALID (migrate.go Migrate; main.go run serves only after it).
ServesItsSchema ==
    \A p \in Processes : boot[p].phase = "serving" =>
        \A i \in 1..Len(Files[p]) :
            LET f == Files[p][i] IN
            /\ RowOf(f) \in recorded
            /\ Statements(f, f.size) \subseteq effects \cup (invalid \cap Indexes(f))

\* A file schema_migrations lists is applied: each of its statements has taken
\* effect (migrate.go Migrate, "applies every unapplied file and answers the
\* versions it applied").  Not so where an index was left INVALID: see LedgerTold
\* in MigratorProofs for where it holds.
RecordedIsApplied ==
    \A p \in Processes : \A i \in 1..Len(Files[p]) :
        RowOf(Files[p][i]) \in recorded
            => Statements(Files[p][i], Files[p][i].size) \subseteq effects

\* No boot fails on its own migrations: neither a statement that has taken
\* effect already nor a version recorded already, however many processes boot
\* together and wherever earlier boots died (migrate.go apply, behind the lock).
BootsDoNotCollide == \A p \in Processes : boot[p].phase # "collided"

\* A boot comes to an end, serving or stopped, even while another process keeps
\* the advisory lock for as long as it serves (migrate.go lock_timeout, main.go
\* migrateTimeout).
EveryBootEnds == \A p \in Processes : Booting(p) ~> ~Booting(p)
=============================================================================
