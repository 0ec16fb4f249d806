------------------------------- MODULE Server -------------------------------
(***************************************************************************)
(* The processes of Migrator, and the operator panel's sign-in in those    *)
(* that have one (internal/admin/login.go).                                *)
(*                                                                         *)
(* The panel counts refusals in the memory of one process.  A sign-in      *)
(* reads the clock, looks at the lock-out, judges the passphrase and       *)
(* counts, each a step of its own; the form is read in between, for as     *)
(* long as the client takes to send it (here, any time at all).            *)
(***************************************************************************)
EXTENDS Migrator

CONSTANTS
    WithPanel,      \* processes with ADMIN_PASSWORD set
    Clients,        \* client keys
    Attempts,       \* sign-ins in flight at once
    MaxFailures, LockFor,
    MaxTime         \* bound: the clock

ASSUME PanelAssumption ==
    /\ WithPanel \subseteq Processes
    /\ IsFiniteSet(Attempts)
    /\ MaxFailures \in Nat \ {0}
    /\ LockFor \in Nat \ {0}
    /\ MaxTime \in Nat

VARIABLES
    now,
    n,          \* attempts.n: refusals by process and client
    until,      \* attempts.until: the end of the lock-out, 0 for no entry
    attempt     \* the sign-ins in flight

panelVars == <<now, n, until, attempt>>
vars == <<migratorVars, panelVars>>

SignIns == [step : {"came", "judged"}, at : WithPanel, client : Clients, now : Nat]

ASSUME NoneIsNoSignIn == None \notin SignIns

TypeOK ==
    /\ MigratorTypeOK
    /\ now \in Nat
    /\ n \in [WithPanel -> [Clients -> Nat]]
    /\ until \in [WithPanel -> [Clients -> Nat]]
    /\ attempt \in [Attempts -> SignIns \cup {None}]
    /\ \A p \in Processes : Booting(p) \/ boot[p].phase = "serving" \/ boot[p] = Down
    /\ \A q \in Attempts : attempt[q] # None => boot[attempt[q].at].phase = "serving"

Init ==
    /\ MigratorInit
    /\ now = 0
    /\ n = [p \in WithPanel |-> [c \in Clients |-> 0]]
    /\ until = [p \in WithPanel |-> [c \in Clients |-> 0]]
    /\ attempt = [q \in Attempts |-> None]

----------------------------------------------------------------------------

Post(q, p, c) ==
    /\ boot[p].phase = "serving"
    /\ attempt[q] = None
    /\ attempt' = [attempt EXCEPT ![q] =
           [step |-> "came", at |-> p, client |-> c, now |-> now]]
    /\ UNCHANGED <<migratorVars, now, n, until>>

Ends(q) == attempt' = [attempt EXCEPT ![q] = None]

\* Mutant: the count outlives the lock-out.
ForgetTheLock(p, c) ==
    /\ until' = [until EXCEPT ![p][c] = 0]
    /\ UNCHANGED n

\* locked, of an entry whose time has come, and clear.
Forget(p, c) ==
    /\ n' = [n EXCEPT ![p][c] = 0]
    /\ until' = [until EXCEPT ![p][c] = 0]

Locked(q) ==
    LET a == attempt[q] IN
    /\ a # None /\ a.step = "came"
    /\ IF a.now < until[a.at][a.client]
       THEN Ends(q) /\ UNCHANGED <<n, until>>
       ELSE /\ attempt' = [attempt EXCEPT ![q].step = "judged"]
            /\ IF until[a.at][a.client] = 0
               THEN UNCHANGED <<n, until>>
               ELSE Forget(a.at, a.client)
    /\ UNCHANGED <<migratorVars, now>>

Judged(q) == attempt[q] # None /\ attempt[q].step = "judged"

Reached(count) == count >= MaxFailures

\* The passphrase is wrong: fail, with the clock as it was read on arrival.
Fail(q) ==
    LET a == attempt[q]
        count == n[a.at][a.client] + 1
    IN
    /\ Judged(q)
    /\ n' = [n EXCEPT ![a.at][a.client] = count]
    /\ until' = IF Reached(count)
                THEN [until EXCEPT ![a.at][a.client] = a.now + LockFor]
                ELSE until
    /\ Ends(q)
    /\ UNCHANGED <<migratorVars, now>>

\* The passphrase is right.
SignedIn(q) ==
    /\ Judged(q)
    /\ Forget(attempt[q].at, attempt[q].client)
    /\ Ends(q)
    /\ UNCHANGED <<migratorVars, now>>

\* The form does not parse, or no session can be minted.
Abandon(q) ==
    /\ Judged(q)
    /\ Ends(q)
    /\ UNCHANGED <<migratorVars, now, n, until>>

Tick ==
    /\ now < MaxTime
    /\ now' = now + 1
    /\ UNCHANGED <<migratorVars, n, until, attempt>>

\* A step of a process other than its end leaves its memory alone.
Runs(p) ==
    /\ Start(p) \/ BootStep(p) \/ PoolCloses(p)
    /\ UNCHANGED panelVars

\* The counters and the sign-ins in flight are the process's.
Exit(p) ==
    /\ Stop(p)
    /\ n' = [s \in WithPanel |-> IF s = p THEN [c \in Clients |-> 0] ELSE n[s]]
    /\ until' = [s \in WithPanel |-> IF s = p THEN [c \in Clients |-> 0] ELSE until[s]]
    /\ attempt' = [q \in Attempts |->
           IF attempt[q] # None /\ attempt[q].at = p THEN None ELSE attempt[q]]
    /\ UNCHANGED now

SignInStep(q) ==
    \/ \E p \in WithPanel, c \in Clients : Post(q, p, c)
    \/ Locked(q)
    \/ Fail(q) \/ SignedIn(q) \/ Abandon(q)

Next ==
    \/ \E p \in Processes : Runs(p) \/ Exit(p)
    \/ \E q \in Attempts : SignInStep(q)
    \/ Tick

\* Every call a boot makes has a deadline of its own.
Fairness == \A p \in Processes : WF_vars(BootStep(p) /\ UNCHANGED panelVars)

Spec == Init /\ [][Next]_vars /\ Fairness

----------------------------------------------------------------------------

\* However the checks and the counts of concurrent sign-ins interleave, and
\* whatever the clock each of them carries, a client at the ceiling has a
\* lock-out set (though a late count with an old clock may set it to a moment
\* already past), and it is past the ceiling by fewer refusals than there are
\* sign-ins in flight (login.go locked, fail, clear).
FailuresBounded ==
    \A p \in WithPanel, c \in Clients :
        /\ n[p][c] >= MaxFailures => until[p][c] # 0
        /\ n[p][c] < MaxFailures + Cardinality(Attempts)
=============================================================================
