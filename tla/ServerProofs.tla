---------------------------- MODULE ServerProofs ----------------------------
(***************************************************************************)
(* Processes that boot, serve, sign operators in and stop, for any number  *)
(* of them, of clients and of sign-ins in flight.                          *)
(***************************************************************************)
EXTENDS Server, MigratorProofs, FiniteSetTheorems

\* Sign-ins that passed the lock-out's check and are not counted yet.
Uncounted(p, c) ==
    {q \in Attempts : attempt[q] # None /\ attempt[q].step = "judged"
                      /\ attempt[q].at = p /\ attempt[q].client = c}

\* While there is a lock-out nothing new passes the check, so what was in
\* flight when it began is all that can still be counted.
Room ==
    \A p \in WithPanel, c \in Clients :
        IF until[p][c] = 0
        THEN n[p][c] < MaxFailures
        ELSE n[p][c] + Cardinality(Uncounted(p, c)) < MaxFailures + Cardinality(Attempts)

\* The inductive invariant.
Inv == TypeOK /\ Room

LEMMA Amounts ==
    /\ WithPanel \subseteq Processes
    /\ IsFiniteSet(Attempts) /\ Cardinality(Attempts) \in Nat
    /\ MaxFailures \in Nat \ {0} /\ LockFor \in Nat \ {0} /\ MaxTime \in Nat
BY PanelAssumption, FS_CardinalityType

LEMMA UncountedFinite ==
    \A p \in WithPanel, c \in Clients :
        /\ IsFiniteSet(Uncounted(p, c)) /\ Cardinality(Uncounted(p, c)) \in Nat
        /\ Cardinality(Uncounted(p, c)) <= Cardinality(Attempts)
<1> TAKE p \in WithPanel, c \in Clients
<1>1. Uncounted(p, c) \subseteq Attempts BY DEF Uncounted
<1> QED BY <1>1, Amounts, FS_Subset, FS_CardinalityType

LEMMA ServerInits == Init => Inv
<1> SUFFICES ASSUME Init PROVE Inv OBVIOUS
<1>1. MigratorTypeOK BY Inits DEF Init, MigratorInv
<1>2. TypeOK BY <1>1, Amounts DEF Init, TypeOK, MigratorInit
<1>3. Room BY Amounts DEF Init, Room
<1> QED BY <1>2, <1>3 DEF Inv

\* A step of the server is a step of the migrator, or none.
LEMMA ServerMigrates == [Next]_vars => [MigratorNext]_migratorVars
<1> SUFFICES ASSUME [Next]_vars PROVE [MigratorNext]_migratorVars OBVIOUS
<1>1. CASE UNCHANGED vars BY <1>1 DEF vars
<1>2. ASSUME NEW p \in Processes, Runs(p) \/ Exit(p) PROVE MigratorNext
  BY <1>2 DEF Runs, Exit, MigratorNext
<1>3. ASSUME NEW q \in Attempts, SignInStep(q) PROVE UNCHANGED migratorVars
  BY <1>3 DEF SignInStep, Post, Locked, Fail, SignedIn, Abandon
<1>4. CASE Tick BY <1>4 DEF Tick
<1> QED BY <1>1, <1>2, <1>3, <1>4 DEF Next

THEOREM MigratorInside == Spec => MigratorSpec
<1>1. Init => MigratorInit BY DEF Init
<1> QED BY <1>1, ServerMigrates, PTL DEF Spec, MigratorSpec

----------------------------------------------------------------------------
\* The processes.

\* Only its own end takes a process out of service.
LEMMA RunsTypes ==
    ASSUME Inv, MigratorTypeOK', NEW p \in Processes, Runs(p) PROVE TypeOK'
<1>1. boot \in [Processes -> Boots] /\ boot' \in [Processes -> Boots]
  BY DEF Inv, TypeOK, MigratorTypeOK
<1>2. UNCHANGED panelVars BY DEF Runs
<1>3. \A s \in Processes : s # p => boot'[s] = boot[s]
  BY <1>1 DEF Runs, Start, BootStep, PoolCloses, TakeLock, GiveUp, ReadApplied, Skip,
      ChecksumMismatch, Stop, RunStatement, FailStatement, Record, ReleaseLock, Serve, Enters
<1>4. boot[p].phase = "serving" => boot'[p] = boot[p]
  BY <1>1 DEF Runs, Start, BootStep, PoolCloses, TakeLock, GiveUp, ReadApplied, Skip,
      ChecksumMismatch, Stop, RunStatement, FailStatement, Record, ReleaseLock, Serve, Enters, Unapplied, AtFile
<1>5. boot'[p].phase = "down" => boot'[p] = Down
  <2>1. boot[p].phase = "down" => boot[p] = Down BY DEF Inv, TypeOK, Booting
  <2>2. CASE Start(p) BY <2>2, <1>1 DEF Start, Enters, Boots
  <2>3. CASE TakeLock(p) BY <2>3, <1>1 DEF TakeLock, Enters, Boots
  <2>4. CASE GiveUp(p) BY <2>4, <1>1 DEF GiveUp
  <2>5. CASE ReadApplied(p) BY <2>5, <1>1 DEF ReadApplied, Boots
  <2>6. CASE Skip(p) BY <2>6, <1>1 DEF Skip, AtFile, Boots
  <2>7. CASE ChecksumMismatch(p) BY <2>7, <1>1 DEF ChecksumMismatch, Stop
  <2>8. CASE RunStatement(p) BY <2>8, <1>1 DEF RunStatement, Unapplied, AtFile, Enters, Boots
  <2>13. CASE FailStatement(p) BY <2>13, <1>1 DEF FailStatement
  <2>9. CASE Record(p) BY <2>9, <1>1 DEF Record, Unapplied, AtFile, Enters, Boots
  <2>10. CASE ReleaseLock(p) BY <2>10, <1>1 DEF ReleaseLock, Enters, Boots
  <2>11. CASE Serve(p) BY <2>11, <1>1 DEF Serve, Enters, Boots
  <2>12. CASE PoolCloses(p) BY <2>12, <2>1 DEF PoolCloses
  <2> QED BY <2>2, <2>3, <2>4, <2>5, <2>6, <2>7, <2>8, <2>9, <2>10, <2>11, <2>12,
          <2>13 DEF Runs, BootStep
<1>6. \A s \in Processes : Booting(s)' \/ boot'[s].phase = "serving" \/ boot'[s] = Down
  BY <1>3, <1>5 DEF Booting, Inv, TypeOK
<1>7. \A q \in Attempts : attempt'[q] # None => boot'[attempt'[q].at].phase = "serving"
  <2> SUFFICES ASSUME NEW q \in Attempts, attempt[q] # None
               PROVE  boot'[attempt[q].at].phase = "serving"
    BY <1>2 DEF panelVars
  <2>1. attempt[q] \in SignIns /\ boot[attempt[q].at].phase = "serving" BY DEF Inv, TypeOK
  <2>2. attempt[q].at \in Processes BY <2>1, Amounts DEF SignIns
  <2> QED BY <2>1, <2>2, <1>3, <1>4
<1>8. /\ now' \in Nat /\ n' \in [WithPanel -> [Clients -> Nat]]
      /\ until' \in [WithPanel -> [Clients -> Nat]]
      /\ attempt' \in [Attempts -> SignIns \cup {None}]
  BY <1>2 DEF panelVars, Inv, TypeOK
<1> QED BY <1>6, <1>7, <1>8 DEF TypeOK

LEMMA RunsOK ==
    ASSUME Inv, MigratorTypeOK', NEW p \in Processes, Runs(p) PROVE Inv'
<1>1. TypeOK' BY RunsTypes
<1>2. Room' BY DEF Runs, panelVars, Inv, Room, Uncounted
<1> QED BY <1>1, <1>2 DEF Inv

LEMMA ExitOK ==
    ASSUME Inv, MigratorTypeOK', NEW p \in Processes, Exit(p) PROVE Inv'
<1>1. boot' = [boot EXCEPT ![p] = Down] /\ boot \in [Processes -> Boots]
  BY DEF Exit, Stop, Inv, TypeOK, MigratorTypeOK
<1>2. \A q \in Attempts :
          attempt'[q] = IF attempt[q] # None /\ attempt[q].at = p THEN None ELSE attempt[q]
  BY DEF Exit
<1>3. TypeOK'
  <2>1. \A s \in Processes : Booting(s)' \/ boot'[s].phase = "serving" \/ boot'[s] = Down
    BY <1>1 DEF Booting, Inv, TypeOK
  <2>2. \A q \in Attempts : attempt'[q] # None => boot'[attempt'[q].at].phase = "serving"
    <3> SUFFICES ASSUME NEW q \in Attempts, attempt'[q] # None
                 PROVE  boot'[attempt'[q].at].phase = "serving"
      OBVIOUS
    <3>1. attempt'[q] = attempt[q] /\ attempt[q] # None /\ attempt[q].at # p BY <1>2
    <3>2. attempt[q] \in SignIns /\ boot[attempt[q].at].phase = "serving"
      BY <3>1 DEF Inv, TypeOK
    <3>3. attempt[q].at \in Processes BY <3>2, Amounts DEF SignIns
    <3> QED BY <3>1, <3>2, <3>3, <1>1
  <2>3. attempt' \in [Attempts -> SignIns \cup {None}] BY DEF Exit, Inv, TypeOK
  <2>4. /\ now' \in Nat /\ n' \in [WithPanel -> [Clients -> Nat]]
        /\ until' \in [WithPanel -> [Clients -> Nat]]
    BY DEF Exit, Inv, TypeOK
  <2> QED BY <2>1, <2>2, <2>3, <2>4 DEF TypeOK
<1>4. Room'
  <2> SUFFICES ASSUME NEW s \in WithPanel, NEW c \in Clients
               PROVE  IF until'[s][c] = 0
                      THEN n'[s][c] < MaxFailures
                      ELSE n'[s][c] + Cardinality(Uncounted(s, c)')
                               < MaxFailures + Cardinality(Attempts)
    BY DEF Room
  <2>1. CASE s = p BY <2>1, Amounts DEF Exit
  <2>2. CASE s # p
    <3>1. n'[s] = n[s] /\ until'[s] = until[s] BY <2>2 DEF Exit
    <3>2. Uncounted(s, c)' = Uncounted(s, c) BY <2>2, <1>2 DEF Uncounted
    <3> QED BY <3>1, <3>2 DEF Inv, Room
  <2> QED BY <2>1, <2>2
<1> QED BY <1>3, <1>4 DEF Inv

----------------------------------------------------------------------------
\* The sign-ins.

\* A sign-in changes the boot of no process.
LEMMA SignInTypes ==
    ASSUME Inv, NEW q \in Attempts, UNCHANGED migratorVars, now' = now,
           n' \in [WithPanel -> [Clients -> Nat]],
           until' \in [WithPanel -> [Clients -> Nat]],
           NEW a \in SignIns \cup {None}, attempt' = [attempt EXCEPT ![q] = a],
           a # None => boot[a.at].phase = "serving"
    PROVE  TypeOK'
<1>1. MigratorTypeOK' BY DEF Inv, TypeOK, MigratorTypeOK, migratorVars
<1>2. boot' = boot BY DEF migratorVars
<1>3. \A r \in Attempts : attempt'[r] = IF r = q THEN a ELSE attempt[r]
  BY DEF Inv, TypeOK
<1>4. attempt' \in [Attempts -> SignIns \cup {None}] BY DEF Inv, TypeOK
<1>5. \A r \in Attempts : attempt'[r] # None => boot'[attempt'[r].at].phase = "serving"
  BY <1>2, <1>3 DEF Inv, TypeOK
<1> QED BY <1>1, <1>2, <1>4, <1>5 DEF Inv, TypeOK, Booting

LEMMA PostOK ==
    ASSUME Inv, NEW q \in Attempts, NEW p \in WithPanel, NEW c \in Clients, Post(q, p, c)
    PROVE  Inv'
<1> DEFINE a == [step |-> "came", at |-> p, client |-> c, now |-> now]
<1>1. a \in SignIns /\ a.at = p /\ a.step = "came" BY DEF SignIns, Inv, TypeOK
<1>2. attempt' = [attempt EXCEPT ![q] = a] /\ attempt[q] = None BY DEF Post
<1>3. UNCHANGED <<migratorVars, now, n, until>> /\ boot[p].phase = "serving" BY DEF Post
<1> HIDE DEF a
<1>4. TypeOK' BY <1>1, <1>2, <1>3, SignInTypes DEF Inv, TypeOK
<1>5. \A r \in Attempts : attempt'[r] = IF r = q THEN a ELSE attempt[r]
  BY <1>2 DEF Inv, TypeOK
<1>6. \A s \in WithPanel, d \in Clients : Uncounted(s, d)' = Uncounted(s, d)
  BY <1>1, <1>2, <1>5 DEF Uncounted
<1>7. Room' BY <1>3, <1>6 DEF Inv, Room
<1> QED BY <1>4, <1>7 DEF Inv

LEMMA ForgetTypes ==
    ASSUME TypeOK, NEW p \in WithPanel, NEW c \in Clients, Forget(p, c)
    PROVE  /\ n' \in [WithPanel -> [Clients -> Nat]]
           /\ until' \in [WithPanel -> [Clients -> Nat]]
           /\ n'[p][c] = 0 /\ until'[p][c] = 0
           /\ \A s \in WithPanel, d \in Clients : s # p \/ d # c =>
                  n'[s][d] = n[s][d] /\ until'[s][d] = until[s][d]
BY DEF TypeOK, Forget

LEMMA LockedOK == ASSUME Inv, NEW q \in Attempts, Locked(q) PROVE Inv'
<1> DEFINE a == attempt[q]
           p == a.at
           c == a.client
           b == [a EXCEPT !.step = "judged"]
<1>1. /\ a \in SignIns /\ a # None /\ a.step = "came" /\ p \in WithPanel /\ c \in Clients
      /\ boot[p].phase = "serving"
  BY DEF Locked, Inv, TypeOK, SignIns
<1>2. b \in SignIns /\ b.step = "judged" /\ b.at = p /\ b.client = c BY <1>1 DEF SignIns
<1>3. UNCHANGED <<migratorVars, now>> BY DEF Locked
<1>4. /\ n \in [WithPanel -> [Clients -> Nat]] /\ until \in [WithPanel -> [Clients -> Nat]]
      /\ attempt \in [Attempts -> SignIns \cup {None}] /\ TypeOK /\ Room
  BY DEF Inv, TypeOK
<1>5. CASE a.now < until[p][c]
  <2>1. attempt' = [attempt EXCEPT ![q] = None] /\ UNCHANGED <<n, until>>
    BY <1>5 DEF Locked, Ends
  <2>2. TypeOK' BY <2>1, <1>3, <1>4, SignInTypes
  <2>3. \A s \in WithPanel, d \in Clients : Uncounted(s, d)' = Uncounted(s, d)
    BY <2>1, <1>1, <1>4 DEF Uncounted
  <2>4. Room' BY <2>1, <2>3, <1>4 DEF Room
  <2> QED BY <2>2, <2>4 DEF Inv
<1>6. CASE ~(a.now < until[p][c])
  <2>1. /\ attempt' = [attempt EXCEPT ![q] = b]
        /\ IF until[p][c] = 0 THEN UNCHANGED <<n, until>> ELSE Forget(p, c)
    BY <1>4, <1>6 DEF Locked
  <2> HIDE DEF b
  <2>2. \A s \in WithPanel, d \in Clients : s # p \/ d # c =>
            Uncounted(s, d)' = Uncounted(s, d)
    BY <2>1, <1>1, <1>2, <1>4 DEF Uncounted
  <2>3. /\ n' \in [WithPanel -> [Clients -> Nat]]
        /\ until' \in [WithPanel -> [Clients -> Nat]]
        /\ until'[p][c] = 0 /\ n'[p][c] < MaxFailures
        /\ \A s \in WithPanel, d \in Clients : s # p \/ d # c =>
               n'[s][d] = n[s][d] /\ until'[s][d] = until[s][d]
    <3>1. CASE until[p][c] = 0 BY <3>1, <2>1, <1>1, <1>4 DEF Room
    <3>2. CASE until[p][c] # 0 BY <3>2, <2>1, <1>1, <1>4, ForgetTypes, Amounts
    <3> QED BY <3>1, <3>2
  <2>4. TypeOK'
    <3>1. b # None => boot[b.at].phase = "serving" BY <1>1, <1>2
    <3> QED BY <3>1, <2>1, <2>3, <1>2, <1>3, SignInTypes
  <2>5. Room'
    <3> SUFFICES ASSUME NEW s \in WithPanel, NEW d \in Clients
                 PROVE  IF until'[s][d] = 0
                        THEN n'[s][d] < MaxFailures
                        ELSE n'[s][d] + Cardinality(Uncounted(s, d)')
                                 < MaxFailures + Cardinality(Attempts)
      BY DEF Room
    <3>1. CASE s = p /\ d = c BY <3>1, <2>3
    <3>2. CASE s # p \/ d # c BY <3>2, <2>2, <2>3, <1>4 DEF Room
    <3> QED BY <3>1, <3>2
  <2> QED BY <2>4, <2>5 DEF Inv
<1> QED BY <1>5, <1>6

\* A sign-in that ends after the check leaves the uncounted ones.
LEMMA EndedUncounted ==
    ASSUME Inv, NEW q \in Attempts, Judged(q), Ends(q)
    PROVE  /\ attempt[q] \in SignIns
           /\ attempt[q].at \in WithPanel /\ attempt[q].client \in Clients
           /\ \A s \in WithPanel, d \in Clients :
                  IF s = attempt[q].at /\ d = attempt[q].client
                  THEN Cardinality(Uncounted(s, d)') + 1 = Cardinality(Uncounted(s, d))
                  ELSE Uncounted(s, d)' = Uncounted(s, d)
<1>1. /\ attempt[q] \in SignIns
      /\ attempt[q].at \in WithPanel /\ attempt[q].client \in Clients
  BY DEF Judged, Inv, TypeOK, SignIns
<1>2. \A r \in Attempts : attempt'[r] = IF r = q THEN None ELSE attempt[r]
  BY DEF Ends, Inv, TypeOK
<1>3. ASSUME NEW s \in WithPanel, NEW d \in Clients,
             s = attempt[q].at /\ d = attempt[q].client
      PROVE  Cardinality(Uncounted(s, d)') + 1 = Cardinality(Uncounted(s, d))
  <2>1. Uncounted(s, d)' = Uncounted(s, d) \ {q} BY <1>2 DEF Uncounted
  <2>2. q \in Uncounted(s, d) BY <1>3 DEF Uncounted, Judged
  <2>3. Cardinality(Uncounted(s, d) \ {q}) = Cardinality(Uncounted(s, d)) - 1
    BY <2>2, UncountedFinite, FS_RemoveElement
  <2>4. Cardinality(Uncounted(s, d)) \in Nat BY UncountedFinite
  <2>5. Cardinality(Uncounted(s, d)') = Cardinality(Uncounted(s, d)) - 1 BY <2>1, <2>3
  <2> QED BY <2>4, <2>5
<1>4. ASSUME NEW s \in WithPanel, NEW d \in Clients,
             ~(s = attempt[q].at /\ d = attempt[q].client)
      PROVE  Uncounted(s, d)' = Uncounted(s, d)
  BY <1>2, <1>4 DEF Uncounted
<1> QED BY <1>1, <1>3, <1>4

LEMMA AbandonOK == ASSUME Inv, NEW q \in Attempts, Abandon(q) PROVE Inv'
<1>1. Judged(q) /\ Ends(q) /\ UNCHANGED <<migratorVars, now, n, until>> BY DEF Abandon
<1>2. TypeOK' BY <1>1, SignInTypes DEF Ends, Inv, TypeOK
<1>3. Room'
  <2> SUFFICES ASSUME NEW s \in WithPanel, NEW d \in Clients
               PROVE  IF until[s][d] = 0
                      THEN n[s][d] < MaxFailures
                      ELSE n[s][d] + Cardinality(Uncounted(s, d)')
                               < MaxFailures + Cardinality(Attempts)
    BY <1>1 DEF Room
  <2>1. n[s][d] \in Nat /\ Cardinality(Uncounted(s, d)) \in Nat
    BY UncountedFinite DEF Inv, TypeOK
  <2>2. \/ Uncounted(s, d)' = Uncounted(s, d)
        \/ Cardinality(Uncounted(s, d)') + 1 = Cardinality(Uncounted(s, d))
    BY <1>1, EndedUncounted
  <2>3. Uncounted(s, d)' \subseteq Attempts BY DEF Uncounted
  <2>4. Cardinality(Uncounted(s, d)') \in Nat
    BY <2>3, Amounts, FS_Subset, FS_CardinalityType
  <2>5. Cardinality(Uncounted(s, d)') <= Cardinality(Uncounted(s, d)) BY <2>1, <2>2, <2>4
  <2> QED BY <2>1, <2>4, <2>5, Amounts DEF Inv, Room
<1> QED BY <1>2, <1>3 DEF Inv

LEMMA SignedInOK == ASSUME Inv, NEW q \in Attempts, SignedIn(q) PROVE Inv'
<1> DEFINE p == attempt[q].at
           c == attempt[q].client
<1>1. Judged(q) /\ Ends(q) /\ Forget(p, c) /\ UNCHANGED <<migratorVars, now>>
  BY DEF SignedIn
<1>2. p \in WithPanel /\ c \in Clients BY <1>1, EndedUncounted
<1>3. /\ n' \in [WithPanel -> [Clients -> Nat]]
      /\ until' \in [WithPanel -> [Clients -> Nat]]
      /\ n'[p][c] = 0 /\ until'[p][c] = 0
      /\ \A s \in WithPanel, d \in Clients : s # p \/ d # c =>
             n'[s][d] = n[s][d] /\ until'[s][d] = until[s][d]
  BY <1>1, <1>2, ForgetTypes DEF Inv
<1>4. TypeOK' BY <1>1, <1>3, SignInTypes DEF Ends
<1>5. Room'
  <2> SUFFICES ASSUME NEW s \in WithPanel, NEW d \in Clients
               PROVE  IF until'[s][d] = 0
                      THEN n'[s][d] < MaxFailures
                      ELSE n'[s][d] + Cardinality(Uncounted(s, d)')
                               < MaxFailures + Cardinality(Attempts)
    BY DEF Room
  <2>1. CASE s = p /\ d = c BY <2>1, <1>3, Amounts
  <2>2. CASE s # p \/ d # c
    <3>1. Uncounted(s, d)' = Uncounted(s, d) BY <2>2, <1>1, EndedUncounted
    <3> QED BY <2>2, <3>1, <1>3 DEF Inv, Room
  <2> QED BY <2>1, <2>2
<1> QED BY <1>4, <1>5 DEF Inv

LEMMA FailOK == ASSUME Inv, NEW q \in Attempts, Fail(q) PROVE Inv'
<1>0. PICK p \in WithPanel, c \in Clients : attempt[q].at = p /\ attempt[q].client = c
  BY EndedUncounted DEF Fail
<1> DEFINE a == attempt[q]
           count == n[p][c] + 1
<1>1. /\ Judged(q) /\ Ends(q) /\ UNCHANGED <<migratorVars, now>>
      /\ n' = [n EXCEPT ![p][c] = count]
      /\ until' = IF count >= MaxFailures
                  THEN [until EXCEPT ![p][c] = a.now + LockFor]
                  ELSE until
  BY <1>0 DEF Fail, Reached
<1>2. a \in SignIns BY <1>1, EndedUncounted
<1>3. /\ n \in [WithPanel -> [Clients -> Nat]] /\ until \in [WithPanel -> [Clients -> Nat]]
  BY DEF Inv, TypeOK
<1>4. count \in Nat /\ a.now + LockFor \in Nat \ {0} BY <1>2, <1>3, Amounts DEF SignIns
<1> HIDE DEF count
<1>5. /\ n' \in [WithPanel -> [Clients -> Nat]]
      /\ until' \in [WithPanel -> [Clients -> Nat]]
  BY <1>1, <1>2, <1>3, <1>4
<1>6. /\ n'[p][c] = count
      /\ \A s \in WithPanel, d \in Clients : s # p \/ d # c =>
             n'[s][d] = n[s][d] /\ until'[s][d] = until[s][d]
  BY <1>1, <1>2, <1>3, <1>4
<1>7. until'[p][c] = IF count >= MaxFailures THEN a.now + LockFor ELSE until[p][c]
  BY <1>1, <1>2, <1>3, <1>4
<1>8. TypeOK' BY <1>1, <1>5, SignInTypes DEF Ends
<1>9. Room'
  <2> SUFFICES ASSUME NEW s \in WithPanel, NEW d \in Clients
               PROVE  IF until'[s][d] = 0
                      THEN n'[s][d] < MaxFailures
                      ELSE n'[s][d] + Cardinality(Uncounted(s, d)')
                               < MaxFailures + Cardinality(Attempts)
    BY DEF Room
  <2>1. CASE s # p \/ d # c
    <3>1. Uncounted(s, d)' = Uncounted(s, d) BY <2>1, <1>0, <1>1, EndedUncounted
    <3> QED BY <2>1, <3>1, <1>6 DEF Inv, Room
  <2>2. CASE s = p /\ d = c
    <3> DEFINE before == Cardinality(Uncounted(p, c))
               after == Cardinality(Uncounted(p, c)')
               all == Cardinality(Attempts)
    <3>1. after + 1 = before BY <1>0, <1>1, EndedUncounted
    <3>2. before \in Nat /\ before <= all /\ all \in Nat BY UncountedFinite, Amounts
    <3>3. Uncounted(p, c)' \subseteq Attempts BY DEF Uncounted
    <3>4. after \in Nat BY <3>3, Amounts, FS_Subset, FS_CardinalityType
    <3>5. count = n[p][c] + 1 /\ n[p][c] \in Nat BY <1>2, <1>3 DEF count
    <3>6. until[p][c] # 0 => n[p][c] + before < MaxFailures + all
      BY <1>2 DEF Inv, Room
    <3>7. until[p][c] = 0 => n[p][c] < MaxFailures BY <1>2 DEF Inv, Room
    <3> HIDE DEF before, after, all
    <3>8. IF until'[p][c] = 0 THEN count < MaxFailures ELSE count + after < MaxFailures + all
      <4>1. CASE count >= MaxFailures
        <5>1. until'[p][c] # 0 BY <4>1, <1>4, <1>7
        <5>2. count + after < MaxFailures + all
          BY <3>1, <3>2, <3>4, <3>5, <3>6, <3>7, Amounts
        <5> QED BY <5>1, <5>2
      <4>2. CASE ~(count >= MaxFailures)
        <5>1. until'[p][c] = until[p][c] BY <4>2, <1>7
        <5>2. count < MaxFailures BY <4>2, <1>4, Amounts
        <5>3. count + after < MaxFailures + all BY <5>2, <3>1, <3>2, <3>4, <1>4, Amounts
        <5> QED BY <5>2, <5>3
      <4> QED BY <4>1, <4>2
    <3> QED BY <2>2, <3>8, <1>6 DEF after, all
  <2> QED BY <2>1, <2>2
<1> QED BY <1>8, <1>9 DEF Inv

LEMMA TickOK == ASSUME Inv, Tick PROVE Inv'
<1>1. TypeOK' BY Amounts DEF Tick, Inv, TypeOK, MigratorTypeOK, migratorVars, Booting
<1>2. Room' BY DEF Tick, Inv, Room, Uncounted
<1> QED BY <1>1, <1>2 DEF Inv

LEMMA ServerKeeps == Inv /\ MigratorTypeOK' /\ [Next]_vars => Inv'
<1> SUFFICES ASSUME Inv, MigratorTypeOK', [Next]_vars PROVE Inv' OBVIOUS
<1>1. CASE UNCHANGED vars
  BY <1>1 DEF vars, panelVars, migratorVars, Inv, TypeOK, MigratorTypeOK, Booting, Room, Uncounted
<1>2. ASSUME NEW p \in Processes, Runs(p) \/ Exit(p) PROVE Inv' BY <1>2, RunsOK, ExitOK
<1>3. ASSUME NEW q \in Attempts, SignInStep(q) PROVE Inv'
  BY <1>3, PostOK, LockedOK, FailOK, SignedInOK, AbandonOK DEF SignInStep
<1>4. CASE Tick BY <1>4, TickOK
<1> QED BY <1>1, <1>2, <1>3, <1>4 DEF Next

----------------------------------------------------------------------------

\* The invariant holds of every behaviour of the server.
THEOREM Invariance == Spec => []Inv
<1>1. Spec => []MigratorInv BY MigratorInside, MigratorInvariance, PTL
<1>2. MigratorInv => MigratorTypeOK BY DEF MigratorInv
<1> QED BY <1>1, <1>2, ServerInits, ServerKeeps, PTL DEF Spec

\* For any number of clients and sign-ins in flight: a client at the ceiling has
\* a lock-out set, and is past it by no more than what was in flight (login.go).
THEOREM Lockout == Spec => []FailuresBounded
<1>1. Inv => FailuresBounded
  <2> SUFFICES ASSUME Inv, NEW p \in WithPanel, NEW c \in Clients
               PROVE  /\ n[p][c] >= MaxFailures => until[p][c] # 0
                      /\ n[p][c] < MaxFailures + Cardinality(Attempts)
    BY DEF FailuresBounded
  <2>1. n[p][c] \in Nat /\ Cardinality(Uncounted(p, c)) \in Nat
    BY UncountedFinite DEF Inv, TypeOK
  <2>2. /\ until[p][c] = 0 => n[p][c] < MaxFailures
        /\ until[p][c] # 0 =>
               n[p][c] + Cardinality(Uncounted(p, c)) < MaxFailures + Cardinality(Attempts)
    BY DEF Inv, Room
  <2> QED BY <2>1, <2>2, Amounts
<1> QED BY <1>1, Invariance, PTL

\* What the migrator promises, it promises inside the server that signs
\* operators in and restarts: its release's schema, but for indexes that stand
\* INVALID (main.go run).
THEOREM ServedSchema == Spec => []ServesItsSchema
BY MigratorInside, SchemaServed, PTL

\* No boot of the server fails on a migration that is there already.
THEOREM ServedWithoutCollision == Spec => []BootsDoNotCollide
BY MigratorInside, NoBootCollides, PTL
=============================================================================
