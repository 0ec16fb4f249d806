--------------------------- MODULE MigratorProofs ---------------------------
(***************************************************************************)
(* The migrator for any processes and any releases.                        *)
(***************************************************************************)
EXTENDS Migrator, TLAPS

\* One run at a time: whoever reads or writes schema_migrations has the lock.
MutualExclusion ==
    \A p \in Processes : boot[p].phase \in {"locked", "applying"} => lock = p

\* The map read under the lock misses only what this run has recorded since.
Snapshot ==
    \A p \in Processes : boot[p].phase = "applying" =>
        /\ boot[p].next \in Nat \ {0}
        /\ boot[p].applied \subseteq recorded
        /\ \A r \in recorded \ boot[p].applied :
               \E i \in 1..Len(Files[p]) :
                   i < boot[p].next /\ Files[p][i].version = r.version

\* A file that was passed is recorded as it is shipped.
Passed ==
    \A p \in Processes : \A i \in 1..Len(Files[p]) :
        \/ boot[p].phase = "applying" /\ i < boot[p].next
        \/ boot[p].phase \in {"migrated", "serving"}
        => RowOf(Files[p][i]) \in recorded

\* Some release builds this index CONCURRENTLY.
Concurrent(e) ==
    \E p \in Processes : \E i \in 1..Len(Files[p]) :
        /\ e.version = Files[p][i].version /\ e.sum = Files[p][i].sum
        /\ e.statement \in Files[p][i].concurrent

\* What is INVALID is such an index.
Broken == \A e \in invalid : Concurrent(e)

\* The statements a run has passed are of the file at hand; if it has no
\* transaction they are there, or stand INVALID.
Done ==
    \A p \in Processes : boot[p].phase = "applying" /\ boot[p].ran # 0 =>
        /\ Unapplied(p)
        /\ At(p).noTransaction => Statements(At(p), boot[p].ran) \subseteq effects \cup invalid

\* A row stands for the whole of its file, but for what is INVALID.
Whole ==
    \A p \in Processes : \A i \in 1..Len(Files[p]) :
        RowOf(Files[p][i]) \in recorded
            => Statements(Files[p][i], Files[p][i].size) \subseteq effects \cup invalid

\* A transactional file that is not recorded has left nothing behind.
AllOrNothing ==
    \A p \in Processes : \A i \in 1..Len(Files[p]) : \A e \in effects :
        /\ ~Files[p][i].noTransaction
        /\ e.version = Files[p][i].version
        /\ e.sum = Files[p][i].sum
        => RowOf(Files[p][i]) \in recorded

\* A process that is not under way is as it was before its first boot.
Fresh == \A p \in Processes :
             boot[p].phase \in {"down", "waiting", "locked"} =>
                 boot[p].next = 1 /\ boot[p].ran = 0

\* The inductive invariant.
MigratorInv ==
    /\ MigratorTypeOK
    /\ BootsDoNotCollide
    /\ MutualExclusion
    /\ Snapshot
    /\ Passed
    /\ Broken
    /\ Done
    /\ Whole
    /\ AllOrNothing
    /\ Fresh

USE DEF MigratorInv

LEMMA FileType ==
    ASSUME NEW p \in Processes, NEW i \in 1..Len(Files[p])
    PROVE  /\ Files[p][i] \in Migration
           /\ Files[p][i].version \in Nat /\ Files[p][i].sum \in STRING
           /\ Files[p][i].noTransaction \in BOOLEAN /\ Files[p][i].size \in Nat \ {0}
           /\ RowOf(Files[p][i]) \in Rows
           /\ \A k \in Nat : Statements(Files[p][i], k) \subseteq Effects
<1>1. Files[p] \in Seq(Migration) BY ReleaseAssumption
<1>2. Files[p][i] \in Migration BY <1>1
<1> QED BY <1>2 DEF Migration, RowOf, Rows, Statements, Effects

LEMMA LenType == \A p \in Processes : Len(Files[p]) \in Nat
BY ReleaseAssumption

\* The same row in two releases is the same file.
LEMMA SameFile ==
    ASSUME NEW p \in Processes, NEW i \in 1..Len(Files[p]),
           NEW q \in Processes, NEW j \in 1..Len(Files[q]),
           RowOf(Files[p][i]) = RowOf(Files[q][j])
    PROVE  Files[p][i] = Files[q][j]
<1>1. Files[p][i].version = Files[q][j].version /\ Files[p][i].sum = Files[q][j].sum
  BY DEF RowOf
<1> QED BY <1>1, ChecksumAssumption

LEMMA Inits == MigratorInit => MigratorInv
BY NoneIsNoProcess DEF MigratorInit, MigratorTypeOK, BootsDoNotCollide, MutualExclusion,
    Snapshot, Passed, Whole, AllOrNothing, Fresh, Broken, Done, Boots, Down, Rows, Effects, RowOf

\* Steps that change nothing in the database.
LEMMA Quiet ==
    ASSUME MigratorInv, NEW p \in Processes,
           recorded' = recorded, effects' = effects,
           invalid' \subseteq Effects, invalid \subseteq invalid',
           \A e \in invalid' : e \in invalid \/ Concurrent(e),
           lock' \in Processes \cup {None},
           NEW b \in Boots, boot' = [boot EXCEPT ![p] = b],
           b.phase # "collided",
           b.phase \in {"down", "waiting", "locked"} => b.next = 1 /\ b.ran = 0,
           b.phase \in {"locked", "applying"} => lock' = p,
           b.phase = "applying" =>
               /\ b.next \in Nat \ {0} /\ b.applied \subseteq recorded /\ b.ran = 0
               /\ \A r \in recorded \ b.applied : \E i \in 1..Len(Files[p]) :
                      i < b.next /\ Files[p][i].version = r.version,
           \A i \in 1..Len(Files[p]) :
               (b.phase = "applying" /\ i < b.next) \/ b.phase \in {"migrated", "serving"}
                   => RowOf(Files[p][i]) \in recorded,
           \A q \in Processes \ {p} : lock = q => lock' = q
    PROVE  MigratorInv'
<1>0. \A q \in Processes : boot'[q] = IF q = p THEN b ELSE boot[q]
  BY DEF MigratorTypeOK
<1>1. MigratorTypeOK' BY <1>0 DEF MigratorTypeOK
<1>2. BootsDoNotCollide' BY <1>0 DEF BootsDoNotCollide
<1>3. MutualExclusion' BY <1>0 DEF MutualExclusion
<1>4. Snapshot' BY <1>0 DEF Snapshot
<1>5. Passed' BY <1>0 DEF Passed
<1>6. Whole' BY DEF Whole
<1>7. AllOrNothing' BY DEF AllOrNothing
<1>8. Fresh' BY <1>0 DEF Fresh
<1>9. Broken' BY DEF Broken, Concurrent
<1>10. Done' BY <1>0 DEF Done, Unapplied, AtFile, At
<1> QED BY <1>1, <1>2, <1>3, <1>4, <1>5, <1>6, <1>7, <1>8, <1>9, <1>10

LEMMA StartOK == ASSUME MigratorInv, NEW p \in Processes, Start(p) PROVE MigratorInv'
<1> DEFINE b == [boot[p] EXCEPT !.phase = "waiting"]
<1>1. b \in Boots /\ b.phase = "waiting" /\ b.next = 1 /\ b.ran = 0
  BY DEF Start, MigratorTypeOK, Boots, Fresh
<1>2. boot' = [boot EXCEPT ![p] = b] BY DEF Start, Enters, MigratorTypeOK
<1> HIDE DEF b
<1> QED BY <1>1, <1>2, Quiet DEF Start, MigratorTypeOK

LEMMA TakeLockOK == ASSUME MigratorInv, NEW p \in Processes, TakeLock(p) PROVE MigratorInv'
<1> DEFINE b == [boot[p] EXCEPT !.phase = "locked"]
<1>1. b \in Boots /\ b.phase = "locked" /\ b.next = 1 /\ b.ran = 0
  BY DEF TakeLock, MigratorTypeOK, Boots, Fresh
<1>2. boot' = [boot EXCEPT ![p] = b] BY DEF TakeLock, Enters, MigratorTypeOK
<1>3. lock' = p /\ lock = None BY DEF TakeLock
<1> HIDE DEF b
<1> QED BY <1>1, <1>2, <1>3, Quiet, NoneIsNoProcess DEF TakeLock, MigratorTypeOK

LEMMA DownBoot == Down \in Boots /\ Down.phase = "down" /\ Down.next = 1 /\ Down.ran = 0
BY DEF Down, Boots

LEMMA GiveUpOK == ASSUME MigratorInv, NEW p \in Processes, GiveUp(p) PROVE MigratorInv'
BY DownBoot, Quiet DEF GiveUp, MigratorTypeOK

LEMMA StopOK == ASSUME MigratorInv, NEW p \in Processes, Stop(p) PROVE MigratorInv'
BY DownBoot, Quiet DEF Stop, MigratorTypeOK

\* The process that was building an index goes down, and the index stays.
LEMMA FailStatementOK ==
    ASSUME MigratorInv, NEW p \in Processes, FailStatement(p) PROVE MigratorInv'
<1>1. boot[p].phase = "applying" /\ boot[p].next \in 1..Len(Files[p])
  BY LenType DEF FailStatement, Unapplied, AtFile, Snapshot
<1>2. At(p) = Files[p][boot[p].next] /\ At(p) \in Migration BY <1>1, FileType DEF At
<1>3. Pending(p) \in Effects
  BY <1>2 DEF Pending, Migration, Effects, MigratorTypeOK, Boots
<1>4. Concurrent(Pending(p)) BY <1>1, <1>2 DEF Concurrent, Pending, FailStatement
<1>5. invalid' = invalid \cup {Pending(p)} BY DEF FailStatement
<1>6. /\ invalid' \subseteq Effects /\ invalid \subseteq invalid'
      /\ \A e \in invalid' : e \in invalid \/ Concurrent(e)
  BY <1>3, <1>4, <1>5 DEF MigratorTypeOK
<1>7. /\ boot' = [boot EXCEPT ![p] = Down] /\ recorded' = recorded /\ effects' = effects
      /\ lock' \in Processes \cup {None} /\ \A q \in Processes \ {p} : lock = q => lock' = q
  BY DEF FailStatement, MigratorTypeOK
<1> HIDE DEF MigratorInv
<1> QED BY <1>6, <1>7, DownBoot, Quiet

LEMMA ReadAppliedOK ==
    ASSUME MigratorInv, NEW p \in Processes, ReadApplied(p) PROVE MigratorInv'
<1> DEFINE b == [boot[p] EXCEPT !.phase = "applying", !.applied = recorded]
<1>1. /\ b \in Boots /\ b.phase = "applying" /\ b.next = 1 /\ b.applied = recorded
      /\ lock = p /\ b.ran = 0
  BY DEF ReadApplied, MigratorTypeOK, Boots, Fresh, MutualExclusion
<1>2. boot' = [boot EXCEPT ![p] = b] BY DEF ReadApplied, MigratorTypeOK
<1>3. \A i \in 1..Len(Files[p]) : ~(i < b.next) BY <1>1, LenType
<1>4. UNCHANGED <<lock, recorded, effects, invalid>> BY DEF ReadApplied
<1>5. lock' \in Processes \cup {None} /\ invalid' \subseteq Effects BY <1>4 DEF MigratorTypeOK
<1>6. b.phase = "applying" => b.next \in Nat \ {0} /\ b.applied \subseteq recorded
  BY <1>1
<1>7. \A r \in recorded \ b.applied : FALSE BY <1>1
<1> HIDE DEF b, MigratorInv
<1> QED BY <1>1, <1>2, <1>3, <1>4, <1>5, <1>6, <1>7, Quiet

LEMMA SkipOK == ASSUME MigratorInv, NEW p \in Processes, Skip(p) PROVE MigratorInv'
<1> DEFINE b == [boot[p] EXCEPT !.next = @ + 1]
<1>1. /\ boot[p].phase = "applying" /\ boot[p].next \in 1..Len(Files[p]) /\ lock = p
      /\ RowOf(Files[p][boot[p].next]) \in boot[p].applied
      /\ boot[p].applied \subseteq recorded
  BY LenType DEF Skip, AtFile, SameSum, At, Snapshot, MutualExclusion
<1>2. /\ b \in Boots /\ b.phase = "applying" /\ b.next = boot[p].next + 1
      /\ b.applied = boot[p].applied /\ b.ran = 0
  <2>1. boot[p].ran = 0 BY <1>1 DEF Skip, Done
  <2>2. b = [boot[p] EXCEPT !.next = boot[p].next + 1] OBVIOUS
  <2>3. boot[p] \in Boots BY DEF MigratorTypeOK
  <2> QED BY <1>1, <2>1, <2>2, <2>3 DEF Boots
<1>3. boot' = [boot EXCEPT ![p] = b] BY DEF Skip, MigratorTypeOK
<1>4. \A r \in recorded \ b.applied : \E i \in 1..Len(Files[p]) :
          i < b.next /\ Files[p][i].version = r.version
  BY <1>1, <1>2, LenType DEF Snapshot
<1>5. \A i \in 1..Len(Files[p]) : i < b.next => RowOf(Files[p][i]) \in recorded
  <2> TAKE i \in 1..Len(Files[p])
  <2> HAVE i < b.next
  <2>1. i < boot[p].next \/ i = boot[p].next BY <1>1, <1>2, LenType
  <2> QED BY <2>1, <1>1 DEF Passed
<1>6. UNCHANGED <<lock, recorded, effects, invalid>> BY DEF Skip
<1>7. lock' \in Processes \cup {None} /\ invalid' \subseteq Effects BY <1>6 DEF MigratorTypeOK
<1>8. b.next \in Nat \ {0} BY <1>1, <1>2, LenType
<1> HIDE DEF b, MigratorInv
<1> QED BY <1>1, <1>2, <1>3, <1>4, <1>5, <1>6, <1>7, <1>8, Quiet

LEMMA ReleaseLockOK ==
    ASSUME MigratorInv, NEW p \in Processes, ReleaseLock(p) PROVE MigratorInv'
<1> DEFINE b == [boot[p] EXCEPT !.phase = "migrated"]
<1>1. b \in Boots /\ b.phase = "migrated"
  BY DEF ReleaseLock, MigratorTypeOK, Boots
<1>2. boot' = [boot EXCEPT ![p] = b] BY DEF ReleaseLock, Enters, MigratorTypeOK
<1>3. \A i \in 1..Len(Files[p]) : RowOf(Files[p][i]) \in recorded
  <2> TAKE i \in 1..Len(Files[p])
  <2>1. i < boot[p].next BY LenType DEF ReleaseLock, MigratorTypeOK, Boots
  <2> QED BY <2>1 DEF Passed, ReleaseLock
<1>4. lock = p BY DEF ReleaseLock, MutualExclusion
<1> HIDE DEF b
<1> QED BY <1>1, <1>2, <1>3, <1>4, Quiet DEF ReleaseLock, MigratorTypeOK

LEMMA ServeOK == ASSUME MigratorInv, NEW p \in Processes, Serve(p) PROVE MigratorInv'
<1> DEFINE b == [boot[p] EXCEPT !.phase = "serving"]
<1>1. b \in Boots /\ b.phase = "serving"
  BY DEF Serve, MigratorTypeOK, Boots
<1>2. boot' = [boot EXCEPT ![p] = b] BY DEF Serve, Enters, MigratorTypeOK
<1>3. \A i \in 1..Len(Files[p]) : RowOf(Files[p][i]) \in recorded BY DEF Passed, Serve
<1> HIDE DEF b
<1> QED BY <1>1, <1>2, <1>3, Quiet DEF Serve, MigratorTypeOK

LEMMA PoolClosesOK ==
    ASSUME MigratorInv, NEW p \in Processes, PoolCloses(p) PROVE MigratorInv'
<1>1. MigratorTypeOK' BY DEF PoolCloses, MigratorTypeOK
<1>2. MutualExclusion' BY DEF PoolCloses, MutualExclusion
<1> QED BY <1>1, <1>2 DEF PoolCloses, BootsDoNotCollide, Snapshot, Passed, Whole, AllOrNothing,
      Fresh, Broken, Done, Concurrent, Unapplied, AtFile, At

\* What a run knows of the file it is about to run or record.
LEMMA AtHand ==
    ASSUME MigratorInv, NEW p \in Processes, Unapplied(p)
    PROVE  /\ boot[p].phase = "applying" /\ lock = p
           /\ boot[p].next \in 1..Len(Files[p])
           /\ At(p) = Files[p][boot[p].next]
           /\ At(p) \in Migration /\ RowOf(At(p)) \in Rows
           /\ \A k \in Nat : Statements(At(p), k) \subseteq Effects
           /\ At(p).version \notin Versions(recorded)
           /\ RowOf(At(p)) \notin recorded
<1>1. boot[p].phase = "applying" /\ lock = p /\ boot[p].next \in 1..Len(Files[p])
  BY LenType DEF Unapplied, AtFile, MutualExclusion, Snapshot
<1>2. At(p) = Files[p][boot[p].next] BY DEF At
<1>3. /\ At(p) \in Migration /\ RowOf(At(p)) \in Rows
      /\ \A k \in Nat : Statements(At(p), k) \subseteq Effects
  BY <1>1, <1>2, FileType
<1>4. \A r \in recorded : r.version # At(p).version
  <2> TAKE r \in recorded
  <2>1. CASE r \in boot[p].applied BY <2>1 DEF Unapplied, Versions
  <2>2. CASE r \notin boot[p].applied
    <3>1. PICK i \in 1..Len(Files[p]) : i < boot[p].next /\ Files[p][i].version = r.version
      BY <1>1, <2>2 DEF Snapshot
    <3> QED BY <3>1, <1>1, <1>2, LenType, ReleaseAssumption
  <2> QED BY <2>1, <2>2
<1>5. RowOf(At(p)).version = At(p).version BY DEF RowOf
<1> QED BY <1>1, <1>2, <1>3, <1>4, <1>5 DEF Versions

LEMMA RunStatementOK ==
    ASSUME MigratorInv, NEW p \in Processes, RunStatement(p) PROVE MigratorInv'
<1> DEFINE f == At(p)
           e == Pending(p)
           b == [boot[p] EXCEPT !.ran = @ + 1]
<1>1. Unapplied(p) BY DEF RunStatement
<1>2. /\ boot[p].phase = "applying" /\ lock = p /\ boot[p].next \in 1..Len(Files[p])
      /\ f = Files[p][boot[p].next] /\ RowOf(f) \notin recorded
      /\ f \in Migration
  BY <1>1, AtHand
<1>3. e \in Effects /\ e.version = f.version /\ e.sum = f.sum
  BY <1>2 DEF Pending, Migration, Effects, MigratorTypeOK, Boots
<1>4. ~(e \in effects /\ ~f.noTransaction) BY <1>2, <1>3 DEF AllOrNothing
<1>5. /\ boot' = [boot EXCEPT ![p] = b]
      /\ effects' = (IF f.noTransaction /\ e \notin invalid THEN effects \cup {e} ELSE effects)
      /\ lock' = lock /\ recorded' = recorded /\ invalid' = invalid
  <2>1. boot' = [boot EXCEPT ![p].ran = @ + 1] BY <1>4 DEF RunStatement
  <2>2. boot' = [boot EXCEPT ![p] = b] BY <2>1 DEF MigratorTypeOK
  <2> QED BY <2>2 DEF RunStatement
<1>6. /\ b \in Boots /\ b.phase = "applying" /\ b.next = boot[p].next
      /\ b.applied = boot[p].applied /\ b.ran = boot[p].ran + 1 /\ boot[p].ran \in Nat
  BY <1>2 DEF MigratorTypeOK, Boots
<1>7. \A q \in Processes : boot'[q] = IF q = p THEN b ELSE boot[q]
  BY <1>5 DEF MigratorTypeOK
<1>8. effects \subseteq effects' /\ effects' \subseteq Effects
  BY <1>3, <1>5 DEF MigratorTypeOK
<1> HIDE DEF b
<1>9. MigratorTypeOK' BY <1>5, <1>6, <1>8 DEF MigratorTypeOK
<1>10. BootsDoNotCollide' BY <1>6, <1>7 DEF BootsDoNotCollide
<1>11. MutualExclusion' BY <1>2, <1>5, <1>6, <1>7 DEF MutualExclusion
<1>12. Snapshot' BY <1>2, <1>5, <1>6, <1>7 DEF Snapshot
<1>13. Passed' BY <1>2, <1>5, <1>6, <1>7 DEF Passed
<1>14. Whole' BY <1>5, <1>8 DEF Whole
<1>15. AllOrNothing'
  <2> SUFFICES ASSUME NEW q \in Processes, NEW j \in 1..Len(Files[q]), NEW d \in effects',
                      ~Files[q][j].noTransaction,
                      d.version = Files[q][j].version, d.sum = Files[q][j].sum
               PROVE  RowOf(Files[q][j]) \in recorded
    BY <1>5 DEF AllOrNothing
  <2>1. CASE d \in effects BY <2>1 DEF AllOrNothing
  <2>2. CASE d \notin effects
    <3>1. d = e /\ f.noTransaction BY <2>2, <1>5
    <3>2. f = Files[q][j] BY <3>1, <1>2, <1>3, ChecksumAssumption
    <3> QED BY <3>1, <3>2
  <2> QED BY <2>1, <2>2
<1>16. Fresh' BY <1>6, <1>7 DEF Fresh
<1>17. Broken' BY <1>5 DEF Broken, Concurrent
<1>18. Done'
  <2>1. At(p)' = f /\ Unapplied(p)' BY <1>1, <1>6, <1>7 DEF At, Unapplied, AtFile
  <2>2. \A q \in Processes \ {p} : boot'[q] = boot[q] /\ boot[q].phase # "applying"
    BY <1>2, <1>7 DEF MutualExclusion
  <2>3. ASSUME f.noTransaction PROVE Statements(f, b.ran) \subseteq effects' \cup invalid'
    <3>1. Statements(f, b.ran) = Statements(f, boot[p].ran) \cup {e}
      <4>1. 1..(boot[p].ran + 1) = (1..boot[p].ran) \cup {boot[p].ran + 1} BY <1>6
      <4> QED BY <4>1, <1>6 DEF Statements, Pending
    <3>2. e \in effects' \cup invalid' BY <2>3, <1>5
    <3>3. Statements(f, boot[p].ran) \subseteq effects \cup invalid
      <4>1. CASE boot[p].ran = 0 BY <4>1 DEF Statements
      <4>2. CASE boot[p].ran # 0 BY <4>2, <2>3, <1>2 DEF Done
      <4> QED BY <4>1, <4>2
    <3> QED BY <3>1, <3>2, <3>3, <1>5, <1>8
  <2> QED BY <2>1, <2>2, <2>3, <1>7 DEF Done
<1> QED BY <1>9, <1>10, <1>11, <1>12, <1>13, <1>14, <1>15, <1>16, <1>17, <1>18

LEMMA RecordOK == ASSUME MigratorInv, NEW p \in Processes, Record(p) PROVE MigratorInv'
<1> DEFINE f == At(p)
           b == [boot[p] EXCEPT !.next = @ + 1, !.ran = 0]
<1>1. Unapplied(p) /\ boot[p].ran = f.size BY DEF Record, RanAll
<1>2. /\ boot[p].phase = "applying" /\ lock = p /\ boot[p].next \in 1..Len(Files[p])
      /\ f = Files[p][boot[p].next] /\ RowOf(f) \notin recorded
      /\ f.version \notin Versions(recorded)
      /\ f \in Migration /\ RowOf(f) \in Rows
      /\ \A k \in Nat : Statements(f, k) \subseteq Effects
  BY <1>1, AtHand
<1>3. /\ recorded' = recorded \cup {RowOf(f)}
      /\ effects' = (IF f.noTransaction THEN effects ELSE effects \cup Statements(f, f.size))
      /\ lock' = lock /\ invalid' = invalid
      /\ boot' = [boot EXCEPT ![p] = b]
  <2>1. boot' = [boot EXCEPT ![p].next = @ + 1, ![p].ran = 0] BY <1>2 DEF Record
  <2>2. boot' = [boot EXCEPT ![p] = b] BY <2>1 DEF MigratorTypeOK
  <2> QED BY <2>2, <1>1, <1>2 DEF Record
<1>4. /\ b \in Boots /\ b.phase = "applying" /\ b.next = boot[p].next + 1
      /\ b.applied = boot[p].applied /\ b.ran = 0
  <2>1. boot[p] \in Boots BY DEF MigratorTypeOK
  <2>2. boot[p].next + 1 \in Nat BY <2>1 DEF Boots
  <2> DEFINE c == [boot[p] EXCEPT !.next = boot[p].next + 1]
  <2>3. c \in Boots /\ c.phase = boot[p].phase /\ c.next = boot[p].next + 1
        /\ c.applied = boot[p].applied
    BY <2>1, <2>2 DEF Boots
  <2>4. b = [c EXCEPT !.ran = 0] OBVIOUS
  <2> HIDE DEF c
  <2>5. [c EXCEPT !.ran = 0] \in Boots BY <2>3 DEF Boots
  <2> QED BY <2>3, <2>4, <2>5, <1>2 DEF Boots
<1>5. \A q \in Processes : boot'[q] = IF q = p THEN b ELSE boot[q]
  BY <1>3 DEF MigratorTypeOK
<1>6. \A q \in Processes \ {p} : boot[q].phase # "applying"
  BY <1>2 DEF MutualExclusion
<1>7. f.size \in Nat BY <1>2 DEF Migration
<1> HIDE DEF b
<1>8. MigratorTypeOK'
  <2>1. recorded' \subseteq Rows /\ effects' \subseteq Effects
    BY <1>2, <1>3, <1>7 DEF MigratorTypeOK
  <2> QED BY <2>1, <1>3, <1>4 DEF MigratorTypeOK
<1>9. BootsDoNotCollide' BY <1>4, <1>5 DEF BootsDoNotCollide
<1>10. MutualExclusion' BY <1>2, <1>3, <1>4, <1>5 DEF MutualExclusion
<1>11. Snapshot'
  <2>1. RowOf(f).version = Files[p][boot[p].next].version BY <1>2 DEF RowOf
  <2>2. \A r \in recorded' \ b.applied : \E i \in 1..Len(Files[p]) :
            i < b.next /\ Files[p][i].version = r.version
    <3> TAKE r \in recorded' \ b.applied
    <3>1. CASE r = RowOf(f) BY <3>1, <2>1, <1>2, <1>4, LenType
    <3>2. CASE r \in recorded
      <4>1. PICK i \in 1..Len(Files[p]) : i < boot[p].next /\ Files[p][i].version = r.version
        BY <3>2, <1>2, <1>4 DEF Snapshot
      <4> QED BY <4>1, <1>2, <1>4, LenType
    <3> QED BY <3>1, <3>2, <1>3
  <2>3. b.applied \subseteq recorded' BY <1>2, <1>3, <1>4 DEF Snapshot
  <2>4. b.next \in Nat \ {0} BY <1>2, <1>4, LenType
  <2> QED BY <2>2, <2>3, <2>4, <1>5, <1>6 DEF Snapshot
<1>12. Passed'
  <2> SUFFICES ASSUME NEW q \in Processes, NEW i \in 1..Len(Files[q]),
                      \/ boot'[q].phase = "applying" /\ i < boot'[q].next
                      \/ boot'[q].phase \in {"migrated", "serving"}
               PROVE  RowOf(Files[q][i]) \in recorded'
    BY DEF Passed
  <2>1. CASE q = p
    <3>1. i < boot[p].next \/ i = boot[p].next BY <2>1, <1>2, <1>4, <1>5, LenType
    <3> QED BY <3>1, <2>1, <1>2, <1>3 DEF Passed
  <2>2. CASE q # p BY <2>2, <1>3, <1>5 DEF Passed
  <2> QED BY <2>1, <2>2
<1>16. f.noTransaction => Statements(f, f.size) \subseteq effects \cup invalid
  <2>1. boot[p].ran # 0 BY <1>1, <1>2 DEF Migration
  <2> QED BY <2>1, <1>1, <1>2 DEF Done
<1>13. Whole'
  <2> SUFFICES ASSUME NEW q \in Processes, NEW j \in 1..Len(Files[q]),
                      RowOf(Files[q][j]) \in recorded'
               PROVE  Statements(Files[q][j], Files[q][j].size) \subseteq effects' \cup invalid'
    BY DEF Whole
  <2>1. CASE RowOf(Files[q][j]) \in recorded BY <2>1, <1>3 DEF Whole
  <2>2. CASE RowOf(Files[q][j]) = RowOf(f)
    <3>1. boot[p].next \in 1..Len(Files[p]) /\ f = Files[p][boot[p].next] BY <1>2
    <3> HIDE DEF f, MigratorInv
    <3>2. RowOf(Files[q][j]) = RowOf(Files[p][boot[p].next]) BY <2>2, <3>1
    <3>3. Files[q][j] = f BY <3>1, <3>2, SameFile
    <3>4. Statements(f, f.size) \subseteq effects' \cup invalid' BY <1>16, <1>3
    <3> QED BY <3>3, <3>4
  <2> QED BY <2>1, <2>2, <1>3
<1>14. AllOrNothing'
  <2> SUFFICES ASSUME NEW q \in Processes, NEW j \in 1..Len(Files[q]), NEW d \in effects',
                      ~Files[q][j].noTransaction,
                      d.version = Files[q][j].version, d.sum = Files[q][j].sum
               PROVE  RowOf(Files[q][j]) \in recorded'
    BY DEF AllOrNothing
  <2>1. CASE d \in effects BY <2>1, <1>3 DEF AllOrNothing
  <2>2. CASE d \in Statements(f, f.size)
    <3>1. d.version = f.version /\ d.sum = f.sum BY <2>2 DEF Statements
    <3>2. RowOf(Files[q][j]) = RowOf(f) BY <3>1 DEF RowOf
    <3> QED BY <3>2, <1>3
  <2> QED BY <2>1, <2>2, <1>3
<1>15. Fresh' BY <1>4, <1>5 DEF Fresh
<1>17. Broken' BY <1>3 DEF Broken, Concurrent
<1>18. Done' BY <1>4, <1>5, <1>6 DEF Done
<1> QED BY <1>8, <1>9, <1>10, <1>11, <1>12, <1>13, <1>14, <1>15, <1>17, <1>18

\* Every step of the migrator keeps the invariant.
LEMMA Keeps == MigratorInv /\ [MigratorNext]_migratorVars => MigratorInv'
<1> SUFFICES ASSUME MigratorInv, [MigratorNext]_migratorVars PROVE MigratorInv' OBVIOUS
<1>1. CASE UNCHANGED migratorVars
  BY <1>1 DEF migratorVars, MigratorTypeOK, BootsDoNotCollide, MutualExclusion, Snapshot, Passed,
      Whole, AllOrNothing, Fresh, Broken, Done, Concurrent, Unapplied, AtFile, At
<1>2. CASE MigratorNext
  <2>1. PICK p \in Processes : Start(p) \/ BootStep(p) \/ Stop(p) \/ PoolCloses(p)
    BY <1>2 DEF MigratorNext
  <2>2. ChecksumMismatch(p) => Stop(p) BY DEF ChecksumMismatch
  <2> QED BY <2>1, <2>2, StartOK, TakeLockOK, GiveUpOK, ReadAppliedOK, SkipOK, StopOK,
          RunStatementOK, FailStatementOK, RecordOK, ReleaseLockOK, ServeOK, PoolClosesOK DEF BootStep
<1> QED BY <1>1, <1>2

\* The invariant holds of every behaviour of the migrator.
THEOREM MigratorInvariance == MigratorSpec => []MigratorInv
BY Inits, Keeps, PTL DEF MigratorSpec

\* An INVALID statement of a file is an index that file builds CONCURRENTLY.
LEMMA InvalidIndexes ==
    ASSUME MigratorInv, NEW p \in Processes, NEW i \in 1..Len(Files[p])
    PROVE  Statements(Files[p][i], Files[p][i].size) \cap invalid \subseteq Indexes(Files[p][i])
<1> SUFFICES ASSUME NEW e \in Statements(Files[p][i], Files[p][i].size), e \in invalid
             PROVE  e \in Indexes(Files[p][i])
  OBVIOUS
<1>1. e.version = Files[p][i].version /\ e.sum = Files[p][i].sum BY DEF Statements
<1>2. PICK q \in Processes : \E j \in 1..Len(Files[q]) :
          /\ e.version = Files[q][j].version /\ e.sum = Files[q][j].sum
          /\ e.statement \in Files[q][j].concurrent
  BY DEF Broken, Concurrent
<1>3. PICK j \in 1..Len(Files[q]) :
          /\ e.version = Files[q][j].version /\ e.sum = Files[q][j].sum
          /\ e.statement \in Files[q][j].concurrent
  BY <1>2
<1>4. RowOf(Files[p][i]) = RowOf(Files[q][j]) BY <1>1, <1>3 DEF RowOf
<1> HIDE DEF MigratorInv
<1>5. Files[p][i] = Files[q][j] BY <1>4, SameFile
<1> QED BY <1>3, <1>5 DEF Indexes

\* For every set of processes and releases: a process serves only on the schema
\* its release was built for, but for indexes a failed CREATE INDEX CONCURRENTLY
\* left INVALID (main.go run, migrate.go Migrate).
THEOREM SchemaServed == MigratorSpec => []ServesItsSchema
<1>1. MigratorInv => ServesItsSchema
  BY InvalidIndexes DEF ServesItsSchema, Passed, Whole
<1> QED BY <1>1, MigratorInvariance, PTL

\* For every set of processes and releases: where no release builds an index
\* CONCURRENTLY, as today none does, a recorded file is applied to its last
\* statement (migrate.go Migrate).
THEOREM LedgerTold ==
    ASSUME \A p \in Processes : \A i \in 1..Len(Files[p]) : Files[p][i].concurrent = {}
    PROVE  MigratorSpec => []RecordedIsApplied
<1>1. MigratorInv => RecordedIsApplied
  <2> SUFFICES ASSUME MigratorInv PROVE RecordedIsApplied OBVIOUS
  <2>1. invalid = {} BY DEF Broken, Concurrent
  <2> QED BY <2>1 DEF RecordedIsApplied, Whole
<1> QED BY <1>1, MigratorInvariance, PTL

\* For every set of processes and releases: no boot fails on an effect or a row
\* that is there already (migrate.go apply).
THEOREM NoBootCollides == MigratorSpec => []BootsDoNotCollide
<1>1. MigratorInv => BootsDoNotCollide OBVIOUS
<1> QED BY <1>1, MigratorInvariance, PTL
=============================================================================
