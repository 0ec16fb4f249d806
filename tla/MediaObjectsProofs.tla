------------------------- MODULE MediaObjectsProofs -------------------------
(***************************************************************************)
(* Safety of MediaObjects for every number of travellers, objects,         *)
(* declarations and requests, and every age limit longer than the budget.  *)
(***************************************************************************)
EXTENDS MediaObjects, TLAPS

Gone(k) == Owner(k) \notin travellers

\* Whoever may still bring bytes to a key has a row for it, or no traveller:
\* the row is written before the upload is signed and goes with its traveller.
Owned ==
    /\ \A k \in Keys : rows[k] # None => ~Gone(k)
    /\ \A k \in Keys : bucket[k] # None => rows[k] # None \/ Gone(k)
    /\ \A u \in urls : rows[u[1]] # None \/ Gone(u[1])
    /\ \A r \in Requests : pc[r] # "idle" =>
          \A k \in req[r].keys : rows[k] # None \/ Gone(k)
    /\ \A k \in forgetting : Gone(k)

\* What a request relies on when its next statement runs.
Carried ==
    /\ \A r \in Requests : pc[r] \in {"signing", "declared", "verified"} =>
          req[r].decl \in Declarations
    /\ \A r \in Requests : pc[r] \in {"declared", "verified"} =>
          \A k \in req[r].keys : Gone(k) \/ k \in restated \/ rows[k].decl = req[r].decl
    /\ \A r \in Requests : pc[r] = "verified" =>
          \A k \in req[r].keys : Gone(k) \/ (bucket[k] # None /\ bucket[k].decl = req[r].decl)
    /\ MintedLeadsToBytes

\* Bytes that were there when the sweep read the rows and were not referenced
\* are nobody's, and only such bytes are old enough to be listed as orphans.
Spares ==
    /\ \A k \in Keys : bucket[k] # None => bucket[k].at <= clock
    /\ sweep # None =>
          /\ sweep.started <= sweep.now /\ sweep.now <= sweep.started + Budget
          /\ sweep.now <= clock
          /\ \A k \in Keys \ sweep.known :
                bucket[k] # None /\ bucket[k].at < sweep.started => Gone(k)
          /\ \A k \in sweep.orphans : Gone(k)

\* An old orphan of the sweep's start that is still there is yet to be listed
\* or to be removed.
Collects ==
    sweep # None =>
        /\ sweep.stage = "known" => sweep.left = Keys
        /\ sweep.stage = "removing" => sweep.left = {}
        /\ \A k \in sweep.doomed :
              \/ bucket[k] = None \/ bucket[k].at >= sweep.started
              \/ k \in sweep.orphans
              \/ /\ k \in sweep.left /\ k \notin sweep.known
                 /\ sweep.started - bucket[k].at >= MinAge

\* The inductive invariant.
IInv == TypeOK /\ Owned /\ Carried /\ CommittedAsStored /\ Spares /\ Collects

-----------------------------------------------------------------------------
LEMMA ApplySweeps == ASSUME IInv, NEW k \in Keys, Apply(k) PROVE sweep' \in Sweeps
<1>1. sweep \in Sweeps BY DEF IInv, TypeOK, Apply
<1>2. sweep.orphans \ {k} \in SUBSET Keys /\ sweep.doomed \ {k} \in SUBSET Keys BY <1>1 DEF Sweeps
<1>3. CASE sweep' = [sweep EXCEPT !.orphans = @ \ {k}] BY <1>1, <1>2, <1>3 DEF Sweeps
<1>4. CASE sweep' = [sweep EXCEPT !.orphans = @ \ {k}, !.doomed = @ \ {k}] BY <1>1, <1>2, <1>4 DEF Sweeps
<1> QED BY <1>3, <1>4 DEF Apply

LEMMA InitHolds == Init => IInv
BY NoneIsNoRecord, TimesNat DEF Init, IInv, TypeOK, Owned, Carried, MintedLeadsToBytes, CommittedAsStored,
   Committed, Spares, Collects, RequestState, Row, Attributes

LEMMA TickKeeps == ASSUME IInv, Tick PROVE IInv'
<1>1. TypeOK' BY TimesNat, BudgetBelowMinAge DEF IInv, TypeOK, Tick, bytes, removers
<1>2. Owned' BY DEF IInv, Owned, Tick, Gone, bytes, removers, TypeOK
<1>3. Carried' BY DEF IInv, Carried, Tick, MintedLeadsToBytes, Gone, bytes, removers, TypeOK
<1>4. CommittedAsStored' BY DEF IInv, CommittedAsStored, Tick, Committed, bytes, removers, TypeOK
<1>5. Spares' BY TimesNat, BudgetBelowMinAge DEF IInv, Spares, Tick, Gone, bytes, removers, TypeOK,
      RequestState, Row, Attributes, Sweeps
<1>6. Collects' BY TimesNat, BudgetBelowMinAge DEF IInv, Collects, Tick, bytes, removers, TypeOK
<1> QED BY <1>1, <1>2, <1>3, <1>4, <1>5, <1>6 DEF IInv

LEMMA BeginMediaKeeps == ASSUME IInv, NEW r \in Requests, NEW k \in Keys, NEW decl \in Declarations, BeginMedia(r, k, decl) PROVE IInv'
<1>1. TypeOK'
  <2>1. Upserted(k, decl) \in Row BY DEF IInv, TypeOK, Upserted, Row
  <2>2. rows' \in [Keys -> Row \cup {None}] /\ rows'[k] \in Row
    BY <2>1 DEF IInv, TypeOK, BeginMedia
  <2>3. restated' \subseteq Keys BY DEF IInv, TypeOK, BeginMedia
  <2>4. rows'[k].decl \in Declarations BY <2>2 DEF Row
  <2>5. CASE rows'[k].committed BY <2>2, <2>3, <2>5 DEF IInv, TypeOK, BeginMedia, bytes, removers
  <2>6. CASE ~rows'[k].committed
    <3>1. Go(r, "signing", {k}, rows'[k].decl) BY <2>6 DEF BeginMedia
    <3> QED BY <2>2, <2>3, <2>4, <3>1 DEF IInv, TypeOK, BeginMedia, Go, RequestState, bytes, removers
  <2> QED BY <2>5, <2>6
<1>2. Owned'
  <2>1. rows'[k] # None
    <3>1. Upserted(k, decl) \in Row BY DEF IInv, TypeOK, Upserted, Row
    <3> QED BY <3>1, NoneIsNoRecord DEF IInv, TypeOK, BeginMedia, Row
  <2>2. \A l \in Keys : rows'[l] # None \/ Gone(l)' <=> rows[l] # None \/ Gone(l) \/ l = k
    BY <2>1 DEF IInv, TypeOK, BeginMedia, Gone
  <2>3. \A s \in Requests : pc'[s] # "idle" =>
            \A l \in req'[s].keys : rows[l] # None \/ Gone(l) \/ l = k
    BY DEF IInv, TypeOK, Owned, BeginMedia, Go
  <2>4. \A s \in Requests : pc'[s] # "idle" => req'[s].keys \subseteq Keys
    BY <1>1 DEF TypeOK, RequestState
  <2> QED BY <2>1, <2>2, <2>3, <2>4 DEF IInv, TypeOK, Owned, BeginMedia, bytes, removers, Gone
<1>3. Carried'
  <2>1. rows'[k] \in Row /\ \A l \in Keys \ {k} : rows'[l] = rows[l]
    BY DEF IInv, TypeOK, BeginMedia, Upserted, Row
  <2>2. rows'[k].committed => rows'[k].decl = rows[k].decl \/ rows'[k] = rows[k]
    BY DEF IInv, TypeOK, BeginMedia, Upserted
  <2>3. \A s \in Requests : pc'[s] \in {"declared", "verified", "minting"} => pc'[s] = pc[s] /\ req'[s] = req[s]
    BY DEF IInv, TypeOK, BeginMedia, Go
  <2>4. \A s \in Requests : pc'[s] \in {"signing", "declared", "verified"} => req'[s].decl \in Declarations
    BY <2>1 DEF IInv, TypeOK, Carried, BeginMedia, Go, Row
  <2>5. \A s \in Requests : pc'[s] \in {"declared", "verified"} =>
            \A l \in req'[s].keys : Gone(l)' \/ l \in restated' \/ rows'[l].decl = req'[s].decl
    <3> SUFFICES ASSUME NEW s \in Requests, pc[s] \in {"declared", "verified"}, NEW l \in req[s].keys
                 PROVE  Gone(l) \/ l \in restated' \/ rows'[l].decl = req[s].decl
      BY <2>3 DEF BeginMedia, Gone
    <3>1. l \in Keys BY DEF IInv, TypeOK, RequestState
    <3>2. Gone(l) \/ l \in restated \/ rows[l].decl = req[s].decl BY DEF IInv, Carried
    <3>3. restated \subseteq restated' BY DEF BeginMedia
    <3>4. CASE l # k BY <2>1, <3>1, <3>2, <3>3, <3>4
    <3>5. CASE l = k /\ rows'[k] = rows[k] BY <3>2, <3>3, <3>5
    <3>6. CASE l = k /\ rows'[k] = [decl |-> decl, committed |-> FALSE] /\ req[s].decl # decl
      <4>1. CommitHolds(k, decl) BY <3>6 DEF CommitHolds
      <4> QED BY <4>1, <3>6 DEF BeginMedia
    <3>7. CASE l = k /\ rows'[k] = [decl |-> decl, committed |-> FALSE] /\ req[s].decl = decl
      BY <3>7
    <3> QED BY <3>4, <3>5, <3>6, <3>7 DEF IInv, TypeOK, BeginMedia, Upserted
  <2> QED BY <2>3, <2>4, <2>5 DEF IInv, Carried, MintedLeadsToBytes, BeginMedia, bytes, Gone
<1>4. CommittedAsStored' BY NoneIsNoRecord DEF IInv, CommittedAsStored, BeginMedia, Go, Upserted,
      CommitHolds, Committed, bytes, removers, TypeOK
<1>5. Spares' BY NoneIsNoRecord, TimesNat, BudgetBelowMinAge DEF IInv, Spares, BeginMedia, Go,
      Upserted, CommitHolds, Gone, bytes, removers, TypeOK
<1>6. Collects' BY NoneIsNoRecord, TimesNat, BudgetBelowMinAge DEF IInv, Collects, BeginMedia, Go,
      Upserted, CommitHolds, bytes, removers, TypeOK
<1> QED BY <1>1, <1>2, <1>3, <1>4, <1>5, <1>6 DEF IInv

LEMMA PresignPutKeeps == ASSUME IInv, NEW r \in Requests, PresignPut(r) PROVE IInv'
<1>1. TypeOK'
  <2>1. req[r].keys \subseteq Keys /\ req[r].decl \in Declarations
    BY DEF IInv, TypeOK, Carried, PresignPut, RequestState
  <2>2. urls' \subseteq Keys \X Declarations BY <2>1 DEF IInv, TypeOK, PresignPut
  <2> QED BY <2>2 DEF IInv, TypeOK, PresignPut, End, removers
<1>2. Owned' BY DEF IInv, Owned, PresignPut, End, Gone, removers, TypeOK
<1>3. Carried' BY DEF IInv, Carried, PresignPut, End, MintedLeadsToBytes, Gone, removers, TypeOK
<1>4. CommittedAsStored' BY DEF IInv, CommittedAsStored, PresignPut, End, Committed, removers,
      TypeOK
<1>5. Spares' BY TimesNat, BudgetBelowMinAge DEF IInv, Spares, PresignPut, End, Gone, removers,
      TypeOK
<1>6. Collects' BY TimesNat, BudgetBelowMinAge DEF IInv, Collects, PresignPut, End, removers, TypeOK
<1> QED BY <1>1, <1>2, <1>3, <1>4, <1>5, <1>6 DEF IInv

LEMMA PutKeeps == ASSUME IInv, NEW k \in Keys, NEW decl \in Declarations, Put(k, decl) PROVE IInv'
<1>1. TypeOK' BY NoneIsNoRecord DEF IInv, TypeOK, Put, removers, RequestState, Row, Attributes,
      Sweeps
<1>2. Owned' BY NoneIsNoRecord DEF IInv, Owned, Put, Gone, removers, TypeOK
<1>3. Carried' BY NoneIsNoRecord DEF IInv, Carried, Put, MintedLeadsToBytes, Gone, removers, TypeOK
<1>4. CommittedAsStored' BY NoneIsNoRecord DEF IInv, CommittedAsStored, Put, Committed, removers,
      TypeOK
<1>5. Spares' BY NoneIsNoRecord, TimesNat, BudgetBelowMinAge DEF IInv, Spares, Put, Gone, removers,
      TypeOK, RequestState, Sweeps
<1>6. Collects' BY NoneIsNoRecord, TimesNat, BudgetBelowMinAge DEF IInv, Collects, Spares, Put,
      removers, TypeOK, RequestState, Sweeps
<1> QED BY <1>1, <1>2, <1>3, <1>4, <1>5, <1>6 DEF IInv

LEMMA ReadDeclaredKeeps == ASSUME IInv, NEW r \in Requests, NEW k \in Keys, ReadDeclared(r, k) PROVE IInv'
<1>1. TypeOK' BY DEF IInv, TypeOK, ReadDeclared, Go, bytes, removers, RequestState, Row, Attributes,
      Sweeps
<1>2. Owned' BY DEF IInv, Owned, ReadDeclared, Go, Gone, bytes, removers, TypeOK
<1>3. Carried' BY DEF IInv, Carried, ReadDeclared, Go, MintedLeadsToBytes, Gone, bytes, removers,
      TypeOK, RequestState, Row, Attributes, Sweeps
<1>4. CommittedAsStored' BY DEF IInv, CommittedAsStored, ReadDeclared, Go, Committed, bytes,
      removers, TypeOK
<1>5. Spares' BY TimesNat, BudgetBelowMinAge DEF IInv, Spares, ReadDeclared, Go, Gone, bytes,
      removers, TypeOK
<1>6. Collects' BY TimesNat, BudgetBelowMinAge DEF IInv, Collects, ReadDeclared, Go, bytes,
      removers, TypeOK
<1> QED BY <1>1, <1>2, <1>3, <1>4, <1>5, <1>6 DEF IInv

LEMMA StatKeeps == ASSUME IInv, NEW r \in Requests, Stat(r) PROVE IInv'
<1>1. TypeOK' BY DEF IInv, TypeOK, Stat, Go, End, Holds, bytes, removers, RequestState
<1>2. Owned' BY DEF IInv, Owned, Stat, Go, End, Holds, Gone, bytes, removers, TypeOK
<1>3. Carried' BY DEF IInv, Carried, Stat, Go, End, Holds, MintedLeadsToBytes, Gone, bytes,
      removers, TypeOK
<1>4. CommittedAsStored' BY DEF IInv, CommittedAsStored, Stat, Go, End, Holds, Committed, bytes,
      removers, TypeOK
<1>5. Spares' BY TimesNat, BudgetBelowMinAge DEF IInv, Spares, Stat, Go, End, Holds, Gone, bytes,
      removers, TypeOK
<1>6. Collects' BY TimesNat, BudgetBelowMinAge DEF IInv, Collects, Stat, Go, End, Holds, bytes,
      removers, TypeOK
<1> QED BY <1>1, <1>2, <1>3, <1>4, <1>5, <1>6 DEF IInv

LEMMA MarkMediaUploadedKeeps == ASSUME IInv, NEW r \in Requests, MarkMediaUploaded(r) PROVE IInv'
<1>1. TypeOK'
  <2>1. rows' \in [Keys -> Row \cup {None}] BY DEF IInv, TypeOK, MarkMediaUploaded, Row
  <2> QED BY <2>1 DEF IInv, TypeOK, MarkMediaUploaded, End, bytes, removers
<1>2. Owned'
  <2>1. \A k \in Keys : rows'[k] # None <=> rows[k] # None
    BY NoneIsNoRecord DEF IInv, TypeOK, MarkMediaUploaded, Row
  <2>2. \A s \in Requests : pc'[s] # "idle" => req'[s].keys \subseteq Keys
    BY <1>1 DEF TypeOK, RequestState
  <2>3. \A u \in urls : u[1] \in Keys BY DEF IInv, TypeOK
  <2> QED BY <2>1, <2>2, <2>3 DEF IInv, TypeOK, Owned, MarkMediaUploaded, End, bytes, removers, Gone
<1>3. Carried' BY NoneIsNoRecord DEF IInv, Carried, MarkMediaUploaded, End, MintedLeadsToBytes,
      Gone, bytes, removers, TypeOK, RequestState, Sweeps
<1>4. CommittedAsStored'
  <2> SUFFICES ASSUME NEW k \in Keys, Committed(k)'
               PROVE  bucket[k] # None /\ (k \in restated \/ bucket[k].decl = rows'[k].decl)
    BY DEF CommittedAsStored, MarkMediaUploaded, bytes
  <2>1. rows[k] # None /\ rows'[k].decl = rows[k].decl
    BY DEF IInv, TypeOK, Committed, MarkMediaUploaded, Row
  <2>2. CASE k \in req[r].keys
    BY <2>1, <2>2 DEF IInv, Owned, Carried, MarkMediaUploaded, Gone
  <2>3. CASE k \notin req[r].keys
    BY <2>1, <2>3 DEF IInv, CommittedAsStored, Committed, MarkMediaUploaded
  <2> QED BY <2>2, <2>3
<1>5. Spares' BY NoneIsNoRecord, TimesNat, BudgetBelowMinAge DEF IInv, Spares, MarkMediaUploaded,
      End, Gone, bytes, removers, TypeOK
<1>6. Collects' BY NoneIsNoRecord, TimesNat, BudgetBelowMinAge DEF IInv, Collects,
      MarkMediaUploaded, End, bytes, removers, TypeOK
<1> QED BY <1>1, <1>2, <1>3, <1>4, <1>5, <1>6 DEF IInv

LEMMA MintMediaKeeps == ASSUME IInv, NEW r \in Requests, NEW t \in Travellers, NEW objects \in SUBSET Objects, MintMedia(r, t, objects) PROVE IInv'
<1>1. TypeOK' BY DEF IInv, TypeOK, Keys, MintMedia, Go, Mintable, Committed, bytes, removers,
      RequestState
<1>2. Owned' BY DEF IInv, Owned, MintMedia, Go, Mintable, Committed, Gone, bytes, removers, TypeOK
<1>3. Carried'
  <2>1. \A k \in {t} \X objects : k \in Keys /\ bucket[k] # None
    BY DEF IInv, CommittedAsStored, MintMedia, Mintable, Keys
  <2> QED BY <2>1 DEF IInv, TypeOK, Carried, MintedLeadsToBytes, MintMedia, Go, bytes, Gone
<1>4. CommittedAsStored' BY DEF IInv, CommittedAsStored, MintMedia, Go, Mintable, Committed, bytes,
      removers, TypeOK
<1>5. Spares' BY TimesNat, BudgetBelowMinAge DEF IInv, Spares, MintMedia, Go, Mintable, Committed,
      Gone, bytes, removers, TypeOK
<1>6. Collects' BY TimesNat, BudgetBelowMinAge DEF IInv, Collects, MintMedia, Go, Mintable,
      Committed, bytes, removers, TypeOK
<1> QED BY <1>1, <1>2, <1>3, <1>4, <1>5, <1>6 DEF IInv

LEMMA PresignGetsKeeps == ASSUME IInv, NEW r \in Requests, PresignGets(r) PROVE IInv'
<1>1. TypeOK' BY DEF IInv, TypeOK, PresignGets, End, bytes, removers
<1>2. Owned' BY DEF IInv, Owned, PresignGets, End, Gone, bytes, removers, TypeOK
<1>3. Carried' BY DEF IInv, Carried, PresignGets, End, MintedLeadsToBytes, Gone, bytes, removers,
      TypeOK
<1>4. CommittedAsStored' BY DEF IInv, CommittedAsStored, PresignGets, End, Committed, bytes,
      removers, TypeOK
<1>5. Spares' BY TimesNat, BudgetBelowMinAge DEF IInv, Spares, PresignGets, End, Gone, bytes,
      removers, TypeOK
<1>6. Collects' BY TimesNat, BudgetBelowMinAge DEF IInv, Collects, PresignGets, End, bytes,
      removers, TypeOK
<1> QED BY <1>1, <1>2, <1>3, <1>4, <1>5, <1>6 DEF IInv

LEMMA CutOffKeeps == ASSUME IInv, NEW r \in Requests, CutOff(r) PROVE IInv'
<1>1. TypeOK' BY DEF IInv, TypeOK, CutOff, End, bytes, removers
<1>2. Owned' BY DEF IInv, Owned, CutOff, End, Gone, bytes, removers, TypeOK
<1>3. Carried' BY DEF IInv, Carried, CutOff, End, MintedLeadsToBytes, Gone, bytes, removers, TypeOK
<1>4. CommittedAsStored' BY DEF IInv, CommittedAsStored, CutOff, End, Committed, bytes, removers,
      TypeOK
<1>5. Spares' BY TimesNat, BudgetBelowMinAge DEF IInv, Spares, CutOff, End, Gone, bytes, removers,
      TypeOK
<1>6. Collects' BY TimesNat, BudgetBelowMinAge DEF IInv, Collects, CutOff, End, bytes, removers,
      TypeOK
<1> QED BY <1>1, <1>2, <1>3, <1>4, <1>5, <1>6 DEF IInv

LEMMA DeleteTravellerKeeps == ASSUME IInv, NEW t \in Travellers, DeleteTraveller(t) PROVE IInv'
<1>1. TypeOK' BY DEF IInv, TypeOK, DeleteTraveller, bytes
<1>2. Owned' BY DEF IInv, Owned, DeleteTraveller, Gone, bytes, TypeOK, RequestState, Sweeps
<1>3. Carried' BY DEF IInv, Carried, DeleteTraveller, MintedLeadsToBytes, Gone, bytes, TypeOK,
      RequestState, Sweeps
<1>4. CommittedAsStored' BY DEF IInv, CommittedAsStored, DeleteTraveller, Committed, bytes, TypeOK
<1>5. Spares' BY TimesNat, BudgetBelowMinAge DEF IInv, Spares, DeleteTraveller, Gone, bytes, TypeOK
<1>6. Collects' BY TimesNat, BudgetBelowMinAge DEF IInv, Collects, DeleteTraveller, bytes, TypeOK
<1> QED BY <1>1, <1>2, <1>3, <1>4, <1>5, <1>6 DEF IInv

LEMMA ForgetKeeps == ASSUME IInv, NEW k \in Keys, Forget(k) PROVE IInv'
<1>1. TypeOK' BY DEF IInv, TypeOK, Forget
<1>2. Owned' BY DEF IInv, Owned, Forget, Gone, TypeOK
<1>3. Carried' BY DEF IInv, Carried, Owned, Gone, Forget, MintedLeadsToBytes, TypeOK, RequestState,
      Sweeps
<1>4. CommittedAsStored' BY DEF IInv, CommittedAsStored, Owned, Gone, Forget, Committed, TypeOK
<1>5. Spares' BY TimesNat, BudgetBelowMinAge DEF IInv, Spares, Forget, Gone, TypeOK
<1>6. Collects' BY TimesNat, BudgetBelowMinAge DEF IInv, Collects, Forget, TypeOK, RequestState,
      Sweeps
<1> QED BY <1>1, <1>2, <1>3, <1>4, <1>5, <1>6 DEF IInv

LEMMA ForgetCutOffKeeps == ASSUME IInv, ForgetCutOff PROVE IInv'
<1>1. TypeOK' BY DEF IInv, TypeOK, ForgetCutOff, bytes
<1>2. Owned' BY DEF IInv, Owned, ForgetCutOff, Gone, bytes, TypeOK
<1>3. Carried' BY DEF IInv, Carried, ForgetCutOff, MintedLeadsToBytes, Gone, bytes, TypeOK
<1>4. CommittedAsStored' BY DEF IInv, CommittedAsStored, ForgetCutOff, Committed, bytes, TypeOK
<1>5. Spares' BY TimesNat, BudgetBelowMinAge DEF IInv, Spares, ForgetCutOff, Gone, bytes, TypeOK
<1>6. Collects' BY TimesNat, BudgetBelowMinAge DEF IInv, Collects, ForgetCutOff, bytes, TypeOK
<1> QED BY <1>1, <1>2, <1>3, <1>4, <1>5, <1>6 DEF IInv

LEMMA KnownObjectsKeeps == ASSUME IInv, KnownObjects PROVE IInv'
<1>1. TypeOK' BY DEF IInv, TypeOK, KnownObjects, bytes, RequestState, Sweeps
<1>2. Owned' BY DEF IInv, Owned, KnownObjects, Gone, bytes, TypeOK
<1>3. Carried' BY DEF IInv, Carried, KnownObjects, MintedLeadsToBytes, Gone, bytes, TypeOK
<1>4. CommittedAsStored' BY DEF IInv, CommittedAsStored, KnownObjects, Committed, bytes, TypeOK
<1>5. Spares' BY TimesNat, BudgetBelowMinAge DEF IInv, Spares, Owned, KnownObjects, Gone, bytes,
      TypeOK
<1>6. Collects' BY TimesNat, BudgetBelowMinAge DEF IInv, Collects, KnownObjects, bytes, TypeOK
<1> QED BY <1>1, <1>2, <1>3, <1>4, <1>5, <1>6 DEF IInv

LEMMA PlanNowKeeps == ASSUME IInv, PlanNow PROVE IInv'
<1>1. TypeOK' BY DEF IInv, TypeOK, PlanNow, WithinBudget, bytes, Sweeps
<1>2. Owned' BY DEF IInv, Owned, PlanNow, WithinBudget, Gone, bytes, TypeOK
<1>3. Carried' BY DEF IInv, Carried, PlanNow, WithinBudget, MintedLeadsToBytes, Gone, bytes, TypeOK
<1>4. CommittedAsStored' BY DEF IInv, CommittedAsStored, PlanNow, WithinBudget, Committed, bytes,
      TypeOK
<1>5. Spares' BY TimesNat, BudgetBelowMinAge DEF IInv, Spares, PlanNow, WithinBudget, Gone, bytes,
      TypeOK, RequestState, Sweeps
<1>6. Collects' BY TimesNat, BudgetBelowMinAge DEF IInv, Collects, PlanNow, WithinBudget, bytes,
      TypeOK
<1> QED BY <1>1, <1>2, <1>3, <1>4, <1>5, <1>6 DEF IInv

LEMMA ListKeyKeeps == ASSUME IInv, NEW k \in Keys, ListKey(k) PROVE IInv'
<1>1. TypeOK' BY DEF IInv, TypeOK, ListKey, WithinBudget, OldEnough, bytes, Sweeps
<1>2. Owned' BY DEF IInv, Owned, ListKey, WithinBudget, OldEnough, Gone, bytes, TypeOK
<1>3. Carried' BY DEF IInv, Carried, ListKey, WithinBudget, OldEnough, MintedLeadsToBytes, Gone,
      bytes, TypeOK
<1>4. CommittedAsStored' BY DEF IInv, CommittedAsStored, ListKey, WithinBudget, OldEnough,
      Committed, bytes, TypeOK
<1>5. Spares' BY TimesNat, BudgetBelowMinAge DEF IInv, Spares, ListKey, WithinBudget, OldEnough,
      Gone, bytes, TypeOK, RequestState, Row, Attributes, Sweeps
<1>6. Collects' BY TimesNat, BudgetBelowMinAge DEF IInv, Collects, Spares, ListKey, WithinBudget,
      OldEnough, bytes, TypeOK, RequestState, Row, Attributes, Sweeps
<1> QED BY <1>1, <1>2, <1>3, <1>4, <1>5, <1>6 DEF IInv

LEMMA StartApplyKeeps == ASSUME IInv, StartApply PROVE IInv'
<1>1. TypeOK' BY DEF IInv, TypeOK, StartApply, bytes, Sweeps
<1>2. Owned' BY DEF IInv, Owned, StartApply, Gone, bytes, TypeOK
<1>3. Carried' BY DEF IInv, Carried, StartApply, MintedLeadsToBytes, Gone, bytes, TypeOK
<1>4. CommittedAsStored' BY DEF IInv, CommittedAsStored, StartApply, Committed, bytes, TypeOK
<1>5. Spares' BY TimesNat, BudgetBelowMinAge DEF IInv, Spares, StartApply, Gone, bytes, TypeOK
<1>6. Collects' BY TimesNat, BudgetBelowMinAge DEF IInv, Collects, StartApply, bytes, TypeOK
<1> QED BY <1>1, <1>2, <1>3, <1>4, <1>5, <1>6 DEF IInv

LEMMA ApplyKeeps == ASSUME IInv, NEW k \in Keys, Apply(k) PROVE IInv'
<1>1. TypeOK'
  <2>1. bucket' \in [Keys -> Attributes \cup {None}] BY DEF IInv, TypeOK, Apply
  <2>2. sweep' \in Sweeps BY ApplySweeps
  <2> QED BY <2>1, <2>2 DEF IInv, TypeOK, Apply
<1>2. Owned' BY DEF IInv, Owned, Apply, WithinBudget, Gone, TypeOK
<1>3. Carried' BY DEF IInv, Carried, Spares, Gone, Apply, WithinBudget, MintedLeadsToBytes, TypeOK,
      RequestState, Sweeps
<1>4. CommittedAsStored' BY DEF IInv, CommittedAsStored, Spares, Owned, Gone, Apply, WithinBudget,
      Committed, TypeOK
<1>5. Spares'
  <2>1. \A l \in Keys : bucket'[l] # None => bucket'[l] = bucket[l] BY DEF IInv, TypeOK, Apply
  <2>2. sweep \in Sweeps BY DEF IInv, TypeOK, Apply
  <2>3. /\ sweep'.started = sweep.started /\ sweep'.now = sweep.now /\ sweep'.known = sweep.known
        /\ sweep'.orphans \subseteq sweep.orphans
    BY <2>2 DEF Apply, Sweeps
  <2> QED BY <2>1, <2>3 DEF IInv, Spares, Apply, Gone
<1>6. Collects'
  <2>1. \A l \in Keys : bucket'[l] # None => bucket'[l] = bucket[l] BY DEF IInv, TypeOK, Apply
  <2>2. sweep \in Sweeps BY DEF IInv, TypeOK, Apply
  <2>3. /\ sweep'.started = sweep.started /\ sweep'.known = sweep.known /\ sweep'.left = sweep.left
        /\ sweep'.stage = sweep.stage /\ sweep'.orphans = sweep.orphans \ {k}
        /\ sweep'.doomed \subseteq sweep.doomed /\ sweep.doomed \subseteq Keys
    BY <2>2 DEF Apply, Sweeps
  <2>4. k \notin sweep'.doomed \/ bucket'[k] = None
    BY <2>2 DEF IInv, TypeOK, Apply, Sweeps
  <2> QED BY <2>1, <2>3, <2>4 DEF IInv, Collects, Apply
<1> QED BY <1>1, <1>2, <1>3, <1>4, <1>5, <1>6 DEF IInv

LEMMA SweepDoneKeeps == ASSUME IInv, SweepDone PROVE IInv'
<1>1. TypeOK' BY DEF IInv, TypeOK, SweepDone, bytes
<1>2. Owned' BY DEF IInv, Owned, SweepDone, Gone, bytes, TypeOK
<1>3. Carried' BY DEF IInv, Carried, SweepDone, MintedLeadsToBytes, Gone, bytes, TypeOK
<1>4. CommittedAsStored' BY DEF IInv, CommittedAsStored, SweepDone, Committed, bytes, TypeOK
<1>5. Spares' BY TimesNat, BudgetBelowMinAge DEF IInv, Spares, SweepDone, Gone, bytes, TypeOK
<1>6. Collects' BY TimesNat, BudgetBelowMinAge DEF IInv, Collects, SweepDone, bytes, TypeOK
<1> QED BY <1>1, <1>2, <1>3, <1>4, <1>5, <1>6 DEF IInv

LEMMA SweepCutOffKeeps == ASSUME IInv, SweepCutOff PROVE IInv'
<1>1. TypeOK' BY DEF IInv, TypeOK, SweepCutOff, bytes
<1>2. Owned' BY DEF IInv, Owned, SweepCutOff, Gone, bytes, TypeOK
<1>3. Carried' BY DEF IInv, Carried, SweepCutOff, MintedLeadsToBytes, Gone, bytes, TypeOK
<1>4. CommittedAsStored' BY DEF IInv, CommittedAsStored, SweepCutOff, Committed, bytes, TypeOK
<1>5. Spares' BY TimesNat, BudgetBelowMinAge DEF IInv, Spares, SweepCutOff, Gone, bytes, TypeOK
<1>6. Collects' BY TimesNat, BudgetBelowMinAge DEF IInv, Collects, SweepCutOff, bytes, TypeOK
<1> QED BY <1>1, <1>2, <1>3, <1>4, <1>5, <1>6 DEF IInv

LEMMA StutterKeeps == IInv /\ UNCHANGED vars => IInv'
BY DEF IInv, vars, TypeOK, Owned, Carried, MintedLeadsToBytes, CommittedAsStored, Committed, Spares,
   Collects, Gone

LEMMA NextKeeps == IInv /\ [Next]_vars => IInv'
<1> SUFFICES ASSUME IInv, [Next]_vars PROVE IInv' OBVIOUS
<1>1. CASE Tick BY <1>1, TickKeeps
<1>2. CASE Deletion BY <1>2, DeleteTravellerKeeps, ForgetKeeps, ForgetCutOffKeeps DEF Deletion
<1>3. CASE Sweep
  BY <1>3, KnownObjectsKeeps, PlanNowKeeps, ListKeyKeeps, StartApplyKeeps, ApplyKeeps,
     SweepDoneKeeps, SweepCutOffKeeps DEF Sweep
<1>4. ASSUME NEW r \in Requests, Request(r) PROVE IInv'
  <2>1. CASE \E k \in Keys : ReadDeclared(r, k) \/ \E decl \in Declarations : BeginMedia(r, k, decl)
    BY <2>1, ReadDeclaredKeeps, BeginMediaKeeps
  <2>2. CASE \E t \in Travellers, objects \in SUBSET Objects \ {{}} : MintMedia(r, t, objects)
    BY <2>2, MintMediaKeeps
  <2>3. CASE PresignPut(r) \/ Stat(r) \/ MarkMediaUploaded(r) \/ PresignGets(r) \/ CutOff(r)
    BY <2>3, PresignPutKeeps, StatKeeps, MarkMediaUploadedKeeps, PresignGetsKeeps, CutOffKeeps
  <2> QED BY <1>4, <2>1, <2>2, <2>3 DEF Request
<1>5. CASE \E k \in Keys, decl \in Declarations : Put(k, decl) BY <1>5, PutKeeps
<1>6. CASE UNCHANGED vars BY <1>6, StutterKeeps
<1> QED BY <1>1, <1>2, <1>3, <1>4, <1>5, <1>6 DEF Next

-----------------------------------------------------------------------------
\* The inductive invariant holds of every behaviour: whatever uploads, begins,
\* deletions and ticks come between two steps of a commit, a mint, a deletion
\* or a sweep, what its next step relies on is still true.
THEOREM Invariance == Spec => []IInv
BY InitHolds, NextKeeps, PTL DEF Spec

\* Every row, stored object, request and sweep has its type.
THEOREM Typed == Spec => []TypeOK
<1>1. IInv => TypeOK BY DEF IInv
<1> QED BY <1>1, Invariance, PTL

\* A committed row has bytes, and they are the declared ones unless a begin
\* came between CommitMedia's read and its mark.
THEOREM CommitsAreStored == Spec => []CommittedAsStored
<1>1. IInv => CommittedAsStored BY DEF IInv
<1> QED BY <1>1, Invariance, PTL

\* MintMedia signs reads of bytes that are there while their traveller is.
THEOREM MintsLead == Spec => []MintedLeadsToBytes
<1>1. IInv => MintedLeadsToBytes BY DEF IInv, Carried
<1> QED BY <1>1, Invariance, PTL

\* A step of a deletion or of a sweep that removes bytes removes those of a
\* deleted traveller: the only fact about time used is that the age limit is
\* longer than the budget.
LEMMA StepTakesFromTheGone ==
    ASSUME IInv, [Next]_vars, NEW k \in Keys, bucket[k] # None, bucket'[k] = None
    PROVE  Gone(k)
<1>1. CASE \E l \in Keys : Forget(l) BY <1>1 DEF IInv, TypeOK, Owned, Forget
<1>2. CASE \E l \in Keys : Apply(l) BY <1>2 DEF IInv, TypeOK, Spares, Apply
<1>3. CASE \E l \in Keys, decl \in Declarations : Put(l, decl)
  BY <1>3, NoneIsNoRecord DEF IInv, TypeOK, Put, Attributes
<1>4. bucket' = bucket \/ (\E l \in Keys : Forget(l) \/ Apply(l))
        \/ \E l \in Keys, decl \in Declarations : Put(l, decl)
  BY DEF Next, Tick, Deletion, Sweep, Request, BeginMedia, PresignPut, ReadDeclared, Stat,
     MarkMediaUploaded, MintMedia, PresignGets, CutOff, DeleteTraveller, ForgetCutOff,
     KnownObjects, PlanNow, ListKey, StartApply, SweepDone, SweepCutOff, bytes, removers, vars
<1> QED BY <1>1, <1>2, <1>3, <1>4

\* Neither a sweep with a stale list of rows nor an interrupted deletion takes
\* bytes of a traveller that exists.
THEOREM OnlyFromTheGone == Spec => BytesTakenOnlyFromTheGone
<1>1. IInv /\ [Next]_vars =>
        [\A k \in Keys : bucket[k] # None /\ bucket'[k] = None => Owner(k) \notin travellers]_vars
  BY StepTakesFromTheGone DEF Gone
<1> QED BY <1>1, Invariance, PTL DEF Spec, BytesTakenOnlyFromTheGone

\* A sweep that ran to its end collected every old orphan it could.
THEOREM Collected == Spec => SweepCollects
<1>1. IInv /\ [Next]_vars =>
        [sweep # None /\ sweep' = None /\ sweep.stage = "removing" =>
            \A k \in sweep.doomed : bucket[k] = None \/ bucket[k].at >= sweep.started]_vars
  <2> SUFFICES ASSUME IInv, Next, sweep # None, sweep' = None, sweep.stage = "removing",
                      NEW k \in sweep.doomed
               PROVE  bucket[k] = None \/ bucket[k].at >= sweep.started
    OBVIOUS
  <2>1. sweep.left = {} BY DEF IInv, Collects
  <2>2. SweepDone \/ \E l \in Keys : Apply(l)
    BY DEF Next, Tick, Deletion, Sweep, Request, BeginMedia, PresignPut, ReadDeclared, Stat, Put,
       MarkMediaUploaded, MintMedia, PresignGets, CutOff, DeleteTraveller, Forget, ForgetCutOff,
       KnownObjects, PlanNow, ListKey, StartApply, SweepCutOff, removers
  <2>3. CASE SweepDone BY <2>1, <2>3 DEF IInv, Collects, SweepDone
  <2>4. CASE \E l \in Keys : Apply(l)
    BY <2>4, ApplySweeps, NoneIsNoRecord
  <2> QED BY <2>2, <2>3, <2>4
<1> QED BY <1>1, Invariance, PTL DEF Spec, SweepCollects
=============================================================================
