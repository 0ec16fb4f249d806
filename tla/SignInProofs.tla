---------------------------- MODULE SignInProofs ----------------------------
(***************************************************************************)
(* Safety of SignIn for every number of requests, travellers, sessions,    *)
(* invites and codes, and every choice of the lifetimes.                   *)
(***************************************************************************)
EXTENDS SignIn, FiniteSetTheorems, TLAPS

\* The part of TypeOK about the tables and the history.
Rows ==
    /\ clock \in Nat
    /\ travellers \in [Travellers -> Emails \cup {Unborn, Deleted}]
    /\ codes \in [Travellers -> CodeRow \cup {None}]
    /\ issued \in 0 .. MaxCodes
    /\ sessions \in [Sessions -> SessionRow \cup {Unborn, Deleted}]
    /\ invites \in [Invites -> InviteRow]
    /\ guesses \in Nat /\ spent \subseteq Codes
    /\ admitted \in [Invites -> SUBSET Travellers]
    /\ accepted \in [Sessions -> Nat]
    /\ \A t, u \in Travellers : Present(t) /\ travellers[t] = travellers[u] => t = u
    /\ \A t \in Travellers : codes[t] # None => Present(t)
    /\ \A k \in Sessions : Live(k) => Present(sessions[k].traveller)

\* The part about the requests.
Shapes ==
    /\ pc \in [Requests -> Stages]
    /\ req \in [Requests -> RequestState \cup {None}]
    /\ \A r \in Requests : pc[r] # "idle" => req[r] \in RequestState

Holds(t, c) == codes[t] # None /\ codes[t].code = c

\* Every code drawn is held once at most, and one that opened a session by nobody.
HeldOnce ==
    /\ \A t \in Travellers : codes[t] # None => codes[t].code <= issued
    /\ \A t, u \in Travellers : codes[t] # None /\ Holds(u, codes[t].code) => t = u
    /\ \A c \in spent : c <= issued /\ \A t \in Travellers : ~Holds(t, c)

Taken == {"used", "deleted"}

\* A claimed invite belongs to one registration until it admits its traveller.
Claims ==
    /\ \A r \in Requests : pc[r] = "creating" =>
          admitted[req[r].key] = {} /\ invites[req[r].key].state \in Taken
    /\ \A r, s \in Requests :
          pc[r] = "creating" /\ pc[s] = "creating" /\ req[r].key = req[s].key => r = s
    /\ \A i \in Invites : \A t, u \in admitted[i] : t = u
    /\ \A i \in Invites : admitted[i] # {} => invites[i].state \in Taken
    /\ \A t \in Travellers : travellers[t] # Unborn => \E i \in Invites : t \in admitted[i]

\* A session's lifetime never falls further behind its last use than a deadline.
Slides ==
    /\ \A k \in Sessions : accepted[k] <= clock
    /\ \A k \in Sessions : Live(k) =>
          sessions[k].expiresAt + Deadline >= sessions[k].lastUsed + SessionTTL
    /\ SessionSlides

\* What a request carries, stage by stage, and what is left of its key.
Carries(r) ==
    /\ req[r].at <= req[r].now /\ req[r].now <= clock /\ clock <= req[r].at + Deadline
    /\ pc[r] \in {"finding", "claiming", "creating"} => req[r].email \in Emails
    /\ pc[r] \in {"asking", "issuing", "reading", "counting", "burning", "spending", "minting",
                  "touching", "through", "recording"} => req[r].traveller \in Travellers
    /\ pc[r] \in {"finding", "reading", "spending", "minting"} => req[r].key \in 0 .. issued
    /\ pc[r] \in {"spending", "minting"} => req[r].key \in Codes
    /\ pc[r] \in {"looking", "touching", "through"} => req[r].key \in Sessions
    /\ pc[r] \in {"claiming", "creating", "recording"} => req[r].key \in Invites
    /\ pc[r] \in {"finding", "reading"} /\ req[r].dead =>
          \A t \in Travellers : Holds(t, req[r].key) => codes[t].expiresAt <= clock
    /\ pc[r] = "spending" => \A t \in Travellers : Holds(t, req[r].key) => t = req[r].traveller
    /\ pc[r] = "minting" => \A t \in Travellers : ~Holds(t, req[r].key)
    /\ pc[r] = "looking" /\ req[r].dead => Revoked(req[r].key)
    /\ pc[r] \in {"spending", "minting", "touching", "through"} => ~req[r].dead

AllCarry == \A r \in Requests : pc[r] # "idle" => Carries(r)

\* The inductive invariant.
IInv == Rows /\ Shapes /\ HeldOnce /\ Claims /\ Slides /\ AllCarry

-----------------------------------------------------------------------------
(***************************************************************************)
(* Steps of one request leave the others' facts alone.                     *)
(***************************************************************************)

\* Rows and Shapes are TypeOK taken apart.
LEMMA TypeSplit == TypeOK <=> Rows /\ Shapes
BY DEF TypeOK, Rows, Shapes

\* How the tables move: codes are kept, dropped or newer than any drawn so far,
\* and what is revoked stays so.
Forward ==
    /\ issued <= issued'
    /\ \A t \in Travellers :
          \/ codes'[t] = None
          \/ /\ codes[t] # None /\ codes'[t].code = codes[t].code
             /\ codes'[t].expiresAt = codes[t].expiresAt
          \/ codes'[t].code > issued
    /\ \A k \in Sessions : Revoked(k) => Revoked(k)'

\* A request that does not move keeps what it carries when the tables go forward.
LEMMA Stands ==
    ASSUME NEW s \in Requests, Rows, Rows', pc[s] # "idle", req[s] \in RequestState, Carries(s),
           pc'[s] = pc[s], req'[s] = req[s], Forward, clock <= clock', clock' <= req[s].at + Deadline
    PROVE  Carries(s)'
<1>1. /\ clock \in Nat /\ clock' \in Nat /\ issued \in Nat /\ issued' \in Nat /\ issued <= issued'
      /\ req[s].at \in Nat /\ req[s].now \in Nat /\ req[s].dead \in BOOLEAN
  BY DEF Rows, RequestState, Forward
<1>2. \A t \in Travellers : codes[t] # None => codes[t] \in CodeRow BY DEF Rows
<1>3. ASSUME NEW c \in 0 .. issued, NEW t \in Travellers, Holds(t, c)'
      PROVE  Holds(t, c) /\ codes'[t].expiresAt = codes[t].expiresAt
  BY <1>1, <1>3 DEF Holds, Forward
<1>4. ASSUME pc[s] \in {"finding", "reading"}, req[s].dead, NEW t \in Travellers, Holds(t, req[s].key)'
      PROVE  codes'[t].expiresAt <= clock'
  <2>1. req[s].key \in 0 .. issued BY <1>4 DEF Carries
  <2>2. Holds(t, req[s].key) /\ codes'[t].expiresAt = codes[t].expiresAt
    <3> req'[s].key = req[s].key OBVIOUS
    <3> QED BY <1>3, <1>4, <2>1
  <2>3. codes[t].expiresAt <= clock /\ codes[t].expiresAt \in Nat
    BY <1>2, <1>4, <2>2 DEF Carries, Holds, CodeRow
  <2> QED BY <1>1, <2>2, <2>3
<1>5. ASSUME pc[s] \in {"spending", "minting"}, NEW t \in Travellers, Holds(t, req[s].key)'
      PROVE  Holds(t, req[s].key)
  <2>1. req[s].key \in 0 .. issued BY <1>5 DEF Carries
  <2> QED BY <1>3, <1>5, <2>1
<1>6. pc[s] = "looking" /\ req[s].dead => Revoked(req[s].key)' BY DEF Carries, Forward
<1>7. req[s].key \in 0 .. issued => req[s].key \in 0 .. issued' BY <1>1
<1>8. req[s].now <= clock' BY <1>1 DEF Carries
<1> QED BY <1>4, <1>5, <1>6, <1>7, <1>8 DEF Carries

\* A step of request r keeps the invariant if the rows it writes keep their
\* part, the tables go forward and r carries what its new stage needs.
LEMMA RequestStep ==
    ASSUME IInv, NEW r \in Requests, NEW stage \in Stages, NEW q \in RequestState \cup {None},
           pc' = [pc EXCEPT ![r] = stage], req' = [req EXCEPT ![r] = q],
           stage # "idle" => q \in RequestState /\ Carries(r)',
           clock' = clock, Rows', Forward, HeldOnce', Claims', Slides'
    PROVE  IInv'
<1>1. Rows /\ Shapes /\ AllCarry BY DEF IInv
<1>2. /\ pc'[r] = stage /\ req'[r] = q
      /\ \A s \in Requests \ {r} : pc'[s] = pc[s] /\ req'[s] = req[s]
  BY <1>1 DEF Shapes
<1>3. Shapes' BY <1>1, <1>2 DEF Shapes
<1>4. AllCarry'
  <2> SUFFICES ASSUME NEW s \in Requests, pc'[s] # "idle" PROVE Carries(s)'
    BY DEF AllCarry
  <2>1. CASE s = r BY <1>2, <2>1
  <2>2. CASE s # r
    <3>1. pc'[s] = pc[s] /\ req'[s] = req[s] BY <1>2, <2>2
    <3>2. pc[s] # "idle" /\ req[s] \in RequestState /\ Carries(s)
      BY <1>1, <3>1 DEF AllCarry, Shapes
    <3>3. clock <= clock' /\ clock' <= req[s].at + Deadline BY <1>1, <3>2 DEF Rows, Carries
    <3> QED BY <1>1, <3>1, <3>2, <3>3, Stands
  <2> QED BY <2>1, <2>2
<1> QED BY <1>3, <1>4 DEF IInv

\* The claims stand while invites keep their state, nobody new is admitted and
\* no request comes to create an account.
LEMMA ClaimsStand ==
    ASSUME Claims, admitted' = admitted,
           \A i \in Invites : invites[i].state \in Taken => invites'[i].state \in Taken,
           \A s \in Requests : pc'[s] = "creating" =>
              pc[s] = "creating" /\ req'[s] = req[s] /\ req[s].key \in Invites,
           \A t \in Travellers : travellers[t] = Unborn => travellers'[t] = Unborn
    PROVE  Claims'
BY DEF Claims

\* A step of request r that writes nothing.
LEMMA QuietStep ==
    ASSUME IInv, NEW r \in Requests, NEW stage \in Stages \ {"creating"},
           NEW q \in RequestState \cup {None},
           pc' = [pc EXCEPT ![r] = stage], req' = [req EXCEPT ![r] = q],
           stage # "idle" => q \in RequestState /\ Carries(r)',
           UNCHANGED <<clock, tables, history>>
    PROVE  IInv'
<1>1. Rows /\ Shapes /\ AllCarry /\ HeldOnce /\ Claims /\ Slides BY DEF IInv
<1>2. UNCHANGED <<clock, travellers, codes, issued, sessions, invites, guesses, spent, admitted, accepted>>
  BY DEF tables, history
<1>3. Rows' BY <1>1, <1>2 DEF Rows, Present, Live
<1>4. Forward BY <1>1, <1>2 DEF Forward, Rows, Revoked, Live
<1>5. HeldOnce' BY <1>1, <1>2 DEF HeldOnce, Holds
<1>6. Slides' BY <1>1, <1>2 DEF Slides, SessionSlides, Live
<1>7. Claims'
  <2>1. ASSUME NEW s \in Requests, pc'[s] = "creating"
        PROVE  pc[s] = "creating" /\ req'[s] = req[s] /\ req[s].key \in Invites
    <3>1. s # r /\ pc[s] = "creating" /\ req'[s] = req[s] BY <1>1, <2>1 DEF Shapes
    <3> QED BY <1>1, <3>1 DEF AllCarry, Carries
  <2> QED BY <1>1, <1>2, <2>1, ClaimsStand
<1> HIDE DEF IInv
<1> QED BY <1>2, <1>3, <1>4, <1>5, <1>6, <1>7, RequestStep

\* What a step that writes sessions, codes or invites still has to show of the claims.
LEMMA ClaimsKept ==
    ASSUME IInv, NEW r \in Requests, NEW stage \in Stages \ {"creating"},
           pc' = [pc EXCEPT ![r] = stage],
           \A s \in Requests \ {r} : req'[s] = req[s],
           admitted' = admitted, travellers' = travellers,
           \A i \in Invites : invites[i].state \in Taken => invites'[i].state \in Taken
    PROVE  Claims'
<1>1. Shapes /\ AllCarry /\ Claims BY DEF IInv
<1>2. ASSUME NEW s \in Requests, pc'[s] = "creating"
      PROVE  pc[s] = "creating" /\ req'[s] = req[s] /\ req[s].key \in Invites
  <2>1. s # r /\ pc[s] = "creating" /\ req'[s] = req[s] BY <1>1, <1>2 DEF Shapes
  <2> QED BY <1>1, <2>1 DEF AllCarry, Carries
<1> QED BY <1>1, <1>2, ClaimsStand

\* What IInv says of a request in flight, and of the numbers in it.
LEMMA InFlight ==
    ASSUME IInv, NEW r \in Requests, pc[r] # "idle"
    PROVE  /\ req[r] \in RequestState /\ Carries(r)
           /\ req[r].at \in Nat /\ req[r].now \in Nat /\ clock \in Nat /\ Deadline \in Nat
           /\ req[r].now <= clock /\ clock <= req[r].at + Deadline /\ req[r].at <= req[r].now
BY LimitsNat DEF IInv, Shapes, AllCarry, Rows, RequestState, Carries

-----------------------------------------------------------------------------
(***************************************************************************)
(* Arrivals, and the steps that write nothing.                             *)
(***************************************************************************)

\* A request that has just arrived, at whichever of its three first stages.
LEMMA ArrivalKeeps ==
    ASSUME IInv, NEW r \in Requests, NEW stage \in {"finding", "looking", "claiming"},
           NEW kind \in Kinds, NEW email \in Emails \cup {None}, NEW key \in Keys,
           NEW dead \in BOOLEAN, Begin(r, stage, kind, email, key, dead),
           stage # "looking" => email \in Emails,
           stage = "finding" => key \in 0 .. issued,
           stage = "looking" => key \in Sessions,
           stage = "claiming" => key \in Invites,
           stage = "finding" /\ dead =>
              \A t \in Travellers : Holds(t, key) => codes[t].expiresAt <= clock,
           stage = "looking" /\ dead => Revoked(key)
    PROVE  IInv'
<1> DEFINE q == [kind |-> kind, email |-> email, key |-> key, traveller |-> None,
                 at |-> clock, now |-> clock, held |-> 0, dead |-> dead]
<1>1. /\ pc[r] = "idle" /\ pc' = [pc EXCEPT ![r] = stage] /\ req' = [req EXCEPT ![r] = q]
      /\ UNCHANGED <<clock, tables, history>>
  BY DEF Begin, Go
<1>2. stage \in Stages \ {"creating"} BY DEF Stages
<1>3. clock \in Nat /\ Deadline \in Nat BY LimitsNat DEF IInv, Rows
<1>4. q \in RequestState BY <1>3 DEF RequestState
<1>5. pc'[r] = stage /\ req'[r] = q BY <1>1 DEF IInv, Shapes
<1>6. UNCHANGED <<clock, codes, issued, sessions>> BY <1>1 DEF tables
<1>7. Carries(r)' BY <1>3, <1>5, <1>6 DEF Carries, Holds, Revoked, Live
<1> HIDE DEF IInv, q
<1> QED BY <1>1, <1>2, <1>4, <1>7, QuietStep

\* Arrivals of every kind keep the invariant: a key that is dead on arrival is
\* recorded so.
LEMMA ArriveKeeps ==
    ASSUME IInv, NEW r \in Requests, Arrive(r)
    PROVE  IInv'
<1>1. ASSUME NEW email \in Emails, ArriveRequestCode(r, email) PROVE IInv'
  <2>1. 0 \in Keys /\ 0 \in 0 .. issued /\ "requestCode" \in Kinds BY DEF Keys, IInv, Rows, Kinds
  <2> HIDE DEF IInv
  <2> QED BY <1>1, <2>1, ArrivalKeeps DEF ArriveRequestCode
<1>2. ASSUME NEW email \in Emails, NEW c \in 0 .. issued, ArriveSignIn(r, email, c) PROVE IInv'
  <2> DEFINE dead == c \in spent \/ ~Standing(c)
  <2>1. c \in Keys /\ "signIn" \in Kinds BY DEF Keys, IInv, Rows, Kinds
  <2>2. ASSUME dead, NEW t \in Travellers, Holds(t, c) PROVE codes[t].expiresAt <= clock
    <3>1. c \notin spent BY <2>2 DEF IInv, HeldOnce
    <3>2. ~Standing(c) BY <2>2, <3>1
    <3>3. codes[t].expiresAt \in Nat /\ clock \in Nat BY <2>2 DEF IInv, Rows, Holds, CodeRow
    <3> QED BY <2>2, <3>2, <3>3 DEF Standing, Holds
  <2>3. dead \in BOOLEAN OBVIOUS
  <2>4. Begin(r, "finding", "signIn", email, c, dead) BY <1>2 DEF ArriveSignIn
  <2> HIDE DEF IInv, dead
  <2> QED BY <2>1, <2>2, <2>3, <2>4, ArrivalKeeps
<1>3. ASSUME NEW email \in Emails, NEW i \in Invites, ArriveRegister(r, email, i) PROVE IInv'
  <2>1. i \in Keys /\ "register" \in Kinds BY DEF Keys, Kinds
  <2> HIDE DEF IInv
  <2> QED BY <1>3, <2>1, ArrivalKeeps DEF ArriveRegister
<1>4. ASSUME NEW kind \in {"read", "revokeThis", "revokeAll"}, NEW k \in Sessions,
             ArriveWithToken(r, kind, k)
      PROVE  IInv'
  <2>1. k \in Keys /\ kind \in Kinds BY DEF Keys, Kinds
  <2>2. Revoked(k) \in BOOLEAN BY DEF Revoked, Live, IInv, Rows, SessionRow
  <2>3. Begin(r, "looking", kind, None, k, Revoked(k)) BY <1>4 DEF ArriveWithToken
  <2> HIDE DEF IInv
  <2> QED BY <2>1, <2>2, <2>3, ArrivalKeeps
<1> QED BY <1>1, <1>2, <1>3, <1>4 DEF Arrive

\* A request that ends and writes nothing.
LEMMA EndQuietly ==
    ASSUME IInv, NEW r \in Requests, End(r), UNCHANGED <<clock, tables, history>>
    PROVE  IInv'
<1>1. "idle" \in Stages \ {"creating"} BY DEF Stages
<1>2. pc' = [pc EXCEPT ![r] = "idle"] /\ req' = [req EXCEPT ![r] = None] BY DEF End, Go
<1> QED BY <1>1, <1>2, QuietStep

\* A request cut off between two statements keeps the invariant.
LEMMA CutOffKeeps ==
    ASSUME IInv, NEW r \in Requests, CutOff(r)
    PROVE  IInv'
BY EndQuietly DEF CutOff

\* TravellerByEmail keeps the invariant.
LEMMA FindTravellerKeeps ==
    ASSUME IInv, NEW r \in Requests, FindTraveller(r)
    PROVE  IInv'
<1>1. CASE End(r) BY <1>1, EndQuietly DEF FindTraveller
<1>2. ASSUME NEW t \in Travellers, travellers[t] = req[r].email,
             req' = [req EXCEPT ![r].traveller = t],
             Go(r, IF req[r].kind = "requestCode" THEN "asking" ELSE "reading")
      PROVE  IInv'
  <2> DEFINE stage == IF req[r].kind = "requestCode" THEN "asking" ELSE "reading"
             q == [req[r] EXCEPT !.traveller = t]
  <2>1. pc[r] = "finding" /\ UNCHANGED <<clock, tables, history>> BY DEF FindTraveller
  <2>2. req[r] \in RequestState /\ Carries(r) BY <2>1, InFlight
  <2>3. stage \in Stages \ {"creating"} BY DEF Stages
  <2>4. q \in RequestState BY <2>2 DEF RequestState
  <2>5. pc' = [pc EXCEPT ![r] = stage] /\ req' = [req EXCEPT ![r] = q] BY <1>2 DEF Go
  <2>6. pc'[r] = stage /\ req'[r] = q BY <2>5 DEF IInv, Shapes
  <2>7. UNCHANGED <<clock, codes, issued, sessions>> BY <2>1 DEF tables
  <2>8. /\ q.at = req[r].at /\ q.now = req[r].now /\ q.key = req[r].key
        /\ q.dead = req[r].dead /\ q.traveller = t
    BY <2>2 DEF RequestState
  <2>9. Carries(r)' BY <2>1, <2>2, <2>6, <2>7, <2>8 DEF Carries, Holds
  <2> HIDE DEF IInv, q, stage
  <2> QED BY <2>1, <2>3, <2>4, <2>5, <2>9, QuietStep
<1> QED BY <1>1, <1>2 DEF FindTraveller

\* RequestCode's look at the code it may be about to replace keeps the
\* invariant.
LEMMA AskForCodeKeeps ==
    ASSUME IInv, NEW r \in Requests, AskForCode(r)
    PROVE  IInv'
<1>1. CASE End(r) BY <1>1, EndQuietly DEF AskForCode
<1>2. CASE Go(r, "issuing") /\ req' = [req EXCEPT ![r].now = clock]
  <2> DEFINE q == [req[r] EXCEPT !.now = clock]
  <2>1. pc[r] = "asking" /\ UNCHANGED <<clock, tables, history>> BY DEF AskForCode
  <2>2. /\ req[r] \in RequestState /\ Carries(r) /\ clock \in Nat
        /\ req[r].at \in Nat /\ req[r].at <= clock
    BY <2>1, InFlight
  <2>3. "issuing" \in Stages \ {"creating"} BY DEF Stages
  <2>4. q \in RequestState BY <2>2 DEF RequestState
  <2>5. pc' = [pc EXCEPT ![r] = "issuing"] /\ req' = [req EXCEPT ![r] = q] BY <1>2 DEF Go
  <2>6. pc'[r] = "issuing" /\ req'[r] = q BY <2>5 DEF IInv, Shapes
  <2>7. UNCHANGED clock BY <2>1
  <2>8. q.at = req[r].at /\ q.now = clock /\ q.traveller = req[r].traveller
    BY <2>2 DEF RequestState
  <2>9. Carries(r)' BY <2>1, <2>2, <2>6, <2>7, <2>8 DEF Carries
  <2> HIDE DEF IInv, q
  <2> QED BY <2>1, <2>3, <2>4, <2>5, <2>9, QuietStep
<1> QED BY <1>1, <1>2 DEF AskForCode

\* SignInWithCode's read keeps the invariant: the code it is about to spend is
\* alive and held by nobody else.
LEMMA ReadCodeKeeps ==
    ASSUME IInv, NEW r \in Requests, ReadCode(r)
    PROVE  IInv'
<1> DEFINE row == codes[req[r].traveller]
<1>1. CASE End(r) BY <1>1, EndQuietly DEF ReadCode
<1>2. CASE ~End(r)
  <2> DEFINE stage == IF ~Usable(row) THEN "burning"
                      ELSE IF row.code = req[r].key THEN "spending" ELSE "counting"
             q == [req[r] EXCEPT !.held = IF Usable(row) THEN row.code ELSE 0]
  <2>1. /\ pc[r] = "reading" /\ UNCHANGED <<clock, tables, history>> /\ row # None
        /\ pc' = [pc EXCEPT ![r] = stage] /\ req' = [req EXCEPT ![r] = q]
    BY <1>2 DEF ReadCode, Go
  <2>2. /\ req[r] \in RequestState /\ Carries(r) /\ clock \in Nat
        /\ req[r].traveller \in Travellers /\ req[r].key \in 0 .. issued
    BY <2>1, InFlight DEF Carries
  <2>3. row \in CodeRow BY <2>1, <2>2 DEF IInv, Rows
  <2>4. row.code \in Codes /\ row.code \in Nat /\ row.expiresAt \in Nat BY <2>3 DEF CodeRow, Codes
  <2>5. stage \in Stages \ {"creating"} BY DEF Stages
  <2>6. q \in RequestState BY <2>2, <2>4 DEF RequestState
  <2>7. pc'[r] = stage /\ req'[r] = q BY <2>1 DEF IInv, Shapes
  <2>8. /\ q.at = req[r].at /\ q.now = req[r].now /\ q.key = req[r].key
        /\ q.dead = req[r].dead /\ q.traveller = req[r].traveller
    BY <2>2 DEF RequestState
  <2>9. UNCHANGED <<clock, codes, issued, sessions>> BY <2>1 DEF tables
  <2>10. ASSUME stage = "spending"
         PROVE  /\ req[r].key \in Codes /\ ~req[r].dead
                /\ \A t \in Travellers : Holds(t, req[r].key) => t = req[r].traveller
    <3>1. Usable(row) /\ row.code = req[r].key BY <2>10
    <3>2. ~req[r].dead BY <2>1, <2>2, <2>4, <3>1 DEF Carries, Usable, Holds
    <3>3. \A t \in Travellers : Holds(t, req[r].key) => t = req[r].traveller
      BY <2>1, <2>2, <3>1 DEF IInv, HeldOnce
    <3> QED BY <2>4, <3>1, <3>2, <3>3
  <2>11. stage \in {"burning", "spending", "counting"} OBVIOUS
  <2>12. Carries(r)'
    <3> HIDE DEF stage, q
    <3> QED BY <2>1, <2>2, <2>7, <2>8, <2>9, <2>10, <2>11 DEF Carries, Holds
  <2> HIDE DEF IInv, q, stage
  <2> QED BY <2>1, <2>5, <2>6, <2>12, QuietStep
<1> QED BY <1>1, <1>2

-----------------------------------------------------------------------------
(***************************************************************************)
(* Codes.                                                                  *)
(***************************************************************************)

\* A step of request r on the codes alone.
LEMMA CodesStep ==
    ASSUME IInv, NEW r \in Requests, NEW stage \in Stages \ {"creating"},
           NEW q \in RequestState \cup {None},
           pc' = [pc EXCEPT ![r] = stage], req' = [req EXCEPT ![r] = q],
           stage # "idle" => q \in RequestState /\ Carries(r)',
           codes' \in [Travellers -> CodeRow \cup {None}], issued' \in 0 .. MaxCodes, guesses' \in Nat,
           \A t \in Travellers : codes'[t] # None => Present(t),
           Forward, HeldOnce',
           UNCHANGED <<clock, travellers, sessions, invites, spent, admitted, accepted>>
    PROVE  IInv'
<1>1. Rows /\ Shapes /\ Slides BY DEF IInv
<1>2. Rows' BY <1>1 DEF Rows, Present, Live
<1>3. Slides' BY <1>1 DEF Slides, SessionSlides, Live
<1>4. \A s \in Requests \ {r} : req'[s] = req[s] BY <1>1 DEF Shapes
<1> HIDE DEF IInv
<1>5. Claims' BY <1>4, ClaimsKept
<1> QED BY <1>2, <1>3, <1>5, RequestStep

\* IssueCode keeps the invariant: the code is newer than any key presented so
\* far.
LEMMA IssueCodeKeeps ==
    ASSUME IInv, NEW r \in Requests, IssueCode(r)
    PROVE  IInv'
<1> DEFINE t == req[r].traveller
<1>1. /\ pc[r] = "issuing" /\ pc' = [pc EXCEPT ![r] = "idle"] /\ req' = [req EXCEPT ![r] = None]
      /\ UNCHANGED <<clock, travellers, sessions, invites, spent, admitted, accepted>>
  BY DEF IssueCode, End, Go
<1>2. t \in Travellers /\ clock \in Nat /\ req[r].now \in Nat BY <1>1, InFlight DEF Carries
<1>3. Rows /\ HeldOnce BY DEF IInv
<1>4. "idle" \in Stages \ {"creating"} BY DEF Stages
<1>5. CASE ~Present(t)
  <2>1. UNCHANGED <<codes, issued, guesses>> BY <1>5 DEF IssueCode
  <2>2. UNCHANGED <<clock, tables, history>> BY <1>1, <2>1 DEF tables, history
  <2> QED BY <1>1, <1>4, <2>2, QuietStep
<1>6. CASE Present(t)
  <2> DEFINE row == [code |-> issued + 1, issuedAt |-> clock,
                     expiresAt |-> req[r].now + CodeTTL, attempts |-> 0]
  <2>1. /\ issued < MaxCodes /\ issued' = issued + 1 /\ guesses' = 0
        /\ codes' = [codes EXCEPT ![t] = row]
    BY <1>6 DEF IssueCode
  <2>2. issued \in Nat /\ MaxCodes \in Nat /\ CodeTTL \in Nat BY <1>3, LimitsNat DEF Rows
  <2>3. row \in CodeRow BY <1>2, <2>1, <2>2 DEF CodeRow, Codes
  <2>4. codes' \in [Travellers -> CodeRow \cup {None}] BY <1>3, <2>1, <2>3 DEF Rows
  <2>5. /\ codes'[t] = row /\ row.code = issued + 1
        /\ \A u \in Travellers \ {t} : codes'[u] = codes[u]
    BY <1>2, <1>3, <2>1 DEF Rows
  <2>6. \A u \in Travellers : codes'[u] # None => Present(u) BY <1>3, <1>6, <2>5 DEF Rows
  <2>7. issued' \in 0 .. MaxCodes /\ guesses' \in Nat BY <2>1, <2>2
  <2>8. \A u \in Travellers : codes[u] # None => codes[u].code \in Nat
    BY <1>3 DEF Rows, CodeRow, Codes
  <2>9. Forward
    <3> HIDE DEF row
    <3> QED BY <1>1, <2>1, <2>2, <2>5 DEF Forward, Revoked, Live
  <2>10. spent \subseteq Nat BY <1>3 DEF Rows, Codes
  <2>11. HeldOnce'
    <3> HIDE DEF row
    <3> QED BY <1>1, <1>3, <2>1, <2>2, <2>5, <2>8, <2>10 DEF HeldOnce, Holds
  <2> HIDE DEF IInv, row, t
  <2> QED BY <1>1, <1>4, <2>4, <2>6, <2>7, <2>9, <2>11, CodesStep
<1> QED BY <1>5, <1>6

\* CountAttempt keeps the invariant: it replaces no code.
LEMMA CountAttemptKeeps ==
    ASSUME IInv, NEW r \in Requests, CountAttempt(r)
    PROVE  IInv'
<1> DEFINE t == req[r].traveller
<1>1. /\ pc[r] = "counting" /\ UNCHANGED <<clock, travellers, issued, sessions, invites, spent, admitted, accepted>>
      /\ guesses' = IF req[r].held = issued THEN guesses + 1 ELSE guesses
  BY DEF CountAttempt
<1>2. t \in Travellers /\ req[r] \in RequestState /\ Carries(r) BY <1>1, InFlight DEF Carries
<1>3. Rows /\ HeldOnce /\ Shapes BY DEF IInv
<1>4. guesses' \in Nat /\ issued' \in 0 .. MaxCodes BY <1>1, <1>3 DEF Rows
<1>5. {"idle", "burning"} \subseteq Stages \ {"creating"} BY DEF Stages
<1>6. codes' \in [Travellers -> CodeRow \cup {None}]
      /\ \A u \in Travellers : \/ codes'[u] = codes[u]
                               \/ /\ codes[u] # None /\ codes'[u] # None
                                  /\ codes'[u].code = codes[u].code
                                  /\ codes'[u].expiresAt = codes[u].expiresAt
  <2>1. CASE codes[t] = None BY <1>3, <2>1 DEF CountAttempt, Rows
  <2>2. CASE codes[t] # None
    <3> DEFINE row == [codes[t] EXCEPT !.attempts = @ + 1]
    <3>1. codes[t] \in CodeRow BY <1>2, <1>3, <2>2 DEF Rows
    <3>2. row \in CodeRow /\ row.code = codes[t].code /\ row.expiresAt = codes[t].expiresAt
      BY <3>1 DEF CodeRow
    <3>3. codes' = [codes EXCEPT ![t] = row] BY <2>2 DEF CountAttempt
    <3>4. row # None BY <3>2, MarkersAreNoRows
    <3> HIDE DEF row
    <3> QED BY <1>2, <1>3, <2>2, <3>2, <3>3, <3>4 DEF Rows
  <2> QED BY <2>1, <2>2
<1>7. \A u \in Travellers : codes'[u] # None => Present(u) BY <1>3, <1>6 DEF Rows
<1>8. issued \in Nat BY <1>3 DEF Rows
<1>9. Forward BY <1>1, <1>6, <1>8 DEF Forward, Revoked, Live
<1>10. HeldOnce' BY <1>1, <1>3, <1>6 DEF HeldOnce, Holds
<1>11. CASE End(r)
  <2>1. pc' = [pc EXCEPT ![r] = "idle"] /\ req' = [req EXCEPT ![r] = None] BY <1>11 DEF End, Go
  <2> HIDE DEF IInv
  <2> QED BY <1>1, <1>4, <1>5, <1>6, <1>7, <1>9, <1>10, <2>1, CodesStep
<1>12. CASE Go(r, "burning") /\ UNCHANGED req
  <2>1. pc' = [pc EXCEPT ![r] = "burning"] /\ req' = [req EXCEPT ![r] = req[r]]
    BY <1>3, <1>12 DEF Go, Shapes
  <2>2. pc'[r] = "burning" /\ req'[r] = req[r] BY <1>3, <2>1 DEF Shapes
  <2>3. Carries(r)' BY <1>1, <1>2, <2>2 DEF Carries
  <2> HIDE DEF IInv
  <2> QED BY <1>1, <1>2, <1>4, <1>5, <1>6, <1>7, <1>9, <1>10, <2>1, <2>3, CodesStep
<1> QED BY <1>11, <1>12 DEF CountAttempt

\* BurnCode keeps the invariant: afterwards nobody holds the code that was
\* spent.
LEMMA BurnCodeKeeps ==
    ASSUME IInv, NEW r \in Requests, BurnCode(r)
    PROVE  IInv'
<1> DEFINE t == req[r].traveller
<1>1. /\ pc[r] \in {"burning", "spending"} /\ codes' = [codes EXCEPT ![t] = None]
      /\ UNCHANGED <<clock, travellers, issued, sessions, invites, guesses, spent, admitted, accepted>>
  BY DEF BurnCode, history
<1>2. t \in Travellers /\ req[r] \in RequestState /\ Carries(r) /\ req[r].at \in Nat
      /\ clock \in Nat /\ req[r].at <= clock
  BY <1>1, InFlight DEF Carries
<1>3. Rows /\ HeldOnce /\ Shapes BY DEF IInv
<1>4. guesses' \in Nat /\ issued' \in 0 .. MaxCodes BY <1>1, <1>3 DEF Rows
<1>5. {"idle", "minting"} \subseteq Stages \ {"creating"} BY DEF Stages
<1>6. /\ codes' \in [Travellers -> CodeRow \cup {None}] /\ codes'[t] = None
      /\ \A u \in Travellers \ {t} : codes'[u] = codes[u]
  BY <1>1, <1>2, <1>3 DEF Rows
<1>7. \A u \in Travellers : codes'[u] # None => Present(u) BY <1>3, <1>6 DEF Rows
<1>8. issued \in Nat BY <1>3 DEF Rows
<1>9. Forward BY <1>1, <1>6, <1>8 DEF Forward, Revoked, Live
<1>10. HeldOnce' BY <1>1, <1>3, <1>6 DEF HeldOnce, Holds
<1>11. CASE pc[r] = "burning"
  <2>1. pc' = [pc EXCEPT ![r] = "idle"] /\ req' = [req EXCEPT ![r] = None]
    BY <1>11 DEF BurnCode, End, Go
  <2> HIDE DEF IInv
  <2> QED BY <1>1, <1>4, <1>5, <1>6, <1>7, <1>9, <1>10, <2>1, CodesStep
<1>12. CASE pc[r] = "spending"
  <2> DEFINE q == [req[r] EXCEPT !.now = clock]
  <2>1. pc' = [pc EXCEPT ![r] = "minting"] /\ req' = [req EXCEPT ![r] = q] BY <1>12 DEF BurnCode, Go
  <2>2. pc'[r] = "minting" /\ req'[r] = q BY <1>3, <2>1 DEF Shapes
  <2>3. /\ q \in RequestState /\ q.at = req[r].at /\ q.now = clock /\ q.key = req[r].key
        /\ q.dead = req[r].dead /\ q.traveller = t
    BY <1>2 DEF RequestState
  <2>4. \A u \in Travellers : ~Holds(u, req[r].key)' BY <1>2, <1>6, <1>12, <2>2, <2>3 DEF Carries, Holds
  <2>5. Carries(r)'
    <3> HIDE DEF q, t
    <3> QED BY <1>1, <1>2, <1>12, <2>2, <2>3, <2>4 DEF Carries
  <2> HIDE DEF IInv, q
  <2> QED BY <1>1, <1>4, <1>5, <1>6, <1>7, <1>9, <1>10, <2>1, <2>3, <2>5, CodesStep
<1> QED BY <1>1, <1>11, <1>12

-----------------------------------------------------------------------------
(***************************************************************************)
(* Sessions.                                                               *)
(***************************************************************************)

\* A step of request r on the sessions, and on the codes they were opened with.
LEMMA SessionsStep ==
    ASSUME IInv, NEW r \in Requests, NEW stage \in Stages \ {"creating"},
           NEW q \in RequestState \cup {None},
           pc' = [pc EXCEPT ![r] = stage], req' = [req EXCEPT ![r] = q],
           stage # "idle" => q \in RequestState /\ Carries(r)',
           sessions' \in [Sessions -> SessionRow \cup {Unborn, Deleted}], spent' \subseteq Codes,
           accepted' \in [Sessions -> Nat],
           \A k \in Sessions : Live(k)' => Present(sessions'[k].traveller),
           \A k \in Sessions : Revoked(k) => Revoked(k)',
           HeldOnce', Slides',
           UNCHANGED <<clock, travellers, codes, issued, invites, guesses, admitted>>
    PROVE  IInv'
<1>1. Rows /\ Shapes BY DEF IInv
<1>2. Rows' BY <1>1 DEF Rows, Present
<1>3. Forward BY <1>1 DEF Forward, Rows
<1>4. \A s \in Requests \ {r} : req'[s] = req[s] BY <1>1 DEF Shapes
<1> HIDE DEF IInv
<1>5. Claims' BY <1>4, ClaimsKept
<1> QED BY <1>2, <1>3, <1>5, RequestStep

\* Numbers a session's row carries.
LEMMA SessionNumbers ==
    ASSUME IInv, NEW k \in Sessions
    PROVE  /\ accepted[k] \in Nat /\ accepted[k] <= clock /\ clock \in Nat
           /\ Live(k) => /\ sessions[k] \in SessionRow
                         /\ sessions[k].expiresAt \in Nat /\ sessions[k].lastUsed \in Nat
                         /\ sessions[k].traveller \in Travellers
                         /\ sessions[k].revoked \in BOOLEAN
BY DEF IInv, Rows, Slides, Live, SessionRow

\* The lifetimes are positive numbers.
LEMMA Lifetimes ==
    /\ SessionTTL \in Nat /\ TouchInterval \in Nat /\ Deadline \in Nat /\ CodeTTL \in Nat
    /\ TouchInterval >= 1
BY LimitsNat

\* Touching a row moves its two moments and nothing else.
LEMMA TouchedRow ==
    ASSUME NEW row \in SessionRow, NEW now \in Nat
    PROVE  /\ Touched(row, now) \in SessionRow
           /\ Touched(row, now).traveller = row.traveller
           /\ Touched(row, now).revoked = row.revoked
           /\ Touched(row, now).lastUsed = now /\ Touched(row, now).expiresAt = now + SessionTTL
<1>1. now + SessionTTL \in Nat BY Lifetimes
<1> DEFINE end == now + SessionTTL
<1>2. end \in Nat BY <1>1
<1>3. Touched(row, now) = [row EXCEPT !.lastUsed = now, !.expiresAt = end] BY DEF Touched
<1> HIDE DEF end
<1>4. Touched(row, now) \in SessionRow BY <1>2, <1>3 DEF SessionRow
<1>5. /\ Touched(row, now).traveller = row.traveller /\ Touched(row, now).lastUsed = now
      /\ Touched(row, now).revoked = row.revoked /\ Touched(row, now).expiresAt = end
  BY <1>3 DEF SessionRow
<1> QED BY <1>4, <1>5 DEF end

\* CreateSession keeps the invariant: it starts a session within a deadline of
\* its lifetime.
LEMMA CreateSessionKeeps ==
    ASSUME IInv, NEW r \in Requests, NEW k \in Sessions, CreateSession(r, k)
    PROVE  IInv'
<1> DEFINE t == req[r].traveller
<1>1. /\ pc[r] = "minting" /\ sessions[k] = Unborn
      /\ pc' = [pc EXCEPT ![r] = "idle"] /\ req' = [req EXCEPT ![r] = None]
      /\ UNCHANGED <<clock, travellers, codes, issued, invites, guesses, admitted>>
  BY DEF CreateSession, End, Go
<1>2. /\ t \in Travellers /\ req[r].key \in Codes /\ req[r].key \in 0 .. issued
      /\ \A u \in Travellers : ~Holds(u, req[r].key)
      /\ req[r].now \in Nat /\ clock \in Nat /\ req[r].at \in Nat
      /\ req[r].at <= req[r].now /\ clock <= req[r].at + Deadline
  BY <1>1, InFlight DEF Carries
<1>3. Rows /\ HeldOnce /\ Slides BY DEF IInv
<1>4. "idle" \in Stages \ {"creating"} BY DEF Stages
<1>5. CASE ~Present(t)
  <2>1. UNCHANGED <<sessions, spent, accepted>> BY <1>5 DEF CreateSession
  <2>2. UNCHANGED <<clock, tables, history>> BY <1>1, <2>1 DEF tables, history
  <2> QED BY <1>1, <1>4, <2>2, QuietStep
<1>6. CASE Present(t)
  <2> DEFINE row == [traveller |-> t, lastUsed |-> clock, expiresAt |-> req[r].now + SessionTTL,
                     revoked |-> FALSE]
  <2>1. /\ spent' = spent \cup {req[r].key} /\ sessions' = [sessions EXCEPT ![k] = row]
        /\ accepted' = [accepted EXCEPT ![k] = clock]
    BY <1>6 DEF CreateSession
  <2>2. row \in SessionRow BY <1>2, Lifetimes DEF SessionRow
  <2>3. /\ sessions' \in [Sessions -> SessionRow \cup {Unborn, Deleted}]
        /\ accepted' \in [Sessions -> Nat] /\ spent' \subseteq Codes
    BY <1>2, <1>3, <2>1, <2>2 DEF Rows
  <2>4. /\ sessions'[k] = row /\ accepted'[k] = clock
        /\ \A l \in Sessions \ {k} : sessions'[l] = sessions[l] /\ accepted'[l] = accepted[l]
    BY <1>3, <2>1 DEF Rows
  <2>5. \A l \in Sessions : Live(l)' => Present(sessions'[l].traveller)
    BY <1>3, <1>6, <2>4 DEF Rows, Live
  <2>6. \A l \in Sessions : Revoked(l) => Revoked(l)'
    BY <1>1, <2>4, MarkersAreNoRows DEF Revoked, Live
  <2>7. HeldOnce' BY <1>1, <1>2, <1>3, <2>1 DEF HeldOnce, Holds
  <2>8. Slides'
    <3>1. clock + SessionTTL <= row.expiresAt + Deadline /\ row.lastUsed = clock
      BY <1>2, Lifetimes
    <3>2. row.expiresAt \in Nat BY <1>2, Lifetimes
    <3> HIDE DEF row
    <3> QED BY <1>1, <1>2, <1>3, <2>4, <3>1, <3>2, Lifetimes DEF Slides, SessionSlides, Live
  <2> HIDE DEF IInv, row, t
  <2> QED BY <1>1, <1>4, <2>3, <2>5, <2>6, <2>7, <2>8, SessionsStep
<1> QED BY <1>5, <1>6

\* SessionByTokenHash keeps the invariant: a session let through untouched was
\* touched lately.
LEMMA LookUpSessionKeeps ==
    ASSUME IInv, NEW r \in Requests, LookUpSession(r)
    PROVE  IInv'
<1> DEFINE k == req[r].key
<1>1. pc[r] = "looking" /\ UNCHANGED <<clock, tables, guesses, spent, admitted>> BY DEF LookUpSession
<1>2. CASE ~(Live(k) /\ Good(sessions[k]))
  <2>1. End(r) /\ UNCHANGED <<clock, tables, history>> BY <1>1, <1>2 DEF LookUpSession, history
  <2> QED BY <2>1, EndQuietly
<1>3. CASE Live(k) /\ Good(sessions[k])
  <2> DEFINE q == [req[r] EXCEPT !.traveller = sessions[k].traveller, !.now = clock]
             stage == IF clock - sessions[k].lastUsed >= TouchInterval THEN "touching" ELSE "through"
  <2>1. /\ pc' = [pc EXCEPT ![r] = stage] /\ req' = [req EXCEPT ![r] = q]
        /\ accepted' = IF stage = "touching" THEN accepted ELSE [accepted EXCEPT ![k] = clock]
    BY <1>3 DEF LookUpSession, Go
  <2>2. /\ req[r] \in RequestState /\ Carries(r) /\ k \in Sessions
        /\ req[r].at \in Nat /\ clock \in Nat /\ req[r].at <= clock
    BY <1>1, InFlight DEF Carries
  <2>3. /\ sessions[k].lastUsed \in Nat /\ sessions[k].expiresAt \in Nat
        /\ sessions[k].traveller \in Travellers /\ sessions[k].revoked \in BOOLEAN
    BY <1>3, <2>2, SessionNumbers
  <2>4. Rows /\ Slides /\ Shapes /\ HeldOnce BY DEF IInv
  <2>5. stage \in Stages \ {"creating"} /\ stage \in {"touching", "through"} BY DEF Stages
  <2>6. /\ q \in RequestState /\ q.at = req[r].at /\ q.now = clock /\ q.key = k
        /\ q.dead = req[r].dead /\ q.traveller = sessions[k].traveller
    BY <2>2, <2>3 DEF RequestState
  <2>7. pc'[r] = stage /\ req'[r] = q BY <2>1, <2>4 DEF Shapes
  <2>8. UNCHANGED <<clock, travellers, codes, issued, sessions, invites>> BY <1>1 DEF tables
  <2>9. ~req[r].dead
    <3>1. ~Revoked(k) BY <1>3, <2>3 DEF Revoked, Good, Live
    <3> QED BY <1>1, <2>2, <3>1 DEF Carries
  <2>10. Carries(r)'
    <3> HIDE DEF q, stage, k
    <3> QED BY <2>2, <2>3, <2>5, <2>6, <2>7, <2>8, <2>9 DEF Carries
  <2>11. accepted' \in [Sessions -> Nat] BY <2>1, <2>2, <2>4 DEF Rows
  <2>12. Slides'
    <3>1. CASE stage = "touching" BY <2>1, <2>4, <2>8, <3>1 DEF Slides, SessionSlides, Live
    <3>2. CASE stage = "through"
      <4>1. sessions[k].expiresAt + TouchInterval + Deadline > clock + SessionTTL
        <5>1. clock - sessions[k].lastUsed < TouchInterval BY <2>2, <2>3, <3>2, Lifetimes
        <5>2. sessions[k].expiresAt + Deadline >= sessions[k].lastUsed + SessionTTL
          BY <1>3, <2>2, <2>4 DEF Slides
        <5> QED BY <2>2, <2>3, <5>1, <5>2, Lifetimes
      <4>2. /\ accepted'[k] = clock
            /\ \A l \in Sessions \ {k} : accepted'[l] = accepted[l]
        BY <2>1, <2>2, <2>4, <3>2 DEF Rows
      <4> QED BY <2>2, <2>4, <2>8, <4>1, <4>2 DEF Slides, SessionSlides, Live
    <3> QED BY <2>5, <3>1, <3>2
  <2>13. HeldOnce' BY <1>1, <2>4, <2>8 DEF HeldOnce, Holds
  <2>14. /\ sessions' \in [Sessions -> SessionRow \cup {Unborn, Deleted}] /\ spent' \subseteq Codes
         /\ \A l \in Sessions : Live(l)' => Present(sessions'[l].traveller)
         /\ \A l \in Sessions : Revoked(l) => Revoked(l)'
    BY <1>1, <2>4, <2>8 DEF Rows, Live, Revoked
  <2> HIDE DEF IInv, q, stage, k
  <2> QED BY <1>1, <2>1, <2>5, <2>6, <2>8, <2>10, <2>11, <2>12, <2>13, <2>14, SessionsStep
<1> QED BY <1>2, <1>3

\* TouchSession keeps the invariant, on a session revoked or touched since it
\* was read too.
LEMMA TouchSessionKeeps ==
    ASSUME IInv, NEW r \in Requests, TouchSession(r)
    PROVE  IInv'
<1> DEFINE k == req[r].key
<1>1. pc[r] = "touching" /\ UNCHANGED <<clock, travellers, codes, issued, invites, guesses, spent, admitted>>
  BY DEF TouchSession
<1>2. CASE ~Live(k)
  <2>1. End(r) /\ UNCHANGED <<clock, tables, history>> BY <1>1, <1>2 DEF TouchSession, tables, history
  <2> QED BY <2>1, EndQuietly
<1>3. CASE Live(k)
  <2> DEFINE row == Touched(sessions[k], req[r].now)
             last == IF accepted[k] > req[r].now THEN accepted[k] ELSE req[r].now
  <2>1. /\ sessions' = [sessions EXCEPT ![k] = row] /\ accepted' = [accepted EXCEPT ![k] = last]
        /\ pc' = [pc EXCEPT ![r] = "through"] /\ req' = req
    BY <1>3 DEF TouchSession, Go
  <2>2. /\ req[r] \in RequestState /\ Carries(r) /\ k \in Sessions
        /\ req[r].at \in Nat /\ req[r].now \in Nat /\ clock \in Nat
        /\ req[r].at <= req[r].now /\ req[r].now <= clock /\ clock <= req[r].at + Deadline
    BY <1>1, InFlight DEF Carries
  <2>3. sessions[k] \in SessionRow /\ accepted[k] \in Nat /\ accepted[k] <= clock
    BY <1>3, <2>2, SessionNumbers
  <2>4. Rows /\ Slides /\ Shapes /\ HeldOnce BY DEF IInv
  <2>5. /\ row \in SessionRow /\ row.traveller = sessions[k].traveller
        /\ row.revoked = sessions[k].revoked /\ row.lastUsed = req[r].now
        /\ row.expiresAt = req[r].now + SessionTTL
    BY <2>2, <2>3, TouchedRow
  <2>6. last \in Nat /\ last <= clock BY <2>2, <2>3
  <2>7. /\ sessions'[k] = row /\ accepted'[k] = last
        /\ \A l \in Sessions \ {k} : sessions'[l] = sessions[l] /\ accepted'[l] = accepted[l]
        /\ sessions' \in [Sessions -> SessionRow \cup {Unborn, Deleted}] /\ accepted' \in [Sessions -> Nat]
    BY <2>1, <2>2, <2>4, <2>5, <2>6 DEF Rows
  <2>8. row \notin {Unborn, Deleted} BY <2>5, MarkersAreNoRows
  <2>9. \A l \in Sessions : Live(l)' => Present(sessions'[l].traveller)
    <3> HIDE DEF row, k
    <3> QED BY <1>3, <2>2, <2>4, <2>5, <2>7 DEF Rows, Live
  <2>10. \A l \in Sessions : Revoked(l) => Revoked(l)'
    <3> HIDE DEF row, k
    <3> QED BY <1>3, <2>2, <2>5, <2>7, <2>8 DEF Live, Revoked
  <2>11. Slides'
    <3>1. row.expiresAt + TouchInterval + Deadline > last + SessionTTL
      BY <2>2, <2>3, <2>5, Lifetimes
    <3>2. row.expiresAt + Deadline >= row.lastUsed + SessionTTL BY <2>2, <2>5, Lifetimes
    <3> HIDE DEF row, last, k
    <3> QED BY <1>1, <2>2, <2>4, <2>6, <2>7, <3>1, <3>2 DEF Slides, SessionSlides, Live
  <2>12. HeldOnce' BY <1>1, <2>4 DEF HeldOnce, Holds
  <2>13. "through" \in Stages \ {"creating"} BY DEF Stages
  <2>14. req' = [req EXCEPT ![r] = req[r]] /\ pc'[r] = "through" BY <2>1, <2>4 DEF Shapes
  <2>15. Carries(r)' BY <1>1, <2>1, <2>2, <2>14 DEF Carries
  <2>16. spent' \subseteq Codes BY <1>1, <2>4 DEF Rows
  <2> HIDE DEF IInv, row, last, k
  <2> QED BY <1>1, <2>1, <2>2, <2>7, <2>9, <2>10, <2>11, <2>12, <2>13, <2>14, <2>15, <2>16, SessionsStep
<1> QED BY <1>2, <1>3

\* A revocation sets one flag: lifetimes and owners stay, and nothing revives.
LEMMA RevokeKeeps ==
    ASSUME IInv, NEW S, Revoke(S), UNCHANGED <<clock, accepted>>
    PROVE  /\ sessions' \in [Sessions -> SessionRow \cup {Unborn, Deleted}]
           /\ \A k \in Sessions : Live(k)' => Live(k) /\ sessions'[k].traveller = sessions[k].traveller
           /\ \A k \in Sessions : Revoked(k) => Revoked(k)'
           /\ Slides'
<1>1. Rows /\ Slides BY DEF IInv
<1>2. ASSUME NEW k \in Sessions, Live(k), sessions'[k] = [sessions[k] EXCEPT !.revoked = TRUE]
      PROVE  /\ sessions'[k] \in SessionRow /\ sessions'[k].traveller = sessions[k].traveller
             /\ sessions'[k].expiresAt = sessions[k].expiresAt
             /\ sessions'[k].lastUsed = sessions[k].lastUsed /\ sessions'[k].revoked
  <2>1. sessions[k] \in SessionRow BY <1>2, SessionNumbers
  <2> QED BY <1>2, <2>1 DEF SessionRow
<1>3. ASSUME NEW k \in Sessions
      PROVE  \/ sessions'[k] = sessions[k]
             \/ /\ Live(k) /\ sessions'[k] \in SessionRow
                /\ sessions'[k].traveller = sessions[k].traveller
                /\ sessions'[k].expiresAt = sessions[k].expiresAt
                /\ sessions'[k].lastUsed = sessions[k].lastUsed /\ sessions'[k].revoked
  BY <1>2 DEF Revoke
<1>4. sessions' \in [Sessions -> SessionRow \cup {Unborn, Deleted}]
  <2>1. \A k \in Sessions : sessions'[k] \in SessionRow \cup {Unborn, Deleted} BY <1>1, <1>3 DEF Rows
  <2> QED BY <2>1 DEF Revoke
<1>5. \A k \in Sessions : Live(k)' => Live(k) /\ sessions'[k].traveller = sessions[k].traveller
  BY <1>3 DEF Live
<1>6. \A k \in Sessions : Revoked(k) => Revoked(k)' BY <1>3, MarkersAreNoRows DEF Revoked, Live
<1>7. Slides' BY <1>1, <1>3 DEF Slides, SessionSlides, Live
<1> QED BY <1>4, <1>5, <1>6, <1>7

\* The handlers behind the session check keep the invariant.
LEMMA ServeThroughKeeps ==
    ASSUME IInv, NEW r \in Requests, ServeThrough(r)
    PROVE  IInv'
<1>1. /\ pc[r] = "through" /\ End(r)
      /\ UNCHANGED <<clock, travellers, codes, issued, invites, guesses, spent, admitted, accepted>>
  BY DEF ServeThrough, history
<1>2. CASE UNCHANGED sessions BY <1>1, <1>2, EndQuietly DEF tables, history
<1>3. ASSUME NEW S, Revoke(S) PROVE IInv'
  <2>1. /\ sessions' \in [Sessions -> SessionRow \cup {Unborn, Deleted}]
        /\ \A k \in Sessions : Live(k)' => Live(k) /\ sessions'[k].traveller = sessions[k].traveller
        /\ \A k \in Sessions : Revoked(k) => Revoked(k)'
        /\ Slides'
    BY <1>1, <1>3, RevokeKeeps
  <2>2. Rows /\ HeldOnce BY DEF IInv
  <2>3. \A k \in Sessions : Live(k)' => Present(sessions'[k].traveller) BY <2>1, <2>2 DEF Rows
  <2>4. HeldOnce' /\ spent' \subseteq Codes /\ accepted' \in [Sessions -> Nat]
    BY <1>1, <2>2 DEF HeldOnce, Holds, Rows
  <2>5. "idle" \in Stages \ {"creating"} BY DEF Stages
  <2>6. pc' = [pc EXCEPT ![r] = "idle"] /\ req' = [req EXCEPT ![r] = None] BY <1>1 DEF End, Go
  <2> HIDE DEF IInv
  <2> QED BY <1>1, <2>1, <2>3, <2>4, <2>5, <2>6, SessionsStep
<1> QED BY <1>2, <1>3 DEF ServeThrough

-----------------------------------------------------------------------------
(***************************************************************************)
(* Registration.                                                           *)
(***************************************************************************)

\* A step of request r on the invites and the travellers.
LEMMA InvitesStep ==
    ASSUME IInv, NEW r \in Requests, NEW stage \in Stages, NEW q \in RequestState \cup {None},
           pc' = [pc EXCEPT ![r] = stage], req' = [req EXCEPT ![r] = q],
           stage # "idle" => q \in RequestState /\ Carries(r)',
           travellers' \in [Travellers -> Emails \cup {Unborn, Deleted}],
           invites' \in [Invites -> InviteRow], admitted' \in [Invites -> SUBSET Travellers],
           \A t, u \in Travellers : Present(t)' /\ travellers'[t] = travellers'[u] => t = u,
           \A t \in Travellers : Present(t) => Present(t)',
           Claims',
           UNCHANGED <<clock, codes, issued, sessions, guesses, spent, accepted>>
    PROVE  IInv'
<1>1. Rows /\ HeldOnce /\ Slides BY DEF IInv
<1>2. \A k \in Sessions : (Live(k) => Present(sessions[k].traveller))'
  <2>1. \A k \in Sessions : Live(k) => Present(sessions[k].traveller) /\ sessions[k].traveller \in Travellers
    BY <1>1, SessionNumbers DEF Rows
  <2> QED BY <2>1 DEF Live
<1>3. Rows' BY <1>1, <1>2 DEF Rows
<1>4. Forward BY <1>1 DEF Forward, Rows, Revoked, Live
<1>5. HeldOnce' BY <1>1 DEF HeldOnce, Holds
<1>6. Slides' BY <1>1 DEF Slides, SessionSlides, Live
<1> HIDE DEF IInv
<1> QED BY <1>3, <1>4, <1>5, <1>6, RequestStep

\* SpendInvite keeps the invariant: no other registration holds the invite, and
\* it admitted nobody.
LEMMA SpendInviteKeeps ==
    ASSUME IInv, NEW r \in Requests, SpendInvite(r)
    PROVE  IInv'
<1> DEFINE i == req[r].key
<1>1. /\ pc[r] = "claiming"
      /\ UNCHANGED <<clock, travellers, codes, issued, sessions, guesses, spent, admitted, accepted>>
  BY DEF SpendInvite, history
<1>2. CASE invites[i].state # "live"
  <2>1. End(r) /\ UNCHANGED <<clock, tables, history>> BY <1>1, <1>2 DEF SpendInvite, tables, history
  <2> QED BY <2>1, EndQuietly
<1>3. CASE invites[i].state = "live"
  <2>1. /\ invites' = [invites EXCEPT ![i].state = "used"]
        /\ pc' = [pc EXCEPT ![r] = "creating"] /\ req' = req
    BY <1>3 DEF SpendInvite, Go
  <2>2. req[r] \in RequestState /\ Carries(r) /\ i \in Invites BY <1>1, InFlight DEF Carries
  <2>3. Rows /\ Shapes /\ Claims /\ AllCarry BY DEF IInv
  <2>4. /\ invites' \in [Invites -> InviteRow] /\ invites'[i].state = "used"
        /\ \A j \in Invites \ {i} : invites'[j] = invites[j]
    <3>1. [invites[i] EXCEPT !.state = "used"] \in InviteRow
      BY <2>2, <2>3 DEF Rows, InviteRow
    <3>2. [invites[i] EXCEPT !.state = "used"].state = "used" BY <2>2, <2>3 DEF Rows, InviteRow
    <3> QED BY <2>1, <2>2, <2>3, <3>1, <3>2 DEF Rows
  <2>5. /\ pc'[r] = "creating" /\ req' = [req EXCEPT ![r] = req[r]]
        /\ \A s \in Requests \ {r} : pc'[s] = pc[s]
    BY <2>1, <2>3 DEF Shapes
  <2>6. Carries(r)' BY <1>1, <2>1, <2>2, <2>5 DEF Carries
  <2>7. "live" \notin Taken /\ "used" \in Taken BY DEF Taken
  <2>8. \A s \in Requests : pc[s] = "creating" => req[s].key # i /\ req[s].key \in Invites
    BY <1>3, <2>3, <2>7 DEF Claims, AllCarry, Carries
  <2>9. admitted[i] = {} BY <1>3, <2>2, <2>3, <2>7 DEF Claims
  <2>10. Claims'
    <3> HIDE DEF i
    <3>1. \A s \in Requests : pc'[s] = "creating" => s = r \/ pc[s] = "creating" BY <2>5
    <3>2. i = req'[r].key /\ req' = req BY <2>1 DEF i
    <3>3. \A j \in Invites : invites[j].state \in Taken => invites'[j].state \in Taken
      BY <2>4, <2>7
    <3>4. \A s \in Requests : pc'[s] = "creating" =>
             admitted'[req'[s].key] = {} /\ invites'[req'[s].key].state \in Taken
      <4> SUFFICES ASSUME NEW s \in Requests, pc'[s] = "creating"
                   PROVE  admitted'[req'[s].key] = {} /\ invites'[req'[s].key].state \in Taken
        OBVIOUS
      <4>1. CASE s = r BY <1>1, <2>4, <2>7, <2>9, <3>2, <4>1
      <4>2. CASE s # r
        <5>1. pc[s] = "creating" BY <3>1, <4>2
        <5>2. admitted[req[s].key] = {} /\ invites[req[s].key].state \in Taken BY <2>3, <5>1 DEF Claims
        <5>3. req[s].key \in Invites BY <2>8, <5>1
        <5> QED BY <1>1, <3>2, <3>3, <5>2, <5>3
      <4> QED BY <4>1, <4>2
    <3>5. \A s, u \in Requests :
             pc'[s] = "creating" /\ pc'[u] = "creating" /\ req'[s].key = req'[u].key => s = u
      BY <2>3, <2>8, <3>1, <3>2 DEF Claims
    <3> QED BY <1>1, <2>3, <3>3, <3>4, <3>5 DEF Claims
  <2>11. "creating" \in Stages BY DEF Stages
  <2>12. /\ travellers' \in [Travellers -> Emails \cup {Unborn, Deleted}]
         /\ admitted' \in [Invites -> SUBSET Travellers]
         /\ \A t, u \in Travellers : Present(t)' /\ travellers'[t] = travellers'[u] => t = u
         /\ \A t \in Travellers : Present(t) => Present(t)'
    BY <1>1, <2>3 DEF Rows, Present
  <2> HIDE DEF IInv, i
  <2> QED BY <1>1, <2>1, <2>2, <2>4, <2>5, <2>6, <2>10, <2>11, <2>12, InvitesStep
<1> QED BY <1>2, <1>3

\* CreateTraveller keeps the invariant: its invite has admitted nobody else.
LEMMA CreateTravellerKeeps ==
    ASSUME IInv, NEW r \in Requests, NEW t \in Travellers, CreateTraveller(r, t)
    PROVE  IInv'
<1> DEFINE i == req[r].key
<1>1. /\ pc[r] = "creating" /\ travellers[t] = Unborn
      /\ UNCHANGED <<clock, codes, issued, sessions, invites, guesses, spent, accepted>>
  BY DEF CreateTraveller
<1>2. CASE End(r) /\ UNCHANGED <<travellers, admitted>>
  BY <1>1, <1>2, EndQuietly DEF tables, history
<1>3. CASE /\ \A u \in Travellers : travellers[u] # req[r].email
           /\ travellers' = [travellers EXCEPT ![t] = req[r].email]
           /\ admitted' = [admitted EXCEPT ![req[r].key] = @ \cup {t}]
           /\ req' = [req EXCEPT ![r].traveller = t]
           /\ Go(r, "recording")
  <2> DEFINE q == [req[r] EXCEPT !.traveller = t]
  <2>1. pc' = [pc EXCEPT ![r] = "recording"] /\ req' = [req EXCEPT ![r] = q] BY <1>3 DEF Go
  <2>2. req[r] \in RequestState /\ Carries(r) /\ i \in Invites /\ req[r].email \in Emails
    BY <1>1, InFlight DEF Carries
  <2>3. Rows /\ Shapes /\ Claims /\ AllCarry BY DEF IInv
  <2>4. /\ q \in RequestState /\ q.at = req[r].at /\ q.now = req[r].now /\ q.key = i
        /\ q.dead = req[r].dead /\ q.traveller = t
    BY <2>2 DEF RequestState
  <2>5. /\ pc'[r] = "recording" /\ req'[r] = q
        /\ \A s \in Requests \ {r} : pc'[s] = pc[s] /\ req'[s] = req[s]
    BY <2>1, <2>3 DEF Shapes
  <2>6. Carries(r)'
    <3> HIDE DEF q
    <3> QED BY <1>1, <2>2, <2>4, <2>5 DEF Carries
  <2>7. /\ travellers' \in [Travellers -> Emails \cup {Unborn, Deleted}]
        /\ travellers'[t] = req[r].email
        /\ \A u \in Travellers \ {t} : travellers'[u] = travellers[u]
    BY <1>3, <2>2, <2>3 DEF Rows
  <2>8. \A u, v \in Travellers : Present(u)' /\ travellers'[u] = travellers'[v] => u = v
    BY <1>3, <2>3, <2>7 DEF Rows, Present
  <2>9. \A u \in Travellers : Present(u) => Present(u)' BY <2>2, <2>7 DEF Present
  <2>10. /\ admitted[i] = {} /\ invites[i].state \in Taken
         /\ \A s \in Requests \ {r} : pc[s] = "creating" => req[s].key # i /\ req[s].key \in Invites
    BY <1>1, <2>3 DEF Claims, AllCarry, Carries
  <2>11. /\ admitted' \in [Invites -> SUBSET Travellers] /\ admitted'[i] = {t}
         /\ \A j \in Invites \ {i} : admitted'[j] = admitted[j]
    BY <1>3, <2>2, <2>3, <2>10 DEF Rows
  <2>12. Claims'
    <3> HIDE DEF i, q
    <3>1. \A s \in Requests : pc'[s] = "creating" => s # r /\ pc[s] = "creating" /\ req'[s] = req[s]
      BY <2>5
    <3>2. \A s \in Requests : pc'[s] = "creating" =>
             admitted'[req'[s].key] = {} /\ invites'[req'[s].key].state \in Taken
      BY <1>1, <2>3, <2>10, <2>11, <3>1 DEF Claims
    <3>3. \A s, u \in Requests :
             pc'[s] = "creating" /\ pc'[u] = "creating" /\ req'[s].key = req'[u].key => s = u
      BY <2>3, <3>1 DEF Claims
    <3>4. \A j \in Invites : \A u, v \in admitted'[j] : u = v BY <2>3, <2>11 DEF Claims
    <3>5. \A j \in Invites : admitted'[j] # {} => invites'[j].state \in Taken
      BY <1>1, <2>3, <2>10, <2>11 DEF Claims
    <3>6. \A u \in Travellers : travellers'[u] # Unborn => \E j \in Invites : u \in admitted'[j]
      <4> SUFFICES ASSUME NEW u \in Travellers, travellers'[u] # Unborn
                   PROVE  \E j \in Invites : u \in admitted'[j]
        OBVIOUS
      <4>1. CASE u = t BY <2>2, <2>11, <4>1 DEF i
      <4>2. CASE u # t
        <5>1. PICK j \in Invites : u \in admitted[j] BY <2>3, <2>7, <4>2 DEF Claims
        <5>2. j # i BY <2>10, <5>1
        <5> QED BY <2>11, <5>1, <5>2
      <4> QED BY <4>1, <4>2
    <3> QED BY <3>2, <3>3, <3>4, <3>5, <3>6 DEF Claims
  <2>13. "recording" \in Stages /\ invites' \in [Invites -> InviteRow] BY <1>1, <2>3 DEF Stages, Rows
  <2> HIDE DEF IInv, i, q
  <2> QED BY <1>1, <2>1, <2>4, <2>6, <2>7, <2>8, <2>9, <2>11, <2>12, <2>13, InvitesStep
<1> QED BY <1>2, <1>3 DEF CreateTraveller

\* RecordInviteUser keeps the invariant.
LEMMA RecordInviteUserKeeps ==
    ASSUME IInv, NEW r \in Requests, RecordInviteUser(r)
    PROVE  IInv'
<1> DEFINE i == req[r].key
<1>1. /\ pc[r] = "recording" /\ End(r)
      /\ UNCHANGED <<clock, travellers, codes, issued, sessions, guesses, spent, admitted, accepted>>
  BY DEF RecordInviteUser, history
<1>2. CASE UNCHANGED invites BY <1>1, <1>2, EndQuietly DEF tables, history
<1>3. CASE invites' = [invites EXCEPT ![i].by = req[r].traveller]
  <2>1. i \in Invites /\ req[r].traveller \in Travellers BY <1>1, InFlight DEF Carries
  <2>2. Rows /\ Shapes /\ Claims BY DEF IInv
  <2>3. /\ [invites[i] EXCEPT !.by = req[r].traveller] \in InviteRow
        /\ [invites[i] EXCEPT !.by = req[r].traveller].state = invites[i].state
    BY <2>1, <2>2 DEF Rows, InviteRow
  <2>4. /\ invites' \in [Invites -> InviteRow]
        /\ \A j \in Invites : invites'[j].state = invites[j].state
    BY <1>3, <2>1, <2>2, <2>3 DEF Rows
  <2>5. /\ pc' = [pc EXCEPT ![r] = "idle"] /\ req' = [req EXCEPT ![r] = None]
        /\ "idle" \in Stages \ {"creating"}
    BY <1>1 DEF End, Go, Stages
  <2>6. \A s \in Requests \ {r} : req'[s] = req[s] BY <2>2, <2>5 DEF Shapes
  <2>7. /\ travellers' \in [Travellers -> Emails \cup {Unborn, Deleted}]
        /\ admitted' \in [Invites -> SUBSET Travellers]
        /\ \A t, u \in Travellers : Present(t)' /\ travellers'[t] = travellers'[u] => t = u
        /\ \A t \in Travellers : Present(t) => Present(t)'
    BY <1>1, <2>2 DEF Rows, Present
  <2> HIDE DEF IInv, i
  <2>8. Claims' BY <1>1, <2>4, <2>5, <2>6, ClaimsKept
  <2> QED BY <1>1, <2>4, <2>5, <2>7, <2>8, InvitesStep
<1> QED BY <1>2, <1>3 DEF RecordInviteUser

-----------------------------------------------------------------------------
(***************************************************************************)
(* The panel and the clock.                                                *)
(***************************************************************************)

\* A step of the panel: no request moves, and nobody is admitted.
LEMMA PanelStep ==
    ASSUME IInv, Rows', Forward, HeldOnce', Slides',
           \A i \in Invites : invites[i].state \in Taken => invites'[i].state \in Taken,
           \A t \in Travellers : travellers[t] = Unborn => travellers'[t] = Unborn,
           UNCHANGED <<clock, pc, req, admitted>>
    PROVE  IInv'
<1>1. Rows /\ Shapes /\ Claims /\ AllCarry BY DEF IInv
<1>2. Shapes' BY <1>1 DEF Shapes
<1>3. AllCarry'
  <2> SUFFICES ASSUME NEW s \in Requests, pc'[s] # "idle" PROVE Carries(s)'
    BY DEF AllCarry
  <2>1. pc[s] # "idle" /\ req[s] \in RequestState /\ Carries(s) BY <1>1 DEF AllCarry, Shapes
  <2>2. clock <= clock' /\ clock' <= req[s].at + Deadline BY <1>1, <2>1 DEF Rows, Carries
  <2> QED BY <1>1, <2>1, <2>2, Stands
<1>4. Claims'
  <2>1. \A s \in Requests : pc'[s] = "creating" =>
           pc[s] = "creating" /\ req'[s] = req[s] /\ req[s].key \in Invites
    BY <1>1 DEF AllCarry, Carries
  <2> QED BY <1>1, <2>1, ClaimsStand
<1> QED BY <1>2, <1>3, <1>4 DEF IInv

\* An invite is minted, or its row removed.
LEMMA InviteRowsKeep ==
    ASSUME IInv, NEW i \in Invites, MintInvite(i) \/ DeleteInvite(i)
    PROVE  IInv'
<1>1. UNCHANGED <<clock, travellers, codes, issued, sessions, pc, req, guesses, spent, admitted, accepted>>
  BY DEF MintInvite, DeleteInvite, history
<1>2. Rows /\ HeldOnce /\ Slides BY DEF IInv
<1>3. /\ invites' \in [Invites -> InviteRow]
      /\ \A j \in Invites : invites[j].state \in Taken => invites'[j].state \in Taken
  <2>1. CASE MintInvite(i)
    <3>1. /\ [invites[i] EXCEPT !.state = "live"] \in InviteRow
          /\ invites' = [invites EXCEPT ![i] = [invites[i] EXCEPT !.state = "live"]]
          /\ invites[i].state = "unminted"
      BY <1>2, <2>1 DEF Rows, InviteRow, MintInvite
    <3> QED BY <1>2, <3>1 DEF Rows, Taken
  <2>2. CASE DeleteInvite(i)
    <3>1. [state |-> "deleted", by |-> None] \in InviteRow BY DEF InviteRow
    <3> QED BY <1>2, <2>2, <3>1 DEF Rows, Taken, DeleteInvite
  <2> QED BY <2>1, <2>2
<1>4. Rows' BY <1>1, <1>2, <1>3 DEF Rows, Present, Live
<1>5. Forward BY <1>1, <1>2 DEF Forward, Rows, Revoked, Live
<1>6. HeldOnce' /\ Slides' BY <1>1, <1>2 DEF HeldOnce, Holds, Slides, SessionSlides, Live
<1> HIDE DEF IInv
<1> QED BY <1>1, <1>3, <1>4, <1>5, <1>6, PanelStep

\* The panel's revocation keeps the invariant.
LEMMA RevokeSessionByIDKeeps ==
    ASSUME IInv, NEW k \in Sessions, RevokeSessionByID(k)
    PROVE  IInv'
<1>1. /\ Revoke({k})
      /\ UNCHANGED <<clock, travellers, codes, issued, invites, pc, req, guesses, spent, admitted, accepted>>
  BY DEF RevokeSessionByID, history
<1>2. Rows /\ HeldOnce BY DEF IInv
<1>3. /\ sessions' \in [Sessions -> SessionRow \cup {Unborn, Deleted}]
      /\ \A l \in Sessions : Live(l)' => Live(l) /\ sessions'[l].traveller = sessions[l].traveller
      /\ \A l \in Sessions : Revoked(l) => Revoked(l)'
      /\ Slides'
  BY <1>1, RevokeKeeps
<1>4. Rows' BY <1>1, <1>2, <1>3 DEF Rows, Present
<1>5. Forward BY <1>1, <1>2, <1>3 DEF Forward, Rows
<1>6. HeldOnce' BY <1>1, <1>2 DEF HeldOnce, Holds
<1> HIDE DEF IInv
<1> QED BY <1>1, <1>3, <1>4, <1>5, <1>6, PanelStep

\* DeleteTraveller keeps the invariant: codes and sessions go with the
\* traveller, the invite stays used.
LEMMA DeleteTravellerKeeps ==
    ASSUME IInv, NEW t \in Travellers, DeleteTraveller(t)
    PROVE  IInv'
<1>1. /\ Present(t) /\ travellers' = [travellers EXCEPT ![t] = Deleted]
      /\ codes' = [codes EXCEPT ![t] = None]
      /\ sessions' = [k \in Sessions |-> IF k \in SessionsOf(t) THEN Deleted ELSE sessions[k]]
      /\ invites' = [i \in Invites |-> IF invites[i].by = t THEN [invites[i] EXCEPT !.by = None]
                                        ELSE invites[i]]
      /\ UNCHANGED <<clock, issued, pc, req, guesses, spent, admitted, accepted>>
  BY DEF DeleteTraveller, history
<1>2. Rows /\ HeldOnce /\ Slides BY DEF IInv
<1>3. /\ travellers' \in [Travellers -> Emails \cup {Unborn, Deleted}] /\ travellers'[t] = Deleted
      /\ \A u \in Travellers \ {t} : travellers'[u] = travellers[u]
  BY <1>1, <1>2 DEF Rows
<1>4. /\ codes' \in [Travellers -> CodeRow \cup {None}] /\ codes'[t] = None
      /\ \A u \in Travellers \ {t} : codes'[u] = codes[u]
  BY <1>1, <1>2 DEF Rows
<1>5. /\ sessions' \in [Sessions -> SessionRow \cup {Unborn, Deleted}]
      /\ \A k \in Sessions : sessions'[k] = IF k \in SessionsOf(t) THEN Deleted ELSE sessions[k]
  BY <1>1, <1>2 DEF Rows
<1>6. /\ invites' \in [Invites -> InviteRow]
      /\ \A i \in Invites : invites'[i].state = invites[i].state
  <2>1. \A i \in Invites : /\ [invites[i] EXCEPT !.by = None] \in InviteRow
                            /\ [invites[i] EXCEPT !.by = None].state = invites[i].state
    BY <1>2 DEF Rows, InviteRow
  <2> QED BY <1>1, <1>2, <2>1 DEF Rows
<1>7. Deleted \notin Emails /\ Deleted # Unborn /\ Unborn \notin Emails BY MarkersAreNoRows
<1>8. \A k \in Sessions : (Live(k) => Present(sessions[k].traveller))'
  <2> SUFFICES ASSUME NEW k \in Sessions, Live(k)' PROVE Present(sessions[k].traveller)'
    OBVIOUS
  <2>1. k \notin SessionsOf(t) /\ sessions'[k] = sessions[k] BY <1>5 DEF Live
  <2>2. Live(k) BY <2>1 DEF Live
  <2>3. sessions[k].traveller # t /\ sessions[k].traveller \in Travellers
    BY <2>1, <2>2, SessionNumbers DEF SessionsOf
  <2>4. Present(sessions[k].traveller) BY <1>2, <2>2 DEF Rows
  <2> QED BY <1>3, <2>1, <2>3, <2>4 DEF Present
<1>9. Rows'
  <2>1. \A u, v \in Travellers : (Present(u) /\ travellers[u] = travellers[v] => u = v)'
    BY <1>2, <1>3, <1>7 DEF Rows, Present
  <2>2. \A u \in Travellers : (codes[u] # None => Present(u))'
    BY <1>2, <1>3, <1>4 DEF Rows, Present
  <2> QED BY <1>1, <1>2, <1>3, <1>4, <1>5, <1>6, <1>8, <2>1, <2>2 DEF Rows
<1>10. Forward BY <1>1, <1>2, <1>4, <1>5 DEF Forward, Rows, Revoked, Live, SessionsOf
<1>11. HeldOnce' BY <1>1, <1>2, <1>4 DEF HeldOnce, Holds
<1>12. Slides' BY <1>1, <1>2, <1>5 DEF Slides, SessionSlides, Live
<1>13. \A u \in Travellers : travellers[u] = Unborn => travellers'[u] = Unborn
  BY <1>1, <1>3, <1>7 DEF Present
<1> HIDE DEF IInv
<1> QED BY <1>1, <1>6, <1>9, <1>10, <1>11, <1>12, <1>13, PanelStep

\* Time passes no request's deadline.
LEMMA TickKeeps ==
    ASSUME IInv, Tick
    PROVE  IInv'
<1>1. /\ \A r \in Requests : pc[r] # "idle" => clock < req[r].at + Deadline
      /\ clock' = clock + 1
      /\ UNCHANGED <<travellers, codes, issued, sessions, invites, pc, req, guesses, spent, admitted, accepted>>
  BY DEF Tick, tables, history
<1>2. Rows /\ Shapes /\ HeldOnce /\ Claims /\ Slides /\ AllCarry BY DEF IInv
<1>3. Rows' BY <1>1, <1>2 DEF Rows, Present, Live
<1>4. Shapes' /\ HeldOnce' /\ Claims' BY <1>1, <1>2 DEF Shapes, HeldOnce, Holds, Claims
<1>5. Slides'
  <2>1. \A k \in Sessions : accepted[k] \in Nat /\ accepted[k] <= clock' BY <1>1, <1>2 DEF Rows, Slides
  <2> QED BY <1>1, <1>2, <2>1 DEF Slides, SessionSlides, Live
<1>6. Forward BY <1>1, <1>2 DEF Forward, Rows, Revoked, Live
<1>7. AllCarry'
  <2> SUFFICES ASSUME NEW s \in Requests, pc'[s] # "idle" PROVE Carries(s)'
    BY DEF AllCarry
  <2>1. pc[s] # "idle" /\ req[s] \in RequestState /\ Carries(s) BY <1>1, <1>2 DEF AllCarry, Shapes
  <2>2. /\ req[s].at \in Nat /\ clock \in Nat /\ clock < req[s].at + Deadline
    BY <1>1, <1>2, <2>1 DEF Rows, RequestState
  <2>3. clock <= clock' /\ clock' <= req[s].at + Deadline BY <1>1, <2>2, Lifetimes
  <2> QED BY <1>1, <1>2, <1>3, <1>6, <2>1, <2>3, Stands
<1> QED BY <1>3, <1>4, <1>5, <1>7 DEF IInv

-----------------------------------------------------------------------------
(***************************************************************************)
(* The cap on guesses.                                                     *)
(***************************************************************************)

\* The sign-ins that will count a wrong guess at the code drawn last.
Counting == {r \in Requests : pc[r] = "counting" /\ req[r].held = issued}

\* The code drawn last still lets a sign-in come to be counted.
Open == \E t \in Travellers : Holds(t, issued) /\ codes[t].attempts < MaxAttempts

\* Whoever counts read a code only its traveller can hold.  The row has every
\* guess at the code it holds, and once nothing more comes to be counted, the
\* guesses there are and the ones under way are within the cap.
Capped ==
    /\ \A r \in Requests : pc[r] = "counting" =>
          /\ req[r].held \in 1 .. issued
          /\ \A t \in Travellers : Holds(t, req[r].held) => t = req[r].traveller
    /\ \A t \in Travellers : Holds(t, issued) => guesses <= codes[t].attempts
    /\ Open \/ guesses + Cardinality(Counting) < MaxAttempts + Cardinality(Requests)

\* The numbers the cap is about.
LEMMA CapNumbers ==
    ASSUME IInv, Capped
    PROVE  /\ guesses \in Nat /\ issued \in Nat /\ MaxAttempts \in Nat \ {0}
           /\ IsFiniteSet(Requests) /\ Cardinality(Requests) \in Nat
           /\ \A t \in Travellers : codes[t] # None => codes[t].attempts \in Nat /\ codes[t].code \in Nat \ {0}
           /\ Open => guesses < MaxAttempts
<1>1. \A t \in Travellers : codes[t] # None => codes[t].attempts \in Nat /\ codes[t].code \in Nat \ {0}
  BY DEF IInv, Rows, CodeRow, Codes
<1>2. guesses \in Nat /\ issued \in Nat /\ MaxAttempts \in Nat \ {0} BY LimitsNat DEF IInv, Rows
<1>3. IsFiniteSet(Requests) /\ Cardinality(Requests) \in Nat BY RequestsFinite, FS_CardinalityType
<1>4. Open => guesses < MaxAttempts BY <1>1, <1>2 DEF Capped, Open, Holds
<1> QED BY <1>1, <1>2, <1>3, <1>4

\* The requests that count are among all requests.
LEMMA FewCount ==
    ASSUME NEW S, NEW T, IsFiniteSet(T), S \subseteq T
    PROVE  /\ IsFiniteSet(S) /\ Cardinality(S) \in Nat /\ Cardinality(T) \in Nat
           /\ Cardinality(S) <= Cardinality(T)
BY FS_Subset, FS_CardinalityType

\* A step that draws no code and counts no guess keeps the cap, if a request
\* that comes to be counted has just read a code that is still open.
LEMMA NothingCounted ==
    ASSUME IInv, IInv', Capped, UNCHANGED <<issued, guesses>>,
           \A t \in Travellers : codes'[t] \in {codes[t], None},
           \A s \in Requests : pc'[s] = "counting" =>
              \/ pc[s] = "counting" /\ req'[s] = req[s]
              \/ /\ req'[s].traveller \in Travellers /\ Holds(req[s].traveller, req[s].held)'
                 /\ codes'[req'[s].traveller].attempts < MaxAttempts
    PROVE  Capped'
<1>1. /\ guesses \in Nat /\ issued \in Nat /\ MaxAttempts \in Nat \ {0} /\ IsFiniteSet(Requests)
      /\ Cardinality(Requests) \in Nat /\ (Open => guesses < MaxAttempts)
  BY CapNumbers
<1>2. \A t \in Travellers : codes'[t] # None => codes'[t] = codes[t] /\ codes'[t].code \in 1 .. issued
  BY DEF IInv, Rows, CodeRow, Codes, HeldOnce
<1>3. ASSUME NEW s \in Requests, pc'[s] = "counting"
      PROVE  /\ req'[s].held \in 1 .. issued'
             /\ \A t \in Travellers : Holds(t, req[s].held)' => t = req'[s].traveller
  <2>1. CASE pc[s] = "counting" /\ req'[s] = req[s]
    BY <1>2, <2>1 DEF Capped, Holds
  <2>2. CASE req'[s].traveller \in Travellers /\ Holds(req[s].traveller, req[s].held)'
    BY <1>2, <2>2 DEF IInv, HeldOnce, Holds
  <2> QED BY <1>3, <2>1, <2>2
<1>4. \A t \in Travellers : Holds(t, issued)' => guesses' <= codes'[t].attempts
  BY <1>2 DEF Capped, Holds
<1>5. ASSUME ~Open' PROVE guesses' + Cardinality(Counting') < MaxAttempts + Cardinality(Requests)
  <2>1. Counting' \subseteq Counting BY <1>5 DEF Counting, Open
  <2>2. Counting \subseteq Requests BY DEF Counting
  <2>3. CASE Open
    <3>1. Cardinality(Counting') \in Nat /\ Cardinality(Counting') <= Cardinality(Requests)
      BY <1>1, <2>1, <2>2, FewCount
    <3> QED BY <1>1, <2>3, <3>1
  <2>4. CASE ~Open
    <3>1. IsFiniteSet(Counting) /\ Cardinality(Counting) \in Nat BY <1>1, <2>2, FewCount
    <3>2. Cardinality(Counting') \in Nat /\ Cardinality(Counting') <= Cardinality(Counting)
      BY <2>1, <3>1, FewCount
    <3>3. guesses + Cardinality(Counting) < MaxAttempts + Cardinality(Requests) BY <2>4 DEF Capped
    <3> QED BY <1>1, <3>1, <3>2, <3>3
  <2> QED BY <2>3, <2>4
<1> QED BY <1>3, <1>4, <1>5 DEF Capped

\* A sign-in that comes to be counted has read a code that is not at its cap.
LEMMA ReadCodeCapped ==
    ASSUME IInv, IInv', Capped, NEW r \in Requests, ReadCode(r)
    PROVE  Capped'
<1> DEFINE row == codes[req[r].traveller]
<1>1. /\ pc[r] = "reading" /\ UNCHANGED <<codes, issued, guesses>>
  BY DEF ReadCode, tables, history
<1>2. req[r].traveller \in Travellers BY <1>1, InFlight DEF Carries
<1>3. CASE End(r)
  <2>1. \A s \in Requests : pc'[s] = "counting" => pc[s] = "counting" /\ req'[s] = req[s]
    BY <1>3 DEF End, Go, IInv, Shapes
  <2> HIDE DEF IInv
  <2> QED BY <1>1, <2>1, NothingCounted
<1>4. CASE ~End(r)
  <2> DEFINE stage == IF ~Usable(row) THEN "burning"
                      ELSE IF row.code = req[r].key THEN "spending" ELSE "counting"
             q == [req[r] EXCEPT !.held = IF Usable(row) THEN row.code ELSE 0]
  <2>1. row # None /\ pc' = [pc EXCEPT ![r] = stage] /\ req' = [req EXCEPT ![r] = q]
    BY <1>4 DEF ReadCode, Go
  <2>2. pc'[r] = stage /\ req'[r] = q /\ \A s \in Requests \ {r} : pc'[s] = pc[s] /\ req'[s] = req[s]
    BY <2>1 DEF IInv, Shapes
  <2>3. req[r] \in RequestState BY <1>1, InFlight
  <2>4. q.traveller = req[r].traveller /\ q.held = IF Usable(row) THEN row.code ELSE 0
    BY <2>3 DEF RequestState
  <2>5. stage = "counting" => Usable(row) OBVIOUS
  <2> HIDE DEF stage, q
  <2>6. stage = "counting" => Holds(req[r].traveller, req[r].held)' /\ codes'[req'[r].traveller].attempts < MaxAttempts
    BY <1>1, <2>1, <2>2, <2>4, <2>5 DEF Holds, Usable
  <2>7. req'[r].traveller \in Travellers BY <1>2, <2>2, <2>4
  <2> HIDE DEF IInv
  <2> QED BY <1>1, <2>2, <2>6, <2>7, NothingCounted
<1> QED BY <1>3, <1>4

\* A new code starts with no guesses and with nobody about to count one.
LEMMA IssueCodeCapped ==
    ASSUME IInv, IInv', Capped, NEW r \in Requests, IssueCode(r)
    PROVE  Capped'
<1> DEFINE t == req[r].traveller
<1>1. pc[r] = "issuing" /\ pc' = [pc EXCEPT ![r] = "idle"] /\ req' = [req EXCEPT ![r] = None]
  BY DEF IssueCode, End, Go
<1>2. \A s \in Requests : pc'[s] = "counting" => pc[s] = "counting" /\ req'[s] = req[s]
  BY <1>1 DEF IInv, Shapes
<1>3. CASE ~Present(t)
  <2>1. UNCHANGED <<codes, issued, guesses>> BY <1>3 DEF IssueCode
  <2> HIDE DEF IInv
  <2> QED BY <1>2, <2>1, NothingCounted
<1>4. CASE Present(t)
  <2> DEFINE row == [code |-> issued + 1, issuedAt |-> clock,
                     expiresAt |-> req[r].now + CodeTTL, attempts |-> 0]
  <2>1. issued' = issued + 1 /\ guesses' = 0 /\ codes' = [codes EXCEPT ![t] = row]
    BY <1>4 DEF IssueCode
  <2>2. t \in Travellers BY <1>1, InFlight DEF Carries
  <2>3. /\ codes'[t] = row /\ row.code = issued + 1 /\ row.attempts = 0
        /\ \A u \in Travellers \ {t} : codes'[u] = codes[u]
    BY <2>1, <2>2 DEF IInv, Rows
  <2> HIDE DEF row
  <2>4. issued \in Nat /\ MaxAttempts \in Nat \ {0} BY CapNumbers
  <2>5. codes'[t] # None
    <3>1. codes'[t] \in CodeRow \/ codes'[t] = None BY <2>2 DEF IInv, Rows
    <3>2. row = [code |-> issued + 1, issuedAt |-> clock, expiresAt |-> req[r].now + CodeTTL, attempts |-> 0]
      BY DEF row
    <3>3. clock \in Nat /\ req[r].now \in Nat /\ CodeTTL \in Nat /\ issued + 1 \in Codes
      BY <1>1, <2>1, InFlight, LimitsNat DEF IInv, Rows, Codes
    <3>4. row \in CodeRow BY <3>2, <3>3 DEF CodeRow
    <3> QED BY <2>3, <3>4, MarkersAreNoRows
  <2>6. Open' BY <2>1, <2>2, <2>3, <2>4, <2>5 DEF Open, Holds
  <2>7. \A u \in Travellers : Holds(u, issued)' => guesses' <= codes'[u].attempts
    BY <2>1, CapNumbers DEF IInv, Rows, Holds, CodeRow
  <2>8. ASSUME NEW s \in Requests, pc'[s] = "counting"
        PROVE  /\ req'[s].held \in 1 .. issued'
               /\ \A u \in Travellers : Holds(u, req[s].held)' => u = req'[s].traveller
    <3>1. req'[s] = req[s] /\ req[s].held \in 1 .. issued BY <1>2, <2>8 DEF Capped
    <3>2. \A u \in Travellers : Holds(u, req[s].held)' => Holds(u, req[s].held)
      BY <2>3, <2>4, <3>1 DEF Holds
    <3> QED BY <1>2, <2>1, <2>4, <2>8, <3>1, <3>2 DEF Capped
  <2> QED BY <2>6, <2>7, <2>8 DEF Capped
<1> QED BY <1>3, <1>4

\* A counted guess leaves the requests about to count one fewer, and the last
\* one the cap allows leaves the code open to nobody.
LEMMA CountAttemptCapped ==
    ASSUME IInv, IInv', Capped, NEW r \in Requests, CountAttempt(r)
    PROVE  Capped'
<1> DEFINE t == req[r].traveller
<1>1. /\ pc[r] = "counting" /\ UNCHANGED issued
      /\ guesses' = IF req[r].held = issued THEN guesses + 1 ELSE guesses
  BY DEF CountAttempt
<1>2. /\ t \in Travellers /\ req[r].held \in 1 .. issued
      /\ \A u \in Travellers : Holds(u, req[r].held) => u = t
  BY <1>1, InFlight DEF Carries, Capped
<1>3. /\ guesses \in Nat /\ issued \in Nat /\ MaxAttempts \in Nat \ {0} /\ IsFiniteSet(Requests)
      /\ Cardinality(Requests) \in Nat /\ (Open => guesses < MaxAttempts)
      /\ \A u \in Travellers : codes[u] # None => codes[u].attempts \in Nat
  BY CapNumbers
<1>4. /\ pc'[r] \in {"idle", "burning"}
      /\ \A s \in Requests \ {r} : pc'[s] = pc[s] /\ req'[s] = req[s]
  BY DEF CountAttempt, End, Go, IInv, Shapes
<1>5. Counting' = Counting \ {r} BY <1>1, <1>4 DEF Counting
<1>6. \A u \in Travellers \ {t} : codes'[u] = codes[u]
  BY DEF CountAttempt, IInv, Rows
<1>7. \/ codes[t] = None /\ codes'[t] = None
      \/ codes[t] # None /\ codes'[t].code = codes[t].code /\ codes'[t].attempts = codes[t].attempts + 1
  <2>1. CASE codes[t] = None BY <2>1 DEF CountAttempt
  <2>2. CASE codes[t] # None
    <3>1. codes' = [codes EXCEPT ![t] = [codes[t] EXCEPT !.attempts = @ + 1]] BY <2>2 DEF CountAttempt
    <3>2. codes[t] \in CodeRow BY <1>2, <2>2 DEF IInv, Rows
    <3>3. codes'[t] = [codes[t] EXCEPT !.attempts = @ + 1] BY <1>2, <3>1 DEF IInv, Rows
    <3> QED BY <2>2, <3>2, <3>3 DEF CodeRow
  <2> QED BY <2>1, <2>2
<1>8. \A u \in Travellers, c \in Nat : Holds(u, c)' => Holds(u, c) BY <1>6, <1>7 DEF Holds
<1>9. ASSUME NEW s \in Requests, pc'[s] = "counting"
      PROVE  /\ req'[s].held \in 1 .. issued'
             /\ \A u \in Travellers : Holds(u, req[s].held)' => u = req'[s].traveller
  <2>1. s # r /\ pc[s] = "counting" /\ req'[s] = req[s] BY <1>4, <1>9
  <2>2. req[s].held \in 1 .. issued BY <2>1 DEF Capped
  <2> QED BY <1>1, <1>3, <1>8, <2>1, <2>2 DEF Capped
<1>10. ASSUME NEW u \in Travellers, Holds(u, issued)' PROVE guesses' <= codes'[u].attempts
  <2>1. Holds(u, issued) /\ guesses <= codes[u].attempts BY <1>1, <1>3, <1>8, <1>10 DEF Capped
  <2>2. CASE u = t BY <1>1, <1>3, <1>7, <2>1, <2>2 DEF Holds
  <2>3. CASE u # t
    <3>1. req[r].held # issued BY <1>2, <2>1, <2>3
    <3> QED BY <1>1, <1>6, <2>1, <2>3, <3>1
  <2> QED BY <2>2, <2>3
<1>11. ASSUME ~Open' PROVE guesses' + Cardinality(Counting') < MaxAttempts + Cardinality(Requests)
  <2>1. Counting \subseteq Requests BY DEF Counting
  <2>2. IsFiniteSet(Counting) /\ Cardinality(Counting) \in Nat BY <1>3, <2>1, FewCount
  <2>3. CASE Open
    <3>1. Counting' \subseteq Requests \ {r} BY <1>5, <2>1
    <3>2. IsFiniteSet(Requests \ {r}) /\ Cardinality(Requests \ {r}) = Cardinality(Requests) - 1
      BY <1>3, FS_RemoveElement
    <3>3. Cardinality(Counting') \in Nat /\ Cardinality(Counting') <= Cardinality(Requests) - 1
      BY <3>1, <3>2, FewCount
    <3> QED BY <1>1, <1>3, <2>3, <3>3
  <2>4. CASE ~Open
    <3>1. guesses + Cardinality(Counting) < MaxAttempts + Cardinality(Requests) BY <2>4 DEF Capped
    <3>2. Cardinality(Counting') = IF r \in Counting THEN Cardinality(Counting) - 1 ELSE Cardinality(Counting)
      BY <1>5, <2>2, FS_RemoveElement
    <3>3. r \in Counting <=> req[r].held = issued BY <1>1 DEF Counting
    <3> QED BY <1>1, <1>3, <2>2, <3>1, <3>2, <3>3
  <2> QED BY <2>3, <2>4
<1> QED BY <1>9, <1>10, <1>11 DEF Capped

\* The remaining steps draw no code, count nothing and read no code.
LEMMA OthersCapped ==
    ASSUME IInv, IInv', Capped, [Next]_vars,
           \A r \in Requests : ~ReadCode(r) /\ ~IssueCode(r) /\ ~CountAttempt(r)
    PROVE  Capped'
<1> DEFINE Quiet ==
      /\ UNCHANGED <<issued, guesses>>
      /\ \A t \in Travellers : codes'[t] \in {codes[t], None}
      /\ \A s \in Requests : pc'[s] = "counting" => pc[s] = "counting" /\ req'[s] = req[s]
<1>1. Shapes /\ Rows BY DEF IInv
<1>2. ASSUME NEW r \in Requests, NEW stage, stage # "counting", Go(r, stage),
             \A s \in Requests \ {r} : req'[s] = req[s]
      PROVE  \A s \in Requests : pc'[s] = "counting" => pc[s] = "counting" /\ req'[s] = req[s]
  BY <1>1, <1>2 DEF Go, Shapes
<1>3. ASSUME NEW r \in Requests, End(r)
      PROVE  \A s \in Requests : pc'[s] = "counting" => pc[s] = "counting" /\ req'[s] = req[s]
  BY <1>1, <1>3 DEF End, Go, Shapes
<1>4. ASSUME NEW r \in Requests, NEW stage \in {"finding", "looking", "claiming"}, NEW kind, NEW email,
             NEW key, NEW dead, Begin(r, stage, kind, email, key, dead)
      PROVE  Quiet
  <2>1. \A s \in Requests \ {r} : req'[s] = req[s] BY <1>1, <1>4 DEF Begin, Shapes
  <2> QED BY <1>2, <1>4, <2>1 DEF Begin, tables, history
<1>5. ASSUME NEW r \in Requests, Arrive(r) PROVE Quiet
  <2> HIDE DEF Quiet
  <2> QED BY <1>4, <1>5 DEF Arrive, ArriveRequestCode, ArriveSignIn, ArriveRegister, ArriveWithToken
<1>6. ASSUME NEW r \in Requests, Step(r) PROVE Quiet
  <2>1. CASE FindTraveller(r)
    <3>1. \A s \in Requests \ {r} : req'[s] = req[s] BY <1>1, <2>1 DEF FindTraveller, Shapes, End
    <3>2. \A s \in Requests : pc'[s] = "counting" => pc[s] = "counting" /\ req'[s] = req[s]
      BY <1>2, <1>3, <2>1, <3>1 DEF FindTraveller
    <3> QED BY <2>1, <3>2 DEF FindTraveller, tables, history
  <2>2. CASE AskForCode(r)
    <3>1. \A s \in Requests \ {r} : req'[s] = req[s] BY <1>1, <2>2 DEF AskForCode, Shapes, End
    <3>2. \A s \in Requests : pc'[s] = "counting" => pc[s] = "counting" /\ req'[s] = req[s]
      BY <1>2, <1>3, <2>2, <3>1 DEF AskForCode
    <3> QED BY <2>2, <3>2 DEF AskForCode, tables, history
  <2>3. CASE BurnCode(r)
    <3>1. \A s \in Requests \ {r} : req'[s] = req[s] BY <1>1, <2>3 DEF BurnCode, Shapes, End
    <3>2. \A s \in Requests : pc'[s] = "counting" => pc[s] = "counting" /\ req'[s] = req[s]
      BY <1>2, <1>3, <2>3, <3>1 DEF BurnCode
    <3>3. \A t \in Travellers : codes'[t] \in {codes[t], None} BY <1>1, <2>3 DEF BurnCode, Rows
    <3> QED BY <2>3, <3>2, <3>3 DEF BurnCode, history
  <2>4. CASE \E k \in Sessions : CreateSession(r, k)
    BY <1>3, <2>4 DEF CreateSession
  <2>5. CASE LookUpSession(r)
    <3>1. \A s \in Requests \ {r} : req'[s] = req[s] BY <1>1, <2>5 DEF LookUpSession, Shapes, End
    <3>2. \A s \in Requests : pc'[s] = "counting" => pc[s] = "counting" /\ req'[s] = req[s]
      BY <1>2, <1>3, <2>5, <3>1 DEF LookUpSession
    <3> QED BY <2>5, <3>2 DEF LookUpSession, tables
  <2>6. CASE TouchSession(r)
    <3>1. \A s \in Requests \ {r} : req'[s] = req[s] BY <1>1, <2>6 DEF TouchSession, Shapes, End
    <3>2. \A s \in Requests : pc'[s] = "counting" => pc[s] = "counting" /\ req'[s] = req[s]
      BY <1>2, <1>3, <2>6, <3>1 DEF TouchSession
    <3> QED BY <2>6, <3>2 DEF TouchSession
  <2>7. CASE ServeThrough(r) BY <1>3, <2>7 DEF ServeThrough, history
  <2>8. CASE SpendInvite(r)
    <3>1. \A s \in Requests \ {r} : req'[s] = req[s] BY <1>1, <2>8 DEF SpendInvite, Shapes, End
    <3>2. \A s \in Requests : pc'[s] = "counting" => pc[s] = "counting" /\ req'[s] = req[s]
      BY <1>2, <1>3, <2>8, <3>1 DEF SpendInvite
    <3> QED BY <2>8, <3>2 DEF SpendInvite, history
  <2>9. CASE \E t \in Travellers : CreateTraveller(r, t)
    <3>1. \A s \in Requests \ {r} : req'[s] = req[s] BY <1>1, <2>9 DEF CreateTraveller, Shapes, End
    <3>2. \A s \in Requests : pc'[s] = "counting" => pc[s] = "counting" /\ req'[s] = req[s]
      BY <1>2, <1>3, <2>9, <3>1 DEF CreateTraveller
    <3> QED BY <2>9, <3>2 DEF CreateTraveller
  <2>10. CASE RecordInviteUser(r) BY <1>3, <2>10 DEF RecordInviteUser, history
  <2> HIDE DEF Quiet
  <2> QED BY <1>6, <2>1, <2>2, <2>3, <2>4, <2>5, <2>6, <2>7, <2>8, <2>9, <2>10 DEF Step
<1>7. ASSUME NEW r \in Requests, CutOff(r) PROVE Quiet BY <1>3, <1>7 DEF CutOff, tables, history
<1>8. ASSUME Panel PROVE Quiet
  <2>1. UNCHANGED <<issued, guesses, pc, req>>
    BY <1>8 DEF Panel, MintInvite, DeleteInvite, RevokeSessionByID, DeleteTraveller, history
  <2>2. \A t \in Travellers : codes'[t] \in {codes[t], None}
    BY <1>1, <1>8 DEF Panel, MintInvite, DeleteInvite, RevokeSessionByID, DeleteTraveller, Rows
  <2> QED BY <2>1, <2>2
<1>9. ASSUME Tick PROVE Quiet BY <1>9 DEF Tick, tables, history
<1>10. ASSUME UNCHANGED vars PROVE Quiet BY <1>10 DEF vars, tables, history
<1>11. Quiet
  <2> HIDE DEF Quiet
  <2> QED BY <1>5, <1>6, <1>7, <1>8, <1>9, <1>10 DEF Next
<1> HIDE DEF IInv
<1> QED BY <1>11, NothingCounted

-----------------------------------------------------------------------------
(***************************************************************************)
(* The theorems.                                                           *)
(***************************************************************************)

\* The invariant holds initially.
LEMMA InitHolds == Init => IInv
<1> SUFFICES ASSUME Init PROVE IInv OBVIOUS
<1>1. Rows
  <2>1. \A t \in Travellers : ~Present(t) /\ codes[t] = None BY MarkersAreNoRows DEF Init, Present
  <2>2. \A k \in Sessions : ~Live(k) BY DEF Init, Live
  <2>3. issued \in 0 .. MaxCodes BY LimitsNat DEF Init
  <2>4. invites \in [Invites -> InviteRow] BY DEF Init, InviteRow
  <2> QED BY <2>1, <2>2, <2>3, <2>4 DEF Init, Rows
<1>2. Shapes BY DEF Init, Shapes, Stages
<1>3. HeldOnce BY DEF Init, HeldOnce, Holds
<1>4. Claims BY DEF Init, Claims
<1>5. Slides BY DEF Init, Slides, SessionSlides, Live
<1>6. AllCarry BY DEF Init, AllCarry
<1> QED BY <1>1, <1>2, <1>3, <1>4, <1>5, <1>6 DEF IInv

\* Every step keeps the invariant.
LEMMA NextKeeps == IInv /\ [Next]_vars => IInv'
<1> SUFFICES ASSUME IInv, [Next]_vars PROVE IInv' OBVIOUS
<1>1. ASSUME NEW r \in Requests, Step(r) PROVE IInv'
  <2>1. CASE FindTraveller(r) BY <2>1, FindTravellerKeeps
  <2>2. CASE AskForCode(r) BY <2>2, AskForCodeKeeps
  <2>3. CASE IssueCode(r) BY <2>3, IssueCodeKeeps
  <2>4. CASE ReadCode(r) BY <2>4, ReadCodeKeeps
  <2>5. CASE CountAttempt(r) BY <2>5, CountAttemptKeeps
  <2>6. CASE BurnCode(r) BY <2>6, BurnCodeKeeps
  <2>7. CASE \E k \in Sessions : CreateSession(r, k) BY <2>7, CreateSessionKeeps
  <2>8. CASE LookUpSession(r) BY <2>8, LookUpSessionKeeps
  <2>9. CASE TouchSession(r) BY <2>9, TouchSessionKeeps
  <2>10. CASE ServeThrough(r) BY <2>10, ServeThroughKeeps
  <2>11. CASE SpendInvite(r) BY <2>11, SpendInviteKeeps
  <2>12. CASE \E t \in Travellers : CreateTraveller(r, t) BY <2>12, CreateTravellerKeeps
  <2>13. CASE RecordInviteUser(r) BY <2>13, RecordInviteUserKeeps
  <2> QED BY <1>1, <2>1, <2>2, <2>3, <2>4, <2>5, <2>6, <2>7, <2>8, <2>9, <2>10, <2>11, <2>12, <2>13
         DEF Step
<1>2. ASSUME NEW r \in Requests, Arrive(r) PROVE IInv' BY <1>2, ArriveKeeps
<1>3. ASSUME NEW r \in Requests, CutOff(r) PROVE IInv' BY <1>3, CutOffKeeps
<1>4. CASE Panel BY <1>4, InviteRowsKeep, RevokeSessionByIDKeeps, DeleteTravellerKeeps DEF Panel
<1>5. CASE Tick BY <1>5, TickKeeps
<1>6. CASE UNCHANGED vars
  <2>1. UNCHANGED <<clock, travellers, codes, issued, sessions, invites, pc, req, guesses, spent,
                    admitted, accepted>>
    BY <1>6 DEF vars, tables, history
  <2>2. Rows' /\ Shapes' BY <2>1 DEF IInv, Rows, Shapes, Present, Live
  <2>3. HeldOnce' /\ Claims' BY <2>1 DEF IInv, HeldOnce, Holds, Claims
  <2>4. Slides' BY <2>1 DEF IInv, Slides, SessionSlides, Live
  <2>5. AllCarry' BY <2>1 DEF IInv, AllCarry, Carries, Holds, Revoked, Live
  <2> QED BY <2>2, <2>3, <2>4, <2>5 DEF IInv
<1> QED BY <1>1, <1>2, <1>3, <1>4, <1>5, <1>6 DEF Next

\* The inductive invariant holds of every behaviour of SignIn: whatever the
\* other requests, the panel and the clock do between two statements of a
\* request, what is left of its code, session or invite is what its next
\* statement relies on.
THEOREM Invariance == Spec => []IInv
BY InitHolds, NextKeeps, PTL DEF Spec

\* Every row has its table's type, an address names one traveller, and codes and
\* sessions go with their traveller (the foreign keys' cascades and the check
\* CreateSession makes under the lock).
THEOREM Typed == Spec => []TypeOK
<1>1. IInv => TypeOK BY TypeSplit DEF IInv
<1> QED BY <1>1, Invariance, PTL

\* A code that was spent, burned, replaced or out of date before SignInWithCode
\* was called for it gets that call past neither the comparison nor the burning.
THEOREM SpentCodes == Spec => []SpentCodeOpensNothing
<1>1. IInv => SpentCodeOpensNothing BY DEF IInv, AllCarry, Carries, SpentCodeOpensNothing
<1> QED BY <1>1, Invariance, PTL

\* Authenticate never lets through a request whose session was revoked or
\* deleted before it came, however late another request's touch lands.
THEOREM RevokedSessions == Spec => []RevokedIsNeverThrough
<1>1. IInv => RevokedIsNeverThrough BY DEF IInv, AllCarry, Carries, RevokedIsNeverThrough
<1> QED BY <1>1, Invariance, PTL

\* RegisterWithInvite admits at most one traveller to an invite, and no traveller
\* without one.
THEOREM InvitesAdmitOne == Spec => []OneAccountPerInvite
<1>1. IInv => OneAccountPerInvite BY DEF IInv, Claims, Taken, OneAccountPerInvite
<1> QED BY <1>1, Invariance, PTL

\* A session outlives each use of it by its lifetime less one TouchInterval and
\* one deadline, in whatever order the touches land.
THEOREM Sliding == Spec => []SessionSlides
<1>1. IInv => SessionSlides BY DEF IInv, Slides
<1> QED BY <1>1, Invariance, PTL

\* However many sign-ins read a code before the first of them is counted, the
\* code answers at most MaxCodeAttempts wrong guesses and one more for every
\* other request in flight (CountAttempt counts, SignInWithCode burns).
THEOREM CodesResistGuessing == Spec => []GuessesBounded
<1>1. Init => Capped
  <2> SUFFICES ASSUME Init PROVE Capped OBVIOUS
  <2>1. Counting = {} /\ Cardinality(Counting) = 0 BY FS_EmptySet DEF Init, Counting
  <2>2. MaxAttempts \in Nat \ {0} /\ Cardinality(Requests) \in Nat
    BY LimitsNat, RequestsFinite, FS_CardinalityType
  <2> QED BY <2>1, <2>2 DEF Init, Capped, Holds
<1>2. IInv /\ IInv' /\ Capped /\ [Next]_vars => Capped'
  <2> SUFFICES ASSUME IInv, IInv', Capped, [Next]_vars PROVE Capped' OBVIOUS
  <2> HIDE DEF IInv
  <2> QED BY ReadCodeCapped, IssueCodeCapped, CountAttemptCapped, OthersCapped
<1>3. IInv /\ Capped => GuessesBounded
  <2> SUFFICES ASSUME IInv, Capped PROVE GuessesBounded OBVIOUS
  <2>1. /\ guesses \in Nat /\ MaxAttempts \in Nat \ {0} /\ IsFiniteSet(Requests)
        /\ Cardinality(Requests) \in Nat /\ (Open => guesses < MaxAttempts)
    BY CapNumbers
  <2>2. Cardinality(Counting) \in Nat BY <2>1, FewCount DEF Counting
  <2> QED BY <2>1, <2>2 DEF Capped, GuessesBounded
<1> QED BY <1>1, <1>2, <1>3, Invariance, PTL DEF Spec
=============================================================================
