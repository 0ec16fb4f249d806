------------------------------- MODULE SignIn -------------------------------
(***************************************************************************)
(* Accounts, sign-in codes, sessions and invites (internal/auth,           *)
(* internal/postgres/auth_store.go and signin_code_store.go, the auth      *)
(* handlers, and the operator panel's writes to the same tables).          *)
(*                                                                         *)
(* Nothing here runs inside WithTravellerTx: a sign-in is four or five     *)
(* statements, each its own transaction, and other requests and the panel  *)
(* run between any two of them.  One statement is one step.                *)
(*                                                                         *)
(* The application's clock and the database's now() are one clock.  A      *)
(* request is cancelled at its deadline (httpx Timeout).                   *)
(***************************************************************************)
EXTENDS Integers, FiniteSets

CONSTANTS
    Requests,   \* requests in flight at once
    Emails, Travellers, Sessions, Invites,
    MaxAttempts,            \* MaxCodeAttempts
    CodeTTL, CodeInterval, SessionTTL, TouchInterval, Deadline,
    MaxCodes,               \* bound: codes drawn in one behaviour
    Unborn, Deleted, None   \* an id not used yet; a row that is gone; no value

ASSUME LimitsNat ==
    /\ {MaxAttempts, CodeTTL, CodeInterval, SessionTTL, TouchInterval, Deadline} \subseteq Nat \ {0}
    /\ MaxCodes \in Nat
    /\ Deadline < CodeTTL /\ Deadline < SessionTTL   \* so rows are written before they expire
ASSUME RequestsFinite == IsFiniteSet(Requests)

VARIABLES
    clock,
    travellers, \* the address of each traveller id
    codes,      \* sign_in_codes: at most one row per traveller
    issued,     \* how many codes were drawn; a code is its number
    sessions, invites,
    pc, req,    \* where each request is, and what it carries
    guesses,    \* history: wrong guesses answered at the code drawn last
    spent,      \* history: the codes that opened a session
    admitted,   \* history: the travellers each invite let in
    accepted    \* history: the moment each session was last let through

tables  == <<travellers, codes, issued, sessions, invites>>
history == <<guesses, spent, admitted, accepted>>
vars    == <<clock, tables, pc, req, history>>

Codes == 1 .. MaxCodes

CodeRow    == [code : Codes, issuedAt : Nat, expiresAt : Nat, attempts : Nat]
SessionRow == [traveller : Travellers, lastUsed : Nat, expiresAt : Nat, revoked : BOOLEAN]
InviteRow  == [state : {"unminted", "live", "used", "deleted"}, by : Travellers \cup {None}]

Kinds  == {"requestCode", "signIn", "register", "read", "revokeThis", "revokeAll"}
Stages == {"idle", "finding", "asking", "issuing", "reading", "counting", "burning", "spending",
           "minting", "looking", "touching", "through", "claiming", "creating", "recording"}

\* The markers are not rows, addresses or ids.
ASSUME MarkersAreNoRows ==
    /\ Unborn # Deleted
    /\ {Unborn, Deleted} \cap Emails = {}
    /\ Unborn \notin SessionRow /\ Deleted \notin SessionRow
    /\ None \notin CodeRow /\ None \notin Travellers

Keys == Nat \cup Sessions \cup Invites

\* key is the code, the session or the invite presented; held is the code it
\* was compared with; dead records whether the key was already dead on arrival.
RequestState == [kind : Kinds, email : Emails \cup {None}, key : Keys,
                 traveller : Travellers \cup {None}, at : Nat, now : Nat, held : Nat,
                 dead : BOOLEAN]

Live(k) == sessions[k] \notin {Unborn, Deleted}
Present(t) == travellers[t] \in Emails

TypeOK ==
    /\ clock \in Nat
    /\ travellers \in [Travellers -> Emails \cup {Unborn, Deleted}]
    /\ codes \in [Travellers -> CodeRow \cup {None}]
    /\ issued \in 0 .. MaxCodes
    /\ sessions \in [Sessions -> SessionRow \cup {Unborn, Deleted}]
    /\ invites \in [Invites -> InviteRow]
    /\ pc \in [Requests -> Stages]
    /\ req \in [Requests -> RequestState \cup {None}]
    /\ \A r \in Requests : pc[r] # "idle" => req[r] \in RequestState
    /\ guesses \in Nat /\ spent \subseteq Codes
    /\ admitted \in [Invites -> SUBSET Travellers]
    /\ accepted \in [Sessions -> Nat]
    /\ \A t, u \in Travellers : Present(t) /\ travellers[t] = travellers[u] => t = u
    /\ \A t \in Travellers : codes[t] # None => Present(t)
    /\ \A k \in Sessions : Live(k) => Present(sessions[k].traveller)

Init ==
    /\ clock = 0
    /\ travellers = [t \in Travellers |-> Unborn]
    /\ codes = [t \in Travellers |-> None]
    /\ issued = 0
    /\ sessions = [k \in Sessions |-> Unborn]
    /\ invites = [i \in Invites |-> [state |-> "unminted", by |-> None]]
    /\ pc = [r \in Requests |-> "idle"]
    /\ req = [r \in Requests |-> None]
    /\ guesses = 0 /\ spent = {}
    /\ admitted = [i \in Invites |-> {}]
    /\ accepted = [k \in Sessions |-> 0]

Go(r, stage) == pc' = [pc EXCEPT ![r] = stage]

End(r) == Go(r, "idle") /\ req' = [req EXCEPT ![r] = None]

Begin(r, stage, kind, email, key, dead) ==
    /\ pc[r] = "idle"
    /\ Go(r, stage)
    /\ req' = [req EXCEPT ![r] = [kind |-> kind, email |-> email, key |-> key, traveller |-> None,
                                  at |-> clock, now |-> clock, held |-> 0, dead |-> dead]]
    /\ UNCHANGED <<clock, tables, history>>

-----------------------------------------------------------------------------
(***************************************************************************)
(* RequestCode and SignInWithCode.                                         *)
(***************************************************************************)

\* A code some traveller holds and that has not expired.
Standing(c) == \E t \in Travellers : codes[t] # None /\ codes[t].code = c /\ clock < codes[t].expiresAt

ArriveRequestCode(r, email) == Begin(r, "finding", "requestCode", email, 0, FALSE)

\* 0 stands for a guess that is no code at all, or not even six digits.
ArriveSignIn(r, email, c) ==
    Begin(r, "finding", "signIn", email, c, c \in spent \/ ~Standing(c))

\* TravellerByEmail.  A stranger is answered like anybody else.
FindTraveller(r) ==
    /\ pc[r] = "finding"
    /\ \/ /\ \A t \in Travellers : travellers[t] # req[r].email
          /\ End(r)
       \/ \E t \in Travellers :
             /\ travellers[t] = req[r].email
             /\ req' = [req EXCEPT ![r].traveller = t]
             /\ Go(r, IF req[r].kind = "requestCode" THEN "asking" ELSE "reading")
    /\ UNCHANGED <<clock, tables, history>>

\* CodeFor, in RequestCode: a code younger than the interval is left alone.
AskForCode(r) ==
    LET held == codes[req[r].traveller]
    IN  /\ pc[r] = "asking"
        /\ IF held # None /\ clock - held.issuedAt < CodeInterval THEN End(r)
           ELSE Go(r, "issuing") /\ req' = [req EXCEPT ![r].now = clock]
        /\ UNCHANGED <<clock, tables, history>>

\* IssueCode: an upsert with a new code, a new clock and no attempts.
IssueCode(r) ==
    LET t == req[r].traveller
    IN  /\ pc[r] = "issuing"
        /\ \/ /\ Present(t) /\ issued < MaxCodes
              /\ issued' = issued + 1 /\ guesses' = 0
              /\ codes' = [codes EXCEPT ![t] = [code |-> issued + 1, issuedAt |-> clock,
                                                expiresAt |-> req[r].now + CodeTTL, attempts |-> 0]]
           \/ ~Present(t) /\ UNCHANGED <<codes, issued, guesses>>
        /\ End(r)
        /\ UNCHANGED <<clock, travellers, sessions, invites, spent, admitted, accepted>>

\* Mutant: the attempts are only looked at when they are counted.
UsableUntilExpiry(row) == clock < row.expiresAt

\* Usable: not expired and not guessed at too often.
Usable(row) == clock < row.expiresAt /\ row.attempts < MaxAttempts

\* CodeFor, in SignInWithCode, and what is decided on the row it answers.
ReadCode(r) ==
    LET row == codes[req[r].traveller]
    IN  /\ pc[r] = "reading"
        /\ \/ row = None /\ End(r)
           \/ /\ row # None
              /\ req' = [req EXCEPT ![r].held = IF Usable(row) THEN row.code ELSE 0]
              /\ Go(r, IF ~Usable(row) THEN "burning"
                       ELSE IF row.code = req[r].key THEN "spending" ELSE "counting")
        /\ UNCHANGED <<clock, tables, history>>

\* CountAttempt counts against whatever code the traveller holds by now.
CountAttempt(r) ==
    LET t == req[r].traveller
    IN  /\ pc[r] = "counting"
        /\ guesses' = IF req[r].held = issued THEN guesses + 1 ELSE guesses
        /\ \/ codes[t] = None /\ End(r) /\ UNCHANGED codes
           \/ /\ codes[t] # None
              /\ codes' = [codes EXCEPT ![t].attempts = @ + 1]
              /\ IF codes[t].attempts + 1 >= MaxAttempts THEN Go(r, "burning") /\ UNCHANGED req
                 ELSE End(r)
        /\ UNCHANGED <<clock, travellers, issued, sessions, invites, spent, admitted, accepted>>

\* Mutant: only a refusal burns.
BurnCodeOnRefusal(r) ==
    /\ pc[r] \in {"burning", "spending"}
    /\ codes' = IF pc[r] = "burning" THEN [codes EXCEPT ![req[r].traveller] = None] ELSE codes
    /\ IF pc[r] = "burning" THEN End(r)
       ELSE Go(r, "minting") /\ req' = [req EXCEPT ![r].now = clock]
    /\ UNCHANGED <<clock, travellers, issued, sessions, invites, history>>

\* BurnCode removes the traveller's code; a refusal ends there, a sign-in goes on.
BurnCode(r) ==
    /\ pc[r] \in {"burning", "spending"}
    /\ codes' = [codes EXCEPT ![req[r].traveller] = None]
    /\ IF pc[r] = "burning" THEN End(r)
       ELSE Go(r, "minting") /\ req' = [req EXCEPT ![r].now = clock]
    /\ UNCHANGED <<clock, travellers, issued, sessions, invites, history>>

\* Mutant: the traveller is not looked for under the lock.
CreateSessionUnchecked(r, k) ==
    /\ pc[r] = "minting" /\ sessions[k] = Unborn
    /\ spent' = spent \cup {req[r].key}
    /\ sessions' = [sessions EXCEPT ![k] =
          [traveller |-> req[r].traveller, lastUsed |-> clock,
           expiresAt |-> req[r].now + SessionTTL, revoked |-> FALSE]]
    /\ accepted' = [accepted EXCEPT ![k] = clock]
    /\ End(r)
    /\ UNCHANGED <<clock, travellers, codes, issued, invites, guesses, admitted>>

\* CreateSession, under the traveller's lock: no traveller, no session.
CreateSession(r, k) ==
    LET t == req[r].traveller
    IN  /\ pc[r] = "minting" /\ sessions[k] = Unborn
        /\ \/ ~Present(t) /\ UNCHANGED <<sessions, spent, accepted>>
           \/ /\ Present(t)
              /\ spent' = spent \cup {req[r].key}
              /\ sessions' = [sessions EXCEPT ![k] =
                    [traveller |-> t, lastUsed |-> clock, expiresAt |-> req[r].now + SessionTTL,
                     revoked |-> FALSE]]
              /\ accepted' = [accepted EXCEPT ![k] = clock]
        /\ End(r)
        /\ UNCHANGED <<clock, travellers, codes, issued, invites, guesses, admitted>>

-----------------------------------------------------------------------------
(***************************************************************************)
(* Authenticate and the two revocations.                                   *)
(***************************************************************************)

Revoked(k) == sessions[k] = Deleted \/ (Live(k) /\ sessions[k].revoked)

ArriveWithToken(r, kind, k) ==
    /\ sessions[k] # Unborn
    /\ Begin(r, "looking", kind, None, k, Revoked(k))

\* The session may be let through: neither revoked nor expired.
Good(row) == ~row.revoked /\ clock < row.expiresAt

\* SessionByTokenHash.
LookUpSession(r) ==
    LET k == req[r].key
    IN  /\ pc[r] = "looking"
        /\ \/ ~(Live(k) /\ Good(sessions[k])) /\ End(r) /\ UNCHANGED accepted
           \/ /\ Live(k) /\ Good(sessions[k])
              /\ req' = [req EXCEPT ![r].traveller = sessions[k].traveller, ![r].now = clock]
              /\ IF clock - sessions[k].lastUsed >= TouchInterval
                 THEN Go(r, "touching") /\ UNCHANGED accepted
                 ELSE Go(r, "through") /\ accepted' = [accepted EXCEPT ![k] = clock]
        /\ UNCHANGED <<clock, tables, guesses, spent, admitted>>

\* Mutant: the whole row is written back as it was read.
TouchedAsRead(row, now) ==
    [row EXCEPT !.lastUsed = now, !.expiresAt = now + SessionTTL, !.revoked = FALSE]

\* Mutant: the lifetime does not slide.
TouchedOnly(row, now) == [row EXCEPT !.lastUsed = now]

\* touchSessionSQL sets the moment the session was looked up, and a lifetime from it.
Touched(row, now) == [row EXCEPT !.lastUsed = now, !.expiresAt = now + SessionTTL]

\* TouchSession asks for the id alone: it slides a session that was
\* revoked or that expired since it was looked up, and revives neither flag.
TouchSession(r) ==
    LET k == req[r].key
    IN  /\ pc[r] = "touching"
        /\ \/ ~Live(k) /\ End(r) /\ UNCHANGED <<sessions, accepted>>
           \/ /\ Live(k)
              /\ sessions' = [sessions EXCEPT ![k] = Touched(sessions[k], req[r].now)]
              /\ accepted' = [accepted EXCEPT ![k] = IF @ > req[r].now THEN @ ELSE req[r].now]
              /\ Go(r, "through") /\ UNCHANGED req
        /\ UNCHANGED <<clock, travellers, codes, issued, invites, guesses, spent, admitted>>

Revoke(S) ==
    sessions' = [k \in Sessions |->
        IF k \in S /\ Live(k) THEN [sessions[k] EXCEPT !.revoked = TRUE] ELSE sessions[k]]

SessionsOf(t) == {k \in Sessions : Live(k) /\ sessions[k].traveller = t}

\* The handler behind RequireTraveller.
ServeThrough(r) ==
    /\ pc[r] = "through"
    /\ \/ req[r].kind = "read" /\ UNCHANGED sessions
       \/ req[r].kind = "revokeThis" /\ Revoke({req[r].key})
       \/ req[r].kind = "revokeAll" /\ Revoke(SessionsOf(req[r].traveller))
    /\ End(r)
    /\ UNCHANGED <<clock, travellers, codes, issued, invites, history>>

-----------------------------------------------------------------------------
(***************************************************************************)
(* RegisterWithInvite.                                                     *)
(***************************************************************************)

ArriveRegister(r, email, i) == Begin(r, "claiming", "register", email, i, FALSE)

\* Mutant: the invite is marked without asking whether it is unused.
SpendInviteAgain(r) ==
    LET i == req[r].key
    IN  /\ pc[r] = "claiming"
        /\ \/ invites[i].state \notin {"live", "used"} /\ End(r) /\ UNCHANGED invites
           \/ /\ invites[i].state \in {"live", "used"}
              /\ invites' = [invites EXCEPT ![i].state = "used"]
              /\ Go(r, "creating") /\ UNCHANGED req
        /\ UNCHANGED <<clock, travellers, codes, issued, sessions, history>>

\* SpendInvite: one UPDATE .. WHERE used_at IS NULL.
SpendInvite(r) ==
    LET i == req[r].key
    IN  /\ pc[r] = "claiming"
        /\ \/ invites[i].state # "live" /\ End(r) /\ UNCHANGED invites
           \/ /\ invites[i].state = "live"
              /\ invites' = [invites EXCEPT ![i].state = "used"]
              /\ Go(r, "creating") /\ UNCHANGED req
        /\ UNCHANGED <<clock, travellers, codes, issued, sessions, history>>

\* CreateTraveller: ON CONFLICT (lower(email)) DO NOTHING.
CreateTraveller(r, t) ==
    /\ pc[r] = "creating" /\ travellers[t] = Unborn
    /\ \/ /\ \E u \in Travellers : travellers[u] = req[r].email
          /\ End(r) /\ UNCHANGED <<travellers, admitted>>
       \/ /\ \A u \in Travellers : travellers[u] # req[r].email
          /\ travellers' = [travellers EXCEPT ![t] = req[r].email]
          /\ admitted' = [admitted EXCEPT ![req[r].key] = @ \cup {t}]
          /\ req' = [req EXCEPT ![r].traveller = t]
          /\ Go(r, "recording")
    /\ UNCHANGED <<clock, codes, issued, sessions, invites, guesses, spent, accepted>>

\* RecordInviteUser writes who it was, if both rows are still there.
RecordInviteUser(r) ==
    LET i == req[r].key
    IN  /\ pc[r] = "recording"
        /\ \/ /\ invites[i].state # "deleted" /\ Present(req[r].traveller)
              /\ invites' = [invites EXCEPT ![i].by = req[r].traveller]
           \/ /\ invites[i].state = "deleted" \/ ~Present(req[r].traveller)
              /\ UNCHANGED invites
        /\ End(r)
        /\ UNCHANGED <<clock, travellers, codes, issued, sessions, history>>

-----------------------------------------------------------------------------
(***************************************************************************)
(* The operator panel, one transaction each, and the clock.                *)
(***************************************************************************)

MintInvite(i) ==
    /\ invites[i].state = "unminted"
    /\ invites' = [invites EXCEPT ![i].state = "live"]
    /\ UNCHANGED <<clock, travellers, codes, issued, sessions, pc, req, history>>

DeleteInvite(i) ==
    /\ invites[i].state \in {"live", "used"}
    /\ invites' = [invites EXCEPT ![i] = [state |-> "deleted", by |-> None]]
    /\ UNCHANGED <<clock, travellers, codes, issued, sessions, pc, req, history>>

RevokeSessionByID(k) ==
    /\ Live(k)
    /\ Revoke({k})
    /\ UNCHANGED <<clock, travellers, codes, issued, invites, pc, req, history>>

\* DeleteTraveller: codes and sessions cascade, used_by is nulled, used_at stays.
DeleteTraveller(t) ==
    /\ Present(t)
    /\ travellers' = [travellers EXCEPT ![t] = Deleted]
    /\ codes' = [codes EXCEPT ![t] = None]
    /\ sessions' = [k \in Sessions |-> IF k \in SessionsOf(t) THEN Deleted ELSE sessions[k]]
    /\ invites' = [i \in Invites |-> IF invites[i].by = t THEN [invites[i] EXCEPT !.by = None]
                                     ELSE invites[i]]
    /\ UNCHANGED <<clock, issued, pc, req, history>>

\* A deadline, a dropped connection or a crash between two statements.
CutOff(r) == pc[r] # "idle" /\ End(r) /\ UNCHANGED <<clock, tables, history>>

\* No request outlives its deadline.
Tick ==
    /\ \A r \in Requests : pc[r] # "idle" => clock < req[r].at + Deadline
    /\ clock' = clock + 1
    /\ UNCHANGED <<tables, pc, req, history>>

Arrive(r) ==
    \/ \E email \in Emails :
          \/ ArriveRequestCode(r, email)
          \/ \E c \in 0 .. issued : ArriveSignIn(r, email, c)
          \/ \E i \in Invites : ArriveRegister(r, email, i)
    \/ \E kind \in {"read", "revokeThis", "revokeAll"}, k \in Sessions : ArriveWithToken(r, kind, k)

Step(r) ==
    \/ FindTraveller(r) \/ AskForCode(r) \/ IssueCode(r) \/ ReadCode(r) \/ CountAttempt(r)
    \/ BurnCode(r) \/ \E k \in Sessions : CreateSession(r, k)
    \/ LookUpSession(r) \/ TouchSession(r) \/ ServeThrough(r)
    \/ SpendInvite(r) \/ \E t \in Travellers : CreateTraveller(r, t)
    \/ RecordInviteUser(r)

Panel ==
    \/ \E i \in Invites : MintInvite(i) \/ DeleteInvite(i)
    \/ \E k \in Sessions : RevokeSessionByID(k)
    \/ \E t \in Travellers : DeleteTraveller(t)

Next == Panel \/ Tick \/ \E r \in Requests : Arrive(r) \/ Step(r) \/ CutOff(r)

Spec == Init /\ [][Next]_vars

-----------------------------------------------------------------------------
(***************************************************************************)
(* Properties.                                                             *)
(***************************************************************************)

\* A code that had opened a session, or was burned, replaced or out of date,
\* before a sign-in came opens nothing for it, whatever other requests do while
\* it runs.  (Sign-ins that overlap may each have read the code before the
\* first of them burns it: the code is single-use to those that come after.)
SpentCodeOpensNothing ==
    \A r \in Requests : pc[r] \in {"spending", "minting"} => ~req[r].dead

\* A request that came with a revoked or deleted session is never let through,
\* although a slower request may slide that session's expiry at any moment.
RevokedIsNeverThrough ==
    \A r \in Requests : pc[r] \in {"touching", "through"} => ~req[r].dead

\* The cap on guesses holds across overlapping sign-ins: each code answers at
\* most the cap and one more for every other request in flight.
GuessesBounded == guesses <= MaxAttempts + Cardinality(Requests) - 1

\* An invite lets in at most one traveller, and every traveller was let in by
\* an invite that is no longer live, after the traveller's own deletion too.
OneAccountPerInvite ==
    /\ \A i \in Invites : \A t, u \in admitted[i] : t = u
    /\ \A t \in Travellers : travellers[t] # Unborn =>
          \E i \in Invites : t \in admitted[i] /\ invites[i].state \in {"used", "deleted"}

\* A session that was let through outlives that moment by its lifetime less one
\* touch interval and one deadline, although the touches of two requests may
\* land out of order and a lifetime is counted from before the row is written.
SessionSlides ==
    \A k \in Sessions : Live(k) =>
        sessions[k].expiresAt + TouchInterval + Deadline > accepted[k] + SessionTTL
=============================================================================
