------------------------------ MODULE MCSignIn ------------------------------
(***************************************************************************)
(* Instances of SignIn for TLC.  Requests and ids are symmetric.  The code *)
(* compares moments and never reads the clock for anything else, so states *)
(* that differ by a shift in time are one state: TLC sees every moment as  *)
(* its age, and ages past the last comparison they enter as one.  The      *)
(* clock needs no bound.                                                   *)
(***************************************************************************)
EXTENDS SignIn, TLC

Symmetry == Permutations(Requests) \cup Permutations(Travellers)

Age(moment, last) == IF clock - moment > last THEN last ELSE clock - moment

view == <<travellers, issued, invites, pc, guesses, spent, admitted,
          [t \in Travellers |-> IF codes[t] = None THEN None
              ELSE [codes[t] EXCEPT !.issuedAt = Age(@, CodeInterval), !.expiresAt = Age(@, 0)]],
          [k \in Sessions |-> IF ~Live(k) THEN <<sessions[k]>>
              ELSE <<[sessions[k] EXCEPT !.lastUsed = Age(@, TouchInterval), !.expiresAt = Age(@, 0)],
                     Age(accepted[k], Deadline + 1)>>],
          [r \in Requests |-> IF pc[r] = "idle" THEN None
              ELSE [req[r] EXCEPT !.at = Age(@, Deadline), !.now = Age(@, Deadline)]]>>
=============================================================================
