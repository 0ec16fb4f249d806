---------------------------- MODULE TokenBuckets ----------------------------
(***************************************************************************)
(* What a rate limiter promises: every client has one bucket for good,     *)
(* full at first, filled at a constant rate up to its brim; a request is   *)
(* let through exactly if a whole token is there, and takes it.            *)
(***************************************************************************)
EXTENDS Integers

CONSTANTS
    Clients,
    Burst,      \* tokens a bucket holds; also the units one moment brings
    Unit        \* units in a token

VARIABLES level, answer

Brim == Burst * Unit

Init ==
    /\ level = [c \in Clients |-> Brim]
    /\ answer = [c \in Clients |-> TRUE]

Moment ==
    /\ level' = [c \in Clients |-> IF level[c] + Burst < Brim THEN level[c] + Burst ELSE Brim]
    /\ UNCHANGED answer

Ask(c) ==
    /\ answer' = [answer EXCEPT ![c] = level[c] >= Unit]
    /\ level' = [level EXCEPT ![c] = IF @ >= Unit THEN @ - Unit ELSE @]

Next == Moment \/ \E c \in Clients : Ask(c)

Spec == Init /\ [][Next]_<<level, answer>>
=============================================================================
