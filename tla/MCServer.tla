------------------------------ MODULE MCServer ------------------------------
(***************************************************************************)
(* An instance of Server: the release in service, the next one, and a      *)
(* build of the first whose second file was edited.                        *)
(***************************************************************************)
EXTENDS Server, TLC

CONSTANTS p1, p2, p3

F1 == [version |-> 1, sum |-> "one", noTransaction |-> FALSE, size |-> 2,
       concurrent |-> {}]
F2 == [version |-> 2, sum |-> "two", noTransaction |-> TRUE, size |-> 2,
       concurrent |-> {2}]
F2Edited == [F2 EXCEPT !.sum = "edited"]
F3 == [version |-> 3, sum |-> "three", noTransaction |-> FALSE, size |-> 1,
       concurrent |-> {}]

MCFiles == (p1 :> <<F1, F2>>) @@ (p2 :> <<F1, F2, F3>>) @@ (p3 :> <<F1, F2Edited>>)
=============================================================================
