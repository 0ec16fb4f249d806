--------------------------- MODULE MCLogbookStore ---------------------------
(***************************************************************************)
(* Instances of LogbookStore for TLC: symmetric sets of client-minted ids. *)
(***************************************************************************)
EXTENDS LogbookStore, TLC

Symmetry == Permutations(Trips) \cup Permutations(Cities) \cup Permutations(Places)
            \cup Permutations(Photos) \cup Permutations(Media) \cup Permutations(Tokens)
=============================================================================
