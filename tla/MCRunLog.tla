---------------------------------- MODULE MCRunLog ----------------------------------
(* Values of RunLog's constants for TLC. *)
EXTENDS RunLog, TLC

Ids == 1..5

Symmetry == Permutations(Writers)

================================================================================
