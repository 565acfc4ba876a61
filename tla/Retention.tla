-------------------------------- MODULE Retention --------------------------------
(* RunRetention: which recorded runs of a vigy a store keeps.  Run ids stand  *)
(* for uuidv7s: they order by the clock that minted them.                      *)
EXTENDS Naturals, FiniteSets

CONSTANTS
  RunIds,    \* the run ids there are
  Keep,      \* how many runs of a vigy the store keeps,
  KeepAll    \* or this: all of them

ASSUME RetentionAssumption ==
  /\ RunIds \subseteq Nat
  /\ KeepAll \notin Nat
  /\ Keep \in (Nat \ {0}) \cup {KeepAll}

Limited == Keep # KeepAll

Later(S, i) == {j \in S : j > i}

\* The runs of S that the limit keeps: those with fewer than Keep later ones.
Newest(S) == IF Limited THEN {i \in S : Cardinality(Later(S, i)) < Keep} ELSE S

================================================================================
