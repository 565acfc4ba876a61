---------------------------------- MODULE MCTicks ----------------------------------
(* Values of Ticks' constants for TLC. *)
EXTENDS Ticks

\* The program passes its own names to the verbs.
OwnKeys == {Plain(n) : n \in Names}

Numbers == {1}
Anything == {1, Text}

================================================================================
