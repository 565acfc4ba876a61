--------------------------------- MODULE Schema ---------------------------------
(* What opening a store promises of its schema: the versions come one whole  *)
(* migration at a time and never go, and nobody holds a store open that is    *)
(* not at the last one.                                                       *)
EXTENDS Naturals

CONSTANTS Processes, Last

VARIABLES version, users

Init == version \in 0..Last /\ users = {}

Advance == version < Last /\ version' = version + 1 /\ UNCHANGED users
\* The last migration done, whoever did it is in.
Complete(p) == version + 1 = Last /\ version' = Last /\ users' = users \cup {p}
Enter(p) == version = Last /\ users' = users \cup {p} /\ UNCHANGED version
Leave(p) == users' = users \ {p} /\ UNCHANGED version

Next == Advance \/ \E p \in Processes : Complete(p) \/ Enter(p) \/ Leave(p)

Spec == Init /\ [][Next]_<<version, users>>

================================================================================
