------------------------------- MODULE RunHistory -------------------------------
(***************************************************************************)
(* What recording a run promises: in one step the run joins its vigy's     *)
(* history and whatever is beyond the retention limit leaves it.  This is  *)
(* InMemoryStore::insert_run, which holds its write lock throughout.       *)
(***************************************************************************)
CONSTANTS
  Vigies,       \* vigy ids
  RunIds,       \* the run ids there are
  Newest(_)     \* what retention keeps of a set of runs

VARIABLE log    \* log[v]: the runs kept of v

Init == log = [v \in Vigies |-> {}]

Record(v, id) == log' = [log EXCEPT ![v] = Newest(@ \cup {id})]

Next == \E v \in Vigies, id \in RunIds : Record(v, id)

Spec == Init /\ [][Next]_log

================================================================================
