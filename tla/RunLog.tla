--------------------------------- MODULE RunLog ---------------------------------
(***************************************************************************)
(* Recording runs: SeaormStore::insert_run, called by every tick_loop and  *)
(* tick_now of every process on the store.  A run's id is minted when its  *)
(* tick starts and inserted when it ends; then, statement by statement,    *)
(* the store looks up the oldest run to keep and deletes what is older.    *)
(***************************************************************************)
EXTENDS Retention

CONSTANTS
  Vigies,     \* vigy ids
  Writers,    \* tasks that tick vigies
  Faults      \* which of "error", "abort" may happen

ASSUME WritersAssumption ==
  /\ Vigies # {}
  /\ RunIds # {}
  /\ Faults \subseteq {"error", "abort"}

VARIABLES
  rows,        \* rows[v]: the ids of v's rows in vigy_runs
  recorded,    \* history: recorded[v], every id inserted for v
  cut,         \* history: cut[v], a task stopped between its INSERT and its DELETE
               \* for v, and nobody has looked up v's floor since
  writer       \* writer[w]: what w is doing

vars == <<rows, recorded, cut, writer>>

AnyVigy == CHOOSE v \in Vigies : TRUE
AnyId   == CHOOSE i \in RunIds : TRUE
Rest    == [pc |-> "idle", vigy |-> AnyVigy, id |-> AnyId, floor |-> AnyId]

Writer == [pc : {"idle", "tick", "floor", "trim"},
           vigy : Vigies, id : RunIds, floor : RunIds]

\* Every component of the state has its type, and a row was inserted once.
TypeOK ==
  /\ rows \in [Vigies -> SUBSET RunIds]
  /\ recorded \in [Vigies -> SUBSET RunIds]
  /\ \A v \in Vigies : rows[v] \subseteq recorded[v] /\ IsFiniteSet(recorded[v])
  /\ cut \in [Vigies -> BOOLEAN]
  /\ writer \in [Writers -> Writer]

At(w, pc) == writer[w].pc = pc
Done(w) == writer' = [writer EXCEPT ![w] = Rest]

\* No task is between minting a run of v and the end of its insert_run.
Quiet(v) == \A w \in Writers : At(w, "idle") \/ writer[w].vigy # v

(***************************************************************************)
(* Actions                                                                 *)
(***************************************************************************)
Used(id) ==
  \/ \E v \in Vigies : id \in recorded[v]
  \/ \E w \in Writers : At(w, "tick") /\ writer[w].id = id

\* VigyRun::started.  A uuidv7 is a clock's milliseconds, then a counter of its
\* process; clocks differ and are set back: the id is new, not the latest.
Begin(w) ==
  /\ At(w, "idle")
  /\ \E v \in Vigies, id \in RunIds :
       /\ ~Used(id)
       /\ writer' = [writer EXCEPT ![w] = [Rest EXCEPT !.pc = "tick", !.vigy = v, !.id = id]]
  /\ UNCHANGED <<rows, recorded, cut>>

\* insert_run's INSERT, once the tick is over.
M_Insert(w) ==
  LET v == writer[w].vigy IN
  /\ At(w, "tick")
  /\ rows' = [u \in Vigies |-> rows[u] \cup {writer[w].id}]
  /\ recorded' = [recorded EXCEPT ![v] = @ \cup {writer[w].id}]
  /\ IF Limited THEN writer' = [writer EXCEPT ![w].pc = "floor"] ELSE Done(w)
  /\ UNCHANGED cut

Insert(w) ==
  LET v == writer[w].vigy IN
  /\ At(w, "tick")
  /\ rows' = [rows EXCEPT ![v] = @ \cup {writer[w].id}]
  /\ recorded' = [recorded EXCEPT ![v] = @ \cup {writer[w].id}]
  /\ IF Limited THEN writer' = [writer EXCEPT ![w].pc = "floor"] ELSE Done(w)
  /\ UNCHANGED cut

\* The SELECT of the Keep-th run from the top: OFFSET keep - 1, LIMIT 1.
M_FindFloor(w) ==
  LET S == rows[writer[w].vigy] IN
  /\ At(w, "floor")
  /\ \/ \E f \in S : /\ Cardinality(Later(S, f)) = Keep
                     /\ writer' = [writer EXCEPT ![w].pc = "trim", ![w].floor = f]
     \/ /\ \A f \in S : Cardinality(Later(S, f)) # Keep
        /\ Done(w)
  /\ cut' = [cut EXCEPT ![writer[w].vigy] = FALSE]
  /\ UNCHANGED <<rows, recorded>>

FindFloor(w) ==
  LET S == rows[writer[w].vigy] IN
  /\ At(w, "floor")
  /\ \/ \E f \in S : /\ Cardinality(Later(S, f)) = Keep - 1
                     /\ writer' = [writer EXCEPT ![w].pc = "trim", ![w].floor = f]
     \/ /\ \A f \in S : Cardinality(Later(S, f)) # Keep - 1
        /\ Done(w)
  /\ cut' = [cut EXCEPT ![writer[w].vigy] = FALSE]
  /\ UNCHANGED <<rows, recorded>>

\* The DELETE of v's rows below the floor.
M_Trim(w) ==
  /\ At(w, "trim")
  /\ rows' = [v \in Vigies |-> {i \in rows[v] : i >= writer[w].floor}]
  /\ Done(w)
  /\ UNCHANGED <<recorded, cut>>

M_TrimFloor(w) ==
  /\ At(w, "trim")
  /\ rows' = [rows EXCEPT ![writer[w].vigy] = Later(@, writer[w].floor)]
  /\ Done(w)
  /\ UNCHANGED <<recorded, cut>>

Trim(w) ==
  /\ At(w, "trim")
  /\ rows' = [rows EXCEPT ![writer[w].vigy] = {i \in @ : i >= writer[w].floor}]
  /\ Done(w)
  /\ UNCHANGED <<recorded, cut>>

\* A statement fails and `?` leaves insert_run; or the task is aborted, its
\* tick still under way or between two statements, or its process ends.
Stop(w) ==
  /\ \/ "error" \in Faults /\ writer[w].pc \in {"tick", "floor", "trim"}
     \/ "abort" \in Faults /\ ~At(w, "idle")
  /\ cut' = [cut EXCEPT ![writer[w].vigy] = @ \/ writer[w].pc \in {"floor", "trim"}]
  /\ Done(w)
  /\ UNCHANGED <<rows, recorded>>

(***************************************************************************)
(* Specification                                                           *)
(***************************************************************************)
Init ==
  /\ rows = [v \in Vigies |-> {}]
  /\ recorded = [v \in Vigies |-> {}]
  /\ cut = [v \in Vigies |-> FALSE]
  /\ writer = [w \in Writers |-> Rest]

Step(w) == Begin(w) \/ Insert(w) \/ FindFloor(w) \/ Trim(w) \/ Stop(w)

Next == \E w \in Writers : Step(w)

Spec == Init /\ [][Next]_vars

(***************************************************************************)
(* Properties                                                              *)
(***************************************************************************)
\* The newest runs ever recorded of a vigy are in the store, however many
\* tasks insert and trim at once, in whatever order their ids come, and
\* wherever one of them stops ("keeps_only_the_newest_runs_per_vigy").
NewestKept == \A v \in Vigies : Newest(recorded[v]) \subseteq rows[v]

\* And when nobody is recording a run of the vigy, no other runs are.  A task
\* that stopped between its INSERT and its DELETE may leave some behind, until
\* the next that is not cut short: its DELETE makes up for the missing one.
OthersGone ==
  \A v \in Vigies : Quiet(v) /\ ~cut[v] => rows[v] = Newest(recorded[v])

\* What the limit keeps of the rows, a history that records run after run.
History == INSTANCE RunHistory WITH log <- [v \in Vigies |-> Newest(rows[v])]

\* Whatever is interleaved or cut short, the store's newest runs change as those
\* of the atomic insert_run do: a trim is never seen in them.
TrimsUnseen == History!Spec

================================================================================
