------------------------------- MODULE Migrations -------------------------------
(***************************************************************************)
(* SeaormStore::open, by several processes on one file.  Migrator::up      *)
(* reads once which migrations are recorded, then applies the others in    *)
(* order, each statement by statement, and records each when its           *)
(* statements are through.  On SQLite nothing of this is in a transaction: *)
(* a statement that went through stays.                                    *)
(***************************************************************************)
EXTENDS Naturals, Sequences, FiniteSetsExt

CONSTANTS
  Processes,
  Faults      \* {"cut"} if a process may end, or a statement fail, on its way

ASSUME FaultsAssumption == Faults \subseteq {"cut"}

(***************************************************************************)
(* The migrations                                                          *)
(***************************************************************************)
Table(name) == [makes |-> name, ifNotExists |-> TRUE, on |-> name]
Index(name, table) == [makes |-> name, ifNotExists |-> FALSE, on |-> table]
Column(name, table) == [makes |-> name, ifNotExists |-> FALSE, on |-> table]

\* M_: an operation gone wrong, as the mutants have it.
M_InitUp ==
  << Table("vigies"),
     Table("vigy_runs"),   Index("idx_vigy_runs_vigy_id", "vigy_runs"),
     Table("vigy_events"), Index("idx_vigy_runs_vigy_id", "vigy_events") >>

\* The three up functions, and their order.
InitUp ==
  << Table("vigies"),
     Table("vigy_runs"),   Index("idx_vigy_runs_vigy_id", "vigy_runs"),
     Table("vigy_events"), Index("idx_vigy_events_vigy_id", "vigy_events") >>
KvUp == << Table("vigy_kv"), Index("idx_vigy_kv_vigy_id", "vigy_kv") >>
LanguageUp == << Column("language", "vigies") >>

Migrator == <<InitUp, KvUp, LanguageUp>>

Last == Len(Migrator)
Versions == 1..Last

Steps(m) == 1..Len(Migrator[m])
MadeBy(m, k) == {Migrator[m][i].makes : i \in 1..k}
Made(m) == MadeBy(m, Len(Migrator[m]))
Objects == UNION {Made(m) : m \in Versions}

\* What the entities of the store name: tables, and the column that
\* a later release added.
Needed == {"vigies", "vigy_runs", "vigy_events", "vigy_kv", "language"}

VARIABLES
  schema,     \* the objects the file has
  recorded,   \* the rows of seaql_migrations
  proc,       \* proc[p]: where p's open is
  halfway     \* history: an open stopped with a migration not recorded that
              \* had already done what it cannot do twice

vars == <<schema, recorded, proc, halfway>>

Closed == [pc |-> "closed", todo |-> {}, step |-> 1]

At(p, pc) == proc[p].pc = pc
Current(p) == Min(proc[p].todo)
Opening(p) == proc[p].pc \in {"read", "up", "record"}
Goto(p, pc, todo, step) ==
  proc' = [proc EXCEPT ![p] = [pc |-> pc, todo |-> todo, step |-> step]]

\* The migrations left of todo, or the end of up.
Go(p, todo) == Goto(p, IF todo = {} THEN "open" ELSE "up", todo, 1)

TypeOK ==
  /\ schema \subseteq Objects
  /\ recorded \subseteq Versions
  /\ proc \in [Processes -> [pc : {"closed", "read", "up", "record", "open"},
                             todo : SUBSET Versions, step : Nat]]
  /\ \A p \in Processes :
       /\ proc[p].pc \in {"up", "record"} => proc[p].todo # {}
       /\ At(p, "up") => proc[p].step \in Steps(Current(p))
  /\ halfway \in BOOLEAN

(***************************************************************************)
(* Actions                                                                 *)
(***************************************************************************)
Open(p) ==
  /\ At(p, "closed")
  /\ Goto(p, "read", {}, 1)
  /\ UNCHANGED <<schema, recorded, halfway>>

M_Pending(p) ==
  /\ At(p, "read")
  /\ Go(p, IF recorded = {} THEN Versions ELSE {})
  /\ UNCHANGED <<schema, recorded, halfway>>

M_PendingAll(p) ==
  /\ At(p, "read")
  /\ Go(p, Versions)
  /\ UNCHANGED <<schema, recorded, halfway>>

\* up: the pending migrations, computed once.
Pending(p) ==
  /\ At(p, "read")
  /\ Go(p, Versions \ recorded)
  /\ UNCHANGED <<schema, recorded, halfway>>

Statement(p) == Migrator[Current(p)][proc[p].step]

\* SQLite takes a statement unless it makes what is there, or lacks its table.
Passes(s) == /\ s.ifNotExists \/ s.makes \notin schema
             /\ s.on = s.makes \/ s.on \in schema

M_Apply(p) ==
  /\ At(p, "up") /\ Passes(Statement(p))
  /\ schema' = schema \cup {Statement(p).makes}
  /\ Goto(p, "up", proc[p].todo, proc[p].step + 1)
  /\ UNCHANGED <<recorded, halfway>>

\* One statement of a migration's up, and after its last the record.
Apply(p) ==
  LET m == Current(p) IN
  /\ At(p, "up") /\ Passes(Statement(p))
  /\ schema' = schema \cup {Statement(p).makes}
  /\ IF proc[p].step = Len(Migrator[m])
     THEN Goto(p, "record", proc[p].todo, 1)
     ELSE Goto(p, "up", proc[p].todo, proc[p].step + 1)
  /\ UNCHANGED <<recorded, halfway>>

M_Record(p) ==
  /\ At(p, "record")
  /\ recorded' = recorded \cup proc[p].todo
  /\ Go(p, proc[p].todo \ {Current(p)})
  /\ UNCHANGED <<schema, halfway>>

\* INSERT INTO seaql_migrations, whose key is the migration.
Record(p) ==
  LET m == Current(p) IN
  /\ At(p, "record") /\ m \notin recorded
  /\ recorded' = recorded \cup {m}
  /\ Go(p, proc[p].todo \ {m})
  /\ UNCHANGED <<schema, halfway>>

\* p has done what its current migration cannot do twice.
Committed(p) ==
  \/ At(p, "record")
  \/ At(p, "up") /\ \E i \in 1..(proc[p].step - 1) : ~Migrator[Current(p)][i].ifNotExists

Leaves(p) ==
  /\ proc' = [proc EXCEPT ![p] = Closed]
  /\ halfway' = (halfway \/ Committed(p))
  /\ UNCHANGED <<schema, recorded>>

\* A statement that does not pass: open returns its error.
Refused(p) ==
  /\ \/ At(p, "up") /\ ~Passes(Statement(p))
     \/ At(p, "record") /\ Current(p) \in recorded
  /\ Leaves(p)

\* The process ends, or a statement fails that could have passed.
Cut(p) == "cut" \in Faults /\ Opening(p) /\ Leaves(p)

\* The process ends with its store open.
Close(p) == At(p, "open") /\ Leaves(p)

(***************************************************************************)
(* Specification                                                           *)
(***************************************************************************)
\* A new file, or one that an older release left at its last migration.
Init ==
  /\ recorded \in {1..n : n \in 0..Last}
  /\ schema = UNION {Made(m) : m \in recorded}
  /\ proc = [p \in Processes |-> Closed]
  /\ halfway = FALSE

Step(p) == Pending(p) \/ Apply(p) \/ Record(p) \/ Refused(p)

Next == \E p \in Processes : Step(p) \/ Open(p) \/ Cut(p) \/ Close(p)

Spec == Init /\ [][Next]_vars

\* SQLite answers and tokio polls.  Nobody has to open, or to close.
FairSpec == Spec /\ \A p \in Processes : WF_vars(Step(p))

(***************************************************************************)
(* Properties                                                              *)
(***************************************************************************)
\* Whoever else opens, fails or dies: a process whose open returned Ok has every
\* table and column the store's entities name.
OpenIsReady == \A p \in Processes : At(p, "open") => Needed \subseteq schema

\* What a migration in the hands of p has still to do can be done.
CanGoOn(p) ==
  \/ At(p, "record") /\ Current(p) \notin recorded
  \/ At(p, "up") /\ \A i \in proc[p].step..Len(Migrator[Current(p)]) :
       LET s == Migrator[Current(p)][i] IN s.ifNotExists \/ s.makes \notin schema

\* Unless an open was stopped half way: of the processes that race through one
\* migration, the first to make what cannot be made twice can go on to its end.
\* So the losers' error is the only harm, and it passes.
OneWinner ==
  ~halfway =>
    \A m \in Versions \ recorded :
      \A s \in {Migrator[m][j] : j \in Steps(m)} :
        ~s.ifNotExists /\ s.makes \in schema =>
          \E p \in Processes : Committed(p) /\ Current(p) = m /\ CanGoOn(p)

\* Unless an open was stopped half way, and once opens end by themselves only: a
\* process that tries again and again to open the store has it open in the end,
\* however the others race it.
EveryoneGetsIn ==
  []~halfway /\ <>[][\A q \in Processes : Cut(q) => Refused(q)]_vars =>
    \A p \in Processes : []<>Opening(p) => []<>At(p, "open")

\* The schema goes up one whole migration at a time, in order, and nobody
\* holds the store open before the last.
Version == CHOOSE n \in 0..Last : recorded = 1..n
Upgrade == INSTANCE Schema WITH version <- Version, users <- {p \in Processes : At(p, "open")}
UpgradesInOrder == Upgrade!Spec

================================================================================
