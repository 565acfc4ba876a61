---------------------------- MODULE MigrationsProofs ----------------------------
(***************************************************************************)
(* What holds of opening a store for every number of processes: its types, *)
(* that an open store has its whole schema, that the schema goes up in     *)
(* order, and that of the processes that race through a migration one      *)
(* goes on.                                                                *)
(***************************************************************************)
EXTENDS Migrations, TLAPS

(***************************************************************************)
(* What the proofs need of the three migrations                            *)
(***************************************************************************)
\* A statement that cannot be made twice.
Fragile(m, i) == ~Migrator[m][i].ifNotExists
Makes(m, i) == Migrator[m][i].makes

LEMMA Lengths ==
  /\ Last = 3 /\ Versions = {1, 2, 3}
  /\ Len(Migrator[1]) = 5 /\ Len(Migrator[2]) = 2 /\ Len(Migrator[3]) = 1
BY DEF Last, Versions, Migrator, InitUp, KvUp, LanguageUp

LEMMA Statements ==
  /\ Makes(1, 1) = "vigies" /\ ~Fragile(1, 1)
  /\ Makes(1, 2) = "vigy_runs" /\ ~Fragile(1, 2)
  /\ Makes(1, 3) = "idx_vigy_runs_vigy_id" /\ Fragile(1, 3)
  /\ Makes(1, 4) = "vigy_events" /\ ~Fragile(1, 4)
  /\ Makes(1, 5) = "idx_vigy_events_vigy_id" /\ Fragile(1, 5)
  /\ Makes(2, 1) = "vigy_kv" /\ ~Fragile(2, 1)
  /\ Makes(2, 2) = "idx_vigy_kv_vigy_id" /\ Fragile(2, 2)
  /\ Makes(3, 1) = "language" /\ Fragile(3, 1)
BY DEF Makes, Fragile, Migrator, InitUp, KvUp, LanguageUp, Table, Index, Column

LEMMA StepsAre ==
  /\ Steps(1) = {1, 2, 3, 4, 5} /\ Steps(2) = {1, 2} /\ Steps(3) = {1}
<1>1. 1..5 = {1, 2, 3, 4, 5} /\ 1..2 = {1, 2} /\ 1..1 = {1}
  OBVIOUS
<1> QED
  BY <1>1, Lengths DEF Steps

LEMMA LengthsTyped == \A m \in Versions : Len(Migrator[m]) \in Nat \ {0}
<1> SUFFICES ASSUME NEW m \in Versions PROVE Len(Migrator[m]) \in Nat \ {0}
  OBVIOUS
<1>1. CASE m = 1
  BY <1>1, Lengths
<1>2. CASE m = 2
  BY <1>2, Lengths
<1>3. CASE m = 3
  BY <1>3, Lengths
<1> QED
  BY <1>1, <1>2, <1>3, Lengths

\* What cannot be made twice is made by one statement only.
LEMMA MadeOnce ==
  \A m, n \in Versions : \A i \in Steps(m), j \in Steps(n) :
    Fragile(m, i) /\ Makes(m, i) = Makes(n, j) => m = n /\ i = j
<1> SUFFICES ASSUME NEW m \in Versions, NEW n \in Versions,
                    NEW i \in Steps(m), NEW j \in Steps(n),
                    Fragile(m, i), Makes(m, i) = Makes(n, j)
             PROVE  m = n /\ i = j
  OBVIOUS
<1>1. CASE m = 1
  BY <1>1, Lengths, Statements, StepsAre
<1>2. CASE m = 2
  BY <1>2, Lengths, Statements, StepsAre
<1>3. CASE m = 3
  BY <1>3, Lengths, Statements, StepsAre
<1> QED
  BY <1>1, <1>2, <1>3, Lengths

LEMMA SomeFragile == \A m \in Versions : \E i \in Steps(m) : Fragile(m, i)
BY Lengths, Statements, StepsAre

LEMMA NeededMade == Needed \subseteq UNION {Made(m) : m \in Versions}
<1>1. \A m \in Versions : \A i \in Steps(m) : Makes(m, i) \in Made(m)
  BY DEF Makes, Made, MadeBy, Steps
<1>2. 1 \in Versions /\ 2 \in Versions /\ 3 \in Versions
  BY Lengths
<1>3. "vigies" \in Made(1) /\ "vigy_runs" \in Made(1) /\ "vigy_events" \in Made(1)
  BY <1>1, <1>2, Statements, StepsAre
<1>4. "vigy_kv" \in Made(2) /\ "language" \in Made(3)
  BY <1>1, <1>2, Statements, StepsAre
<1> QED
  BY <1>2, <1>3, <1>4 DEF Needed

LEMMA MinOfVersions ==
  ASSUME NEW S \in SUBSET Versions, S # {}
  PROVE  Min(S) \in S /\ \A v \in S : Min(S) <= v
<1> USE Lengths
<1>1. \E u \in S : \A v \in S : u <= v
  <2>1. CASE 1 \in S
    BY <2>1
  <2>2. CASE 1 \notin S /\ 2 \in S
    BY <2>2
  <2>3. CASE 1 \notin S /\ 2 \notin S
    <3>1. 3 \in S /\ \A v \in S : v = 3
      BY <2>3
    <3> QED
      BY <3>1
  <2> QED
    BY <2>1, <2>2, <2>3
<1> QED
  BY <1>1 DEF Min

LEMMA MinOfInterval ==
  ASSUME NEW n \in Versions
  PROVE  n..Last \in SUBSET Versions /\ n..Last # {} /\ Min(n..Last) = n
<1>1. n..Last \in SUBSET Versions /\ n \in n..Last
  BY Lengths
<1>2. Min(n..Last) \in n..Last /\ \A v \in n..Last : Min(n..Last) <= v
  BY <1>1, MinOfVersions
<1> QED
  BY <1>1, <1>2, Lengths

\* recorded is one of 1..n, and Version finds which.
LEMMA VersionIs ==
  ASSUME NEW n \in 0..Last, recorded = 1..n
  PROVE  Version = n
<1>1. \A k \in 0..Last : recorded = 1..k => k = n
  BY Lengths
<1> QED
  BY <1>1 DEF Version

(***************************************************************************)
(* The invariant of races and cuts                                         *)
(***************************************************************************)
InHand(p) == At(p, "up") \/ At(p, "record")

\* p has done statement j of its current migration.
Past(p, j) ==
  \/ At(p, "record")
  \/ At(p, "up") /\ j < proc[p].step

InOrder == \E n \in 0..Last : recorded = 1..n
RecordedMade == \A m \in recorded : Made(m) \subseteq schema

\* A process has the rest of the migrations to do, and knows that those before
\* are recorded.
RestToDo ==
  \A p \in Processes : InHand(p) =>
    /\ proc[p].todo = Current(p)..Last
    /\ 1..(Current(p) - 1) \subseteq recorded

DoneIsMade ==
  \A p \in Processes : InHand(p) =>
    \A j \in Steps(Current(p)) : Past(p, j) => Makes(Current(p), j) \in schema

OpenIsLast == \A p \in Processes : At(p, "open") => recorded = Versions

\* Nothing halfway: what cannot be made twice is there because a process made
\* it that goes on, one for each migration.
MadeByWinner ==
  \A m \in Versions \ recorded : \A j \in Steps(m) :
    Fragile(m, j) /\ Makes(m, j) \in schema =>
      \E p \in Processes : Committed(p) /\ Current(p) = m /\ Past(p, j)
WinnerAlone ==
  \A p, q \in Processes : Committed(p) /\ Committed(q) /\ Current(p) = Current(q) => p = q
WinnerFirst == \A p \in Processes : Committed(p) => Current(p) \notin recorded

SchemaInv ==
  TypeOK /\ InOrder /\ RecordedMade /\ RestToDo /\ DoneIsMade /\ OpenIsLast
Winners == MadeByWinner /\ WinnerAlone /\ WinnerFirst

LEMMA CurrentTyped ==
  ASSUME TypeOK, NEW p \in Processes, InHand(p)
  PROVE  Current(p) \in Versions /\ Current(p) \in proc[p].todo
BY MinOfVersions DEF TypeOK, InHand, At, Current

LEMMA CommittedIs ==
  ASSUME NEW p \in Processes
  PROVE  Committed(p) <=>
           \/ At(p, "record")
           \/ At(p, "up") /\ \E i \in 1..(proc[p].step - 1) : Fragile(Current(p), i)
BY DEF Committed, Fragile

LEMMA SchemaInit == Init => SchemaInv /\ Winners
<1> SUFFICES ASSUME Init PROVE SchemaInv /\ Winners
  OBVIOUS
<1>1. PICK n \in 0..Last : recorded = 1..n
  BY DEF Init
<1>2. recorded \subseteq Versions
  BY <1>1, Lengths
<1>3. \A p \in Processes : proc[p] = Closed /\ Closed.pc = "closed"
  BY DEF Init, Closed
<1>4. \A p \in Processes : ~InHand(p) /\ ~Committed(p) /\ ~At(p, "open")
  BY <1>3 DEF InHand, Committed, At
<1>5. proc \in [Processes -> [pc : {"closed", "read", "up", "record", "open"},
                              todo : SUBSET Versions, step : Nat]]
  BY DEF Init, Closed
<1>6. TypeOK
  BY <1>2, <1>3, <1>5 DEF TypeOK, Init, Objects, At
<1>7. InOrder /\ RecordedMade
  BY <1>1 DEF Init, InOrder, RecordedMade
<1>8. RestToDo /\ DoneIsMade /\ OpenIsLast /\ WinnerAlone /\ WinnerFirst
  BY <1>4 DEF RestToDo, DoneIsMade, OpenIsLast, WinnerAlone, WinnerFirst
<1>9. MadeByWinner
  <2> SUFFICES ASSUME NEW m \in Versions \ recorded, NEW j \in Steps(m),
                      Fragile(m, j), Makes(m, j) \in schema
               PROVE  FALSE
    BY DEF MadeByWinner
  <2>1. PICK k \in recorded : Makes(m, j) \in Made(k)
    BY DEF Init
  <2>2. PICK i \in Steps(k) : Makes(m, j) = Makes(k, i)
    BY <2>1 DEF Made, MadeBy, Steps, Makes
  <2> QED
    BY <1>2, <2>2, MadeOnce
<1> QED
  BY <1>6, <1>7, <1>8, <1>9 DEF SchemaInv, Winners

(***************************************************************************)
(* The schema                                                              *)
(***************************************************************************)
\* Where Goto leaves the processes.
LEMMA GotoShape ==
  ASSUME TypeOK, NEW p \in Processes, NEW pc, NEW todo, NEW step, Goto(p, pc, todo, step)
  PROVE  /\ proc'[p] = [pc |-> pc, todo |-> todo, step |-> step]
         /\ \A q \in Processes \ {p} : proc'[q] = proc[q]
         /\ proc'[p].pc = pc /\ proc'[p].todo = todo /\ proc'[p].step = step
BY DEF TypeOK, Goto

\* What the invariants say of the processes but p stays while schema and
\* recorded only grow.
OthersStay(p) ==
  /\ \A q \in Processes \ {p} : proc'[q] = proc[q]
  /\ schema \subseteq schema' /\ recorded \subseteq recorded'
  /\ schema' \subseteq Objects /\ recorded' \subseteq Versions
  /\ halfway' \in BOOLEAN

Typed(p) ==
  /\ proc[p] \in [pc : {"closed", "read", "up", "record", "open"},
                  todo : SUBSET Versions, step : Nat]
  /\ proc[p].pc \in {"up", "record"} => proc[p].todo # {}
  /\ At(p, "up") => proc[p].step \in Steps(Current(p))

\* What they say of p.
Sound(p) ==
  /\ InHand(p) =>
       /\ proc[p].todo = Current(p)..Last
       /\ 1..(Current(p) - 1) \subseteq recorded
       /\ \A j \in Steps(Current(p)) : Past(p, j) => Makes(Current(p), j) \in schema
  /\ At(p, "open") => recorded = Versions

LEMMA SoundStep ==
  ASSUME SchemaInv, NEW p \in Processes, OthersStay(p),
         DOMAIN proc' = Processes, proc' = [q \in Processes |-> proc'[q]],
         Typed(p)', Sound(p)', InOrder', RecordedMade'
  PROVE  SchemaInv'
<1>1. \A q \in Processes \ {p} : /\ At(q, "up")' = At(q, "up") /\ At(q, "record")' = At(q, "record")
                                /\ At(q, "open")' = At(q, "open")
                                /\ Current(q)' = Current(q)
  BY DEF OthersStay, At, Current
<1>2. \A q \in Processes : Typed(q)'
  <2> SUFFICES ASSUME NEW q \in Processes \ {p} PROVE Typed(q)'
    OBVIOUS
  <2>1. Typed(q)
    BY DEF SchemaInv, TypeOK, Typed
  <2> QED
    BY <1>1, <2>1 DEF OthersStay, Typed
<1>3. TypeOK'
  BY <1>2 DEF OthersStay, Typed, TypeOK
<1>4. \A q \in Processes : Sound(q)'
  <2> SUFFICES ASSUME NEW q \in Processes \ {p} PROVE Sound(q)'
    OBVIOUS
  <2>1. Sound(q)
    BY DEF SchemaInv, RestToDo, DoneIsMade, OpenIsLast, Sound
  <2>2. \A j : Past(q, j)' = Past(q, j)
    BY <1>1 DEF OthersStay, Past
  <2>3. InHand(q)' = InHand(q) /\ proc'[q] = proc[q]
    BY <1>1 DEF InHand, OthersStay
  <2>4. recorded = Versions => recorded' = Versions
    BY DEF OthersStay
  <2> QED
    BY <1>1, <2>1, <2>2, <2>3, <2>4 DEF OthersStay, Sound
<1>5. RestToDo' /\ DoneIsMade' /\ OpenIsLast'
  BY <1>4 DEF RestToDo, DoneIsMade, OpenIsLast, Sound
<1> QED
  BY <1>3, <1>5 DEF SchemaInv

\* What is left after recording everything before the n-th.
LEMMA GoSound ==
  ASSUME TypeOK, NEW p \in Processes, NEW n \in 1..(Last + 1),
         Go(p, n..Last), recorded' = 1..(n - 1)
  PROVE  /\ Typed(p)' /\ Sound(p)' /\ ~Committed(p)'
         /\ IF n <= Last THEN At(p, "up")' ELSE At(p, "open")' /\ recorded' = Versions
         /\ \A q \in Processes \ {p} : proc'[q] = proc[q]
         /\ proc' = [q \in Processes |-> proc'[q]]
<1>1. DOMAIN proc' = Processes /\ proc' = [q \in Processes |-> proc'[q]]
  BY DEF TypeOK, Go, Goto
<1>2. CASE n <= Last
  <2>0. Last = 3 /\ n \in {1, 2, 3}
    BY <1>2, Lengths
  <2>1. n \in Versions /\ n..Last # {}
    BY <2>0, Lengths, MinOfInterval
  <2>2. n..Last \in SUBSET Versions /\ Min(n..Last) = n
    BY <2>1, MinOfInterval
  <2>3. Goto(p, "up", n..Last, 1)
    BY <2>1 DEF Go
  <2>4. /\ proc'[p] = [pc |-> "up", todo |-> n..Last, step |-> 1]
        /\ \A q \in Processes \ {p} : proc'[q] = proc[q]
    BY <2>3, GotoShape
  <2>5. Current(p)' = n
    BY <2>2, <2>4 DEF Current
  <2>6. 1 \in Steps(n)
    BY <2>1, LengthsTyped DEF Steps
  <2>7. Typed(p)'
    BY <2>1, <2>2, <2>4, <2>5, <2>6 DEF Typed, At
  <2>8. Sound(p)'
    <3>1. \A j \in Steps(n) : ~(j < 1)
      BY <2>1, LengthsTyped DEF Steps
    <3> QED
      BY <2>4, <2>5, <3>1 DEF Sound, InHand, Past, At
  <2>9. ~Committed(p)'
    BY <2>4 DEF Committed, At
  <2> QED
    BY <1>1, <1>2, <2>4, <2>7, <2>8, <2>9 DEF At
<1>3. CASE ~(n <= Last)
  <2>1. n = Last + 1 /\ n..Last = {}
    BY <1>3, Lengths
  <2>2. Goto(p, "open", {}, 1)
    BY <2>1 DEF Go
  <2>3. /\ proc'[p] = [pc |-> "open", todo |-> {}, step |-> 1]
        /\ \A q \in Processes \ {p} : proc'[q] = proc[q]
    BY <2>2 DEF Goto, TypeOK
  <2>4. recorded' = Versions
    BY <2>1, Lengths DEF Versions
  <2> QED
    BY <1>1, <1>3, <2>3, <2>4 DEF Typed, Sound, Committed, InHand, At
<1> QED
  BY <1>2, <1>3

\* A process that leaves, or starts to open.
LEMMA AwaySound ==
  ASSUME SchemaInv, NEW p \in Processes, NEW pc \in {"closed", "read"},
         proc' = [proc EXCEPT ![p] = [pc |-> pc, todo |-> {}, step |-> 1]],
         UNCHANGED <<schema, recorded>>, halfway' \in BOOLEAN
  PROVE  SchemaInv'
<1>1. /\ proc'[p] = [pc |-> pc, todo |-> {}, step |-> 1]
      /\ \A q \in Processes \ {p} : proc'[q] = proc[q]
      /\ DOMAIN proc' = Processes /\ proc' = [q \in Processes |-> proc'[q]]
  BY DEF SchemaInv, TypeOK
<1>2. OthersStay(p)
  BY <1>1 DEF SchemaInv, TypeOK, OthersStay
<1>3. Typed(p)' /\ Sound(p)'
  BY <1>1 DEF Typed, Sound, InHand, At
<1>4. InOrder' /\ RecordedMade'
  BY DEF SchemaInv, InOrder, RecordedMade
<1> QED
  BY <1>1, <1>2, <1>3, <1>4, SoundStep

LEMMA PendingStep ==
  ASSUME SchemaInv, NEW p \in Processes, Pending(p)
  PROVE  SchemaInv' /\ ~Committed(p)'
         /\ (At(p, "open")' => recorded = Versions)
<1>1. PICK n \in 0..Last : recorded = 1..n
  BY DEF SchemaInv, InOrder
<1>2. Versions \ recorded = (n + 1)..Last /\ n + 1 \in 1..(Last + 1)
  BY <1>1 DEF Versions, Last, Migrator
<1>3. Go(p, (n + 1)..Last) /\ UNCHANGED <<schema, recorded, halfway>>
  BY <1>2 DEF Pending
<1>4. recorded' = 1..((n + 1) - 1)
  BY <1>1, <1>2, <1>3, Lengths
<1>5. TypeOK
  BY DEF SchemaInv
<1>6. /\ Typed(p)' /\ Sound(p)' /\ ~Committed(p)'
      /\ \A q \in Processes \ {p} : proc'[q] = proc[q]
      /\ proc' = [q \in Processes |-> proc'[q]]
  BY <1>2, <1>3, <1>4, <1>5, GoSound
<1>7. OthersStay(p)
  BY <1>3, <1>5, <1>6 DEF TypeOK, OthersStay
<1>8. InOrder' /\ RecordedMade'
  BY <1>3 DEF SchemaInv, InOrder, RecordedMade
<1>9. DOMAIN proc' = Processes
  BY <1>6
<1>10. At(p, "open")' => recorded = Versions
  BY <1>3, <1>6 DEF Sound
<1> QED
  BY <1>6, <1>7, <1>8, <1>9, <1>10, SoundStep

\* The process that applies statement k of migration m.
LEMMA ApplyShape ==
  ASSUME SchemaInv, NEW p \in Processes, Apply(p)
  PROVE  LET m == Current(p)
             k == proc[p].step
         IN  /\ At(p, "up") /\ m \in Versions /\ k \in Steps(m)
             /\ (Fragile(m, k) => Makes(m, k) \notin schema)
             /\ schema' = schema \cup {Makes(m, k)}
             /\ UNCHANGED <<recorded, halfway>>
             /\ Current(p)' = m /\ proc'[p].todo = proc[p].todo
             /\ proc'[p] \in [pc : {"up", "record"}, todo : SUBSET Versions, step : Nat]
             /\ IF k = Len(Migrator[m])
                THEN At(p, "record")' /\ proc'[p].step = 1 /\ proc'[p].pc = "record"
                ELSE At(p, "up")' /\ proc'[p].step = k + 1 /\ proc'[p].pc = "up"
             /\ \A q \in Processes \ {p} : proc'[q] = proc[q]
             /\ proc' = [q \in Processes |-> proc'[q]]
<1> DEFINE m == Current(p)
           k == proc[p].step
<1>1. TypeOK /\ At(p, "up") /\ InHand(p)
  BY DEF SchemaInv, Apply, InHand
<1>2. m \in Versions /\ k \in Steps(m)
  BY <1>1, CurrentTyped DEF TypeOK
<1>3. /\ Fragile(m, k) => Makes(m, k) \notin schema
      /\ schema' = schema \cup {Makes(m, k)}
      /\ UNCHANGED <<recorded, halfway>>
  BY DEF Apply, Passes, Statement, Fragile, Makes
<1>3a. proc[p].todo \in SUBSET Versions /\ k \in Nat
  BY <1>1 DEF TypeOK
<1>4. CASE k = Len(Migrator[m])
  <2>1. proc' = [proc EXCEPT ![p] = [pc |-> "record", todo |-> proc[p].todo, step |-> 1]]
    BY <1>4 DEF Apply, Goto
  <2>2. proc'[p] = [pc |-> "record", todo |-> proc[p].todo, step |-> 1]
    BY <1>1, <2>1 DEF TypeOK
  <2>3. /\ \A q \in Processes \ {p} : proc'[q] = proc[q]
        /\ proc' = [q \in Processes |-> proc'[q]]
    BY <1>1, <2>1 DEF TypeOK
  <2>4. Current(p)' = m
    BY <2>2 DEF Current
  <2>6. proc'[p] \in [pc : {"up", "record"}, todo : SUBSET Versions, step : Nat]
    BY <1>3a, <2>2
  <2> HIDE DEF m, k
  <2>5. At(p, "record")' /\ proc'[p].step = 1 /\ proc'[p].pc = "record"
          /\ proc'[p].todo = proc[p].todo
    BY <2>2 DEF At
  <2> QED
    BY <1>1, <1>2, <1>3, <1>4, <2>3, <2>4, <2>5, <2>6 DEF m, k
<1>5. CASE k # Len(Migrator[m])
  <2>1. proc' = [proc EXCEPT ![p] = [pc |-> "up", todo |-> proc[p].todo, step |-> k + 1]]
    BY <1>5 DEF Apply, Goto
  <2>2. proc'[p] = [pc |-> "up", todo |-> proc[p].todo, step |-> k + 1]
    BY <1>1, <2>1 DEF TypeOK
  <2>3. /\ \A q \in Processes \ {p} : proc'[q] = proc[q]
        /\ proc' = [q \in Processes |-> proc'[q]]
    BY <1>1, <2>1 DEF TypeOK
  <2>4. Current(p)' = m
    BY <2>2 DEF Current
  <2>5. At(p, "up")' /\ proc'[p].step = k + 1 /\ proc'[p].pc = "up"
          /\ proc'[p].todo = proc[p].todo
    BY <2>2 DEF At
  <2>6. proc'[p] \in [pc : {"up", "record"}, todo : SUBSET Versions, step : Nat]
    BY <1>3a, <2>2
  <2> HIDE DEF m, k
  <2> QED
    BY <1>1, <1>2, <1>3, <1>5, <2>3, <2>4, <2>5, <2>6 DEF m, k
<1> QED
  BY <1>4, <1>5

LEMMA ApplyStep ==
  ASSUME SchemaInv, NEW p \in Processes, Apply(p)
  PROVE  SchemaInv'
<1> DEFINE m == Current(p)
           k == proc[p].step
<1>1. /\ At(p, "up") /\ m \in Versions /\ k \in Steps(m)
      /\ schema' = schema \cup {Makes(m, k)}
      /\ UNCHANGED <<recorded, halfway>>
      /\ Current(p)' = m /\ proc'[p].todo = proc[p].todo
      /\ proc'[p] \in [pc : {"up", "record"}, todo : SUBSET Versions, step : Nat]
      /\ \A q \in Processes \ {p} : proc'[q] = proc[q]
      /\ proc' = [q \in Processes |-> proc'[q]]
  BY ApplyShape
<1>2. IF k = Len(Migrator[m])
      THEN At(p, "record")' /\ proc'[p].step = 1 /\ proc'[p].pc = "record"
      ELSE At(p, "up")' /\ proc'[p].step = k + 1 /\ proc'[p].pc = "up"
  BY ApplyShape
<1>3. InHand(p) /\ TypeOK
  BY <1>1 DEF InHand, SchemaInv
<1> HIDE DEF m, k
<1>4. Len(Migrator[m]) \in Nat /\ Steps(m) = 1..Len(Migrator[m]) /\ k \in Nat
  BY <1>1, LengthsTyped DEF Steps
<1>5. Makes(m, k) \in Objects
  BY <1>1 DEF Objects, Made, MadeBy, Makes, Steps
<1>6. OthersStay(p)
  BY <1>1, <1>3, <1>5 DEF TypeOK, OthersStay
<1>7. Typed(p)'
  <2>1. proc'[p] \in [pc : {"closed", "read", "up", "record", "open"},
                      todo : SUBSET Versions, step : Nat]
    BY <1>1
  <2>2. proc'[p].todo # {}
    BY <1>1, <1>3, CurrentTyped
  <2>3. At(p, "up")' => proc'[p].step \in Steps(m)
    BY <1>1, <1>2, <1>4 DEF At
  <2> QED
    BY <1>1, <2>1, <2>2, <2>3 DEF Typed
<1>8. Sound(p)'
  <2>1. proc[p].todo = m..Last /\ 1..(m - 1) \subseteq recorded
    BY <1>3 DEF SchemaInv, RestToDo, m
  <2>2. \A j \in Steps(m) : j < k => Makes(m, j) \in schema
    BY <1>1, <1>3 DEF SchemaInv, DoneIsMade, Past, m, k
  <2>3. \A j \in Steps(m) : Past(p, j)' => j <= k
    BY <1>2, <1>4 DEF Past, At
  <2>4. \A j \in Steps(m) : Past(p, j)' => Makes(m, j) \in schema'
    BY <1>1, <1>4, <2>2, <2>3
  <2>5. ~At(p, "open")'
    BY <1>2 DEF At
  <2> QED
    BY <1>1, <2>1, <2>4, <2>5 DEF Sound
<1>9. InOrder' /\ RecordedMade'
  BY <1>1 DEF SchemaInv, InOrder, RecordedMade
<1> QED
  BY <1>1, <1>6, <1>7, <1>8, <1>9, SoundStep

LEMMA RecordShape ==
  ASSUME SchemaInv, NEW p \in Processes, Record(p)
  PROVE  /\ At(p, "record") /\ InHand(p) /\ Current(p) \in Versions
         /\ recorded = 1..(Current(p) - 1) /\ recorded' = 1..Current(p)
         /\ UNCHANGED <<schema, halfway>>
         /\ Go(p, (Current(p) + 1)..Last)
<1>1. TypeOK /\ At(p, "record") /\ InHand(p)
  BY DEF SchemaInv, Record, InHand
<1>2. Current(p) \in Versions /\ Current(p) \notin recorded
  BY <1>1, CurrentTyped DEF Record
<1>3. PICK n \in 0..Last : recorded = 1..n
  BY DEF SchemaInv, InOrder
<1>4. 1..(Current(p) - 1) \subseteq recorded /\ proc[p].todo = Current(p)..Last
  BY <1>1 DEF SchemaInv, RestToDo
<1>5. Last = 3 /\ Current(p) \in {1, 2, 3} /\ n \in {0, 1, 2, 3}
  BY <1>2, <1>3, Lengths
<1>6. n = Current(p) - 1
  <2> DEFINE m == Current(p)
  <2> HIDE DEF m
  <2>1. m \in {1, 2, 3} /\ m \notin 1..n /\ 1..(m - 1) \subseteq 1..n
    BY <1>2, <1>3, <1>4, <1>5 DEF m
  <2>2. m = 1 \/ m - 1 \in 1..n
    BY <2>1
  <2>3. n = m - 1
    BY <1>5, <2>1, <2>2
  <2> QED
    BY <2>3 DEF m
<1>7. recorded' = recorded \cup {Current(p)} /\ Go(p, proc[p].todo \ {Current(p)})
      /\ UNCHANGED <<schema, halfway>>
  BY DEF Record
<1>8. proc[p].todo \ {Current(p)} = (Current(p) + 1)..Last
  BY <1>4, <1>5
<1>9. recorded' = 1..Current(p)
  BY <1>3, <1>5, <1>6, <1>7
<1> QED
  BY <1>1, <1>2, <1>3, <1>6, <1>7, <1>8, <1>9

LEMMA RecordStep ==
  ASSUME SchemaInv, NEW p \in Processes, Record(p)
  PROVE  /\ SchemaInv' /\ ~Committed(p)'
         /\ \A q \in Processes \ {p} : proc'[q] = proc[q]
         /\ IF Current(p) = Last THEN At(p, "open")' ELSE ~At(p, "open")'
<1> DEFINE m == Current(p)
<1>1. /\ At(p, "record") /\ InHand(p) /\ m \in Versions
      /\ recorded = 1..(m - 1) /\ recorded' = 1..m
      /\ UNCHANGED <<schema, halfway>> /\ Go(p, (m + 1)..Last)
  BY RecordShape
<1>2. TypeOK
  BY DEF SchemaInv
<1>3. Made(m) \subseteq schema
  <2>1. \A j \in Steps(m) : Makes(m, j) \in schema
    BY <1>1 DEF SchemaInv, DoneIsMade, Past
  <2> QED
    BY <2>1 DEF Made, MadeBy, Makes, Steps
<1> HIDE DEF m
<1>4. m + 1 \in 1..(Last + 1) /\ recorded' = 1..((m + 1) - 1) /\ (m + 1 <= Last <=> m # Last)
  BY <1>1, Lengths
<1>5. /\ Typed(p)' /\ Sound(p)' /\ ~Committed(p)'
      /\ IF m + 1 <= Last THEN At(p, "up")' ELSE At(p, "open")' /\ recorded' = Versions
      /\ \A q \in Processes \ {p} : proc'[q] = proc[q]
      /\ proc' = [q \in Processes |-> proc'[q]]
  BY <1>1, <1>2, <1>4, GoSound
<1>6. recorded \subseteq recorded' /\ recorded' = recorded \cup {m} /\ recorded' \subseteq Versions
  BY <1>1, Lengths
<1>7. OthersStay(p)
  BY <1>1, <1>2, <1>5, <1>6 DEF TypeOK, OthersStay
<1>8. InOrder'
  BY <1>1, Lengths DEF InOrder
<1>9. RecordedMade'
  BY <1>1, <1>3, <1>6 DEF SchemaInv, RecordedMade
<1>10. SchemaInv'
  BY <1>5, <1>7, <1>8, <1>9, SoundStep
<1>11. IF m = Last THEN At(p, "open")' ELSE ~At(p, "open")'
  BY <1>4, <1>5 DEF At
<1> QED
  BY <1>5, <1>10, <1>11 DEF m

LEMMA SchemaStep == SchemaInv /\ [Next]_vars => SchemaInv'
<1> SUFFICES ASSUME SchemaInv, [Next]_vars PROVE SchemaInv'
  OBVIOUS
<1>0. TypeOK
  BY DEF SchemaInv
<1>1. ASSUME NEW p \in Processes, Open(p) PROVE SchemaInv'
  BY <1>0, <1>1, AwaySound DEF Open, Goto, TypeOK
<1>2. ASSUME NEW p \in Processes, Leaves(p) PROVE SchemaInv'
  <2>1. halfway' \in BOOLEAN
    BY <1>0, <1>2 DEF Leaves, TypeOK
  <2> QED
    BY <1>2, <2>1, AwaySound DEF Leaves, Closed
<1>3. ASSUME UNCHANGED vars PROVE SchemaInv'
  BY <1>3 DEF vars, SchemaInv, TypeOK, InOrder, RecordedMade, RestToDo, DoneIsMade,
              OpenIsLast, InHand, Past, At, Current
<1> QED
  BY <1>1, <1>2, <1>3, PendingStep, ApplyStep, RecordStep
     DEF Next, Step, Refused, Cut, Close

LEMMA SchemaInvariant == Spec => []SchemaInv
<1>1. Init => SchemaInv
  BY SchemaInit
<1> QED
  BY <1>1, SchemaStep, PTL DEF Spec

\* The types, among them that a process in the middle of a migration has a
\* statement of it to do.
THEOREM TypeCorrect == Spec => []TypeOK
<1>1. SchemaInv => TypeOK
  BY DEF SchemaInv
<1> QED
  BY <1>1, SchemaInvariant, PTL

\* A process that has the store open has every table and column the entities
\* name, however many open it at once and wherever they are cut.
THEOREM OpenStoreIsReady == Spec => []OpenIsReady
<1>1. SchemaInv => OpenIsReady
  BY NeededMade DEF SchemaInv, OpenIsLast, RecordedMade, OpenIsReady
<1> QED
  BY <1>1, SchemaInvariant, PTL

(***************************************************************************)
(* The schema goes up in order                                             *)
(***************************************************************************)
Users == {p \in Processes : At(p, "open")}

LEMMA VersionNext ==
  ASSUME NEW n \in 0..Last, recorded' = 1..n
  PROVE  Version' = n
<1>1. \A k \in 0..Last : recorded' = 1..k => k = n
  BY Lengths
<1> QED
  BY <1>1 DEF Version

\* A step that leaves recorded alone leaves the version, and who is open among
\* the others.
LEMMA SameVersion ==
  ASSUME recorded' = recorded
  PROVE  Version' = Version
BY DEF Version

LEMMA UsersBut ==
  ASSUME NEW p \in Processes, \A q \in Processes \ {p} : proc'[q] = proc[q]
  PROVE  /\ At(p, "open")' => Users' = Users \cup {p}
         /\ ~At(p, "open")' => Users' = Users \ {p}
<1>1. \A q \in Processes \ {p} : At(q, "open")' = At(q, "open")
  BY DEF At
<1>2. CASE At(p, "open")'
  BY <1>1, <1>2 DEF Users
<1>3. CASE ~At(p, "open")'
  BY <1>1, <1>3 DEF Users
<1> QED
  BY <1>2, <1>3

LEMMA UpgradeStep ==
  ASSUME SchemaInv, [Next]_vars
  PROVE  [Upgrade!Next]_<<Version, Users>>
<1>0. TypeOK
  BY DEF SchemaInv
<1>1. ASSUME NEW p \in Processes, Open(p) PROVE UNCHANGED <<Version, Users>>
  <2>1. /\ proc' = [proc EXCEPT ![p] = [pc |-> "read", todo |-> {}, step |-> 1]]
        /\ recorded' = recorded /\ ~At(p, "open")
    BY <1>1 DEF Open, Goto, At
  <2>2. (\A q \in Processes \ {p} : proc'[q] = proc[q]) /\ ~At(p, "open")'
    BY <1>0, <2>1 DEF TypeOK, At
  <2>3. Users' = Users \ {p} /\ p \notin Users
    BY <2>1, <2>2, UsersBut DEF Users
  <2> QED
    BY <2>1, <2>3, SameVersion
<1>2. ASSUME NEW p \in Processes, Leaves(p) PROVE Upgrade!Leave(p)
  <2>1. proc' = [proc EXCEPT ![p] = Closed] /\ recorded' = recorded
    BY <1>2 DEF Leaves
  <2>2. (\A q \in Processes \ {p} : proc'[q] = proc[q]) /\ ~At(p, "open")'
    BY <1>0, <2>1 DEF TypeOK, At, Closed
  <2>3. Users' = Users \ {p} /\ Version' = Version
    BY <2>1, <2>2, UsersBut, SameVersion
  <2> QED
    BY <2>3 DEF Upgrade!Leave, Users
<1>3. ASSUME NEW p \in Processes, Pending(p)
      PROVE  Upgrade!Enter(p) \/ UNCHANGED <<Version, Users>>
  <2>1. recorded' = recorded /\ ~At(p, "open")
    BY <1>3 DEF Pending, At
  <2>2. (\A q \in Processes \ {p} : proc'[q] = proc[q])
    BY <1>0, <1>3 DEF Pending, Go, Goto, TypeOK
  <2>3. CASE At(p, "open")'
    <3>1. recorded = 1..Last /\ Last \in 0..Last
      BY <1>3, <2>3, PendingStep, Lengths DEF Versions
    <3>2. Version = Last /\ Version' = Version
      BY <2>1, <3>1, VersionIs, SameVersion
    <3>3. Users' = Users \cup {p}
      BY <2>2, <2>3, UsersBut
    <3> QED
      BY <3>2, <3>3 DEF Upgrade!Enter, Users
  <2>4. CASE ~At(p, "open")'
    <3>1. Users' = Users \ {p} /\ p \notin Users
      BY <2>1, <2>2, <2>4, UsersBut DEF Users
    <3> QED
      BY <2>1, <3>1, SameVersion
  <2> QED
    BY <2>3, <2>4
<1>4. ASSUME NEW p \in Processes, Apply(p) PROVE UNCHANGED <<Version, Users>>
  <2>1. /\ At(p, "up") /\ recorded' = recorded
        /\ \A q \in Processes \ {p} : proc'[q] = proc[q]
        /\ proc'[p] \in [pc : {"up", "record"}, todo : SUBSET Versions, step : Nat]
    BY <1>4, ApplyShape
  <2>2. ~At(p, "open") /\ ~At(p, "open")'
    BY <2>1 DEF At
  <2>3. Users' = Users \ {p} /\ p \notin Users
    BY <2>1, <2>2, UsersBut DEF Users
  <2> QED
    BY <2>1, <2>3, SameVersion
<1>5. ASSUME NEW p \in Processes, Record(p)
      PROVE  Upgrade!Advance \/ Upgrade!Complete(p)
  <2> DEFINE m == Current(p)
  <2>1. /\ At(p, "record") /\ m \in Versions
        /\ recorded = 1..(m - 1) /\ recorded' = 1..m
    BY <1>5, RecordShape
  <2>2. /\ \A q \in Processes \ {p} : proc'[q] = proc[q]
        /\ IF m = Last THEN At(p, "open")' ELSE ~At(p, "open")'
    BY <1>5, RecordStep
  <2> HIDE DEF m
  <2>3. m - 1 \in 0..Last /\ m \in 0..Last /\ m \in 1..Last
    BY <2>1, Lengths
  <2>4. Version = m - 1 /\ Version' = m
    BY <2>1, <2>3, VersionIs, VersionNext
  <2>5. CASE m = Last
    <3>1. Users' = Users \cup {p}
      BY <2>2, <2>5, UsersBut
    <3>2. Version + 1 = Last /\ Version' = Last
      BY <2>3, <2>4, <2>5, Lengths
    <3> QED
      BY <3>1, <3>2 DEF Upgrade!Complete, Users
  <2>6. CASE m # Last
    <3>1. Users' = Users \ {p} /\ p \notin Users
      BY <2>1, <2>2, <2>6, UsersBut DEF Users, At
    <3>2. Version < Last /\ Version' = Version + 1
      BY <2>3, <2>4, <2>6, Lengths
    <3> QED
      BY <3>1, <3>2 DEF Upgrade!Advance, Users
  <2> QED
    BY <2>5, <2>6
<1>6. ASSUME UNCHANGED vars PROVE UNCHANGED <<Version, Users>>
  BY <1>6, SameVersion DEF vars, Users, At
<1> QED
  BY <1>1, <1>2, <1>3, <1>4, <1>5, <1>6
     DEF Next, Step, Refused, Cut, Close, Upgrade!Next

\* Opening refines Schema: the schema goes up by whole migrations, in order and
\* never back, and a process enters at the last version only.
THEOREM SchemaInOrder == Spec => UpgradesInOrder
<1>1. Init => Upgrade!Init
  <2> SUFFICES ASSUME Init PROVE Upgrade!Init
    OBVIOUS
  <2>1. PICK n \in 0..Last : recorded = 1..n
    BY DEF Init
  <2>2. Version = n
    BY <2>1, VersionIs
  <2>3. Users = {}
    BY DEF Init, Users, At, Closed
  <2> QED
    BY <2>2, <2>3 DEF Upgrade!Init, Users
<1>2. SchemaInv /\ [Next]_vars => [Upgrade!Next]_<<Version, Users>>
  BY UpgradeStep
<1> QED
  BY <1>1, <1>2, SchemaInvariant, PTL DEF Spec, UpgradesInOrder, Upgrade!Spec, Users

(***************************************************************************)
(* The race through one migration                                          *)
(***************************************************************************)
LEMMA OthersAsBefore ==
  ASSUME NEW q \in Processes, proc'[q] = proc[q]
  PROVE  /\ Committed(q)' = Committed(q) /\ Current(q)' = Current(q)
         /\ \A j : Past(q, j)' = Past(q, j)
<1>1. At(q, "up")' = At(q, "up") /\ At(q, "record")' = At(q, "record")
      /\ Current(q)' = Current(q)
  BY DEF At, Current
<1>2. \A j : Past(q, j)' = Past(q, j)
  BY <1>1 DEF Past
<1>3. Committed(q)' = Committed(q)
  BY <1>1 DEF Committed
<1> QED
  BY <1>1, <1>2, <1>3

\* A process that has done nothing it cannot do twice comes or goes.
LEMMA BystanderWinners ==
  ASSUME Winners, NEW p \in Processes, \A q \in Processes \ {p} : proc'[q] = proc[q],
         schema' = schema, recorded' = recorded, ~Committed(p), ~Committed(p)'
  PROVE  Winners'
<1>1. \A q \in Processes \ {p} :
        /\ Committed(q)' = Committed(q) /\ Current(q)' = Current(q)
        /\ \A j : Past(q, j)' = Past(q, j)
  BY OthersAsBefore
<1>2. MadeByWinner'
  <2> SUFFICES ASSUME NEW m \in Versions \ recorded, NEW j \in Steps(m),
                      Fragile(m, j), Makes(m, j) \in schema
               PROVE  \E q \in Processes : Committed(q)' /\ Current(q)' = m /\ Past(q, j)'
    BY DEF MadeByWinner, Fragile, Makes
  <2>1. PICK q \in Processes : Committed(q) /\ Current(q) = m /\ Past(q, j)
    BY DEF Winners, MadeByWinner
  <2> QED
    BY <1>1, <2>1
<1>3. WinnerAlone' /\ WinnerFirst'
  BY <1>1 DEF Winners, WinnerAlone, WinnerFirst
<1> QED
  BY <1>2, <1>3 DEF Winners

LEMMA RecordWinners ==
  ASSUME SchemaInv, Winners, NEW p \in Processes, Record(p)
  PROVE  Winners'
<1>1. /\ At(p, "record") /\ UNCHANGED schema
      /\ recorded' = recorded \cup {Current(p)}
  BY DEF Record
<1>2. ~Committed(p)' /\ \A q \in Processes \ {p} : proc'[q] = proc[q]
  BY RecordStep
<1>3. \A q \in Processes \ {p} :
        /\ Committed(q)' = Committed(q) /\ Current(q)' = Current(q)
        /\ \A j : Past(q, j)' = Past(q, j)
  BY <1>2, OthersAsBefore
<1>4. Committed(p)
  BY <1>1 DEF Committed
<1>5. MadeByWinner'
  <2> SUFFICES ASSUME NEW m \in Versions \ recorded', NEW j \in Steps(m),
                      Fragile(m, j), Makes(m, j) \in schema
               PROVE  \E q \in Processes : Committed(q)' /\ Current(q)' = m /\ Past(q, j)'
    BY <1>1 DEF MadeByWinner, Fragile, Makes
  <2>1. m \in Versions \ recorded /\ m # Current(p)
    BY <1>1
  <2>2. PICK q \in Processes : Committed(q) /\ Current(q) = m /\ Past(q, j)
    BY <2>1 DEF Winners, MadeByWinner
  <2> QED
    BY <1>3, <2>1, <2>2
<1>6. WinnerAlone'
  BY <1>2, <1>3 DEF Winners, WinnerAlone
<1>7. WinnerFirst'
  <2> SUFFICES ASSUME NEW q \in Processes, Committed(q)' PROVE Current(q)' \notin recorded'
    BY DEF WinnerFirst
  <2>1. q # p /\ Committed(q) /\ Current(q)' = Current(q)
    BY <1>2, <1>3
  <2>2. Current(q) # Current(p) /\ Current(q) \notin recorded
    BY <1>4, <2>1 DEF Winners, WinnerAlone, WinnerFirst
  <2> QED
    BY <1>1, <2>1, <2>2
<1> QED
  BY <1>5, <1>6, <1>7 DEF Winners

\* The first to make what cannot be made twice is the only one to have made any
\* such thing of the migration.
LEMMA FirstIsAlone ==
  ASSUME SchemaInv, Winners, NEW p \in Processes, At(p, "up"),
         Current(p) \in Versions, proc[p].step \in Steps(Current(p)),
         Fragile(Current(p), proc[p].step), Makes(Current(p), proc[p].step) \notin schema
  PROVE  /\ Current(p) \notin recorded
         /\ \A q \in Processes \ {p} : Committed(q) => Current(q) # Current(p)
<1> DEFINE m == Current(p)
           k == proc[p].step
<1>1. m \notin recorded
  <2>1. Makes(m, k) \in Made(m)
    BY DEF Made, MadeBy, Makes, Steps
  <2> QED
    BY <2>1 DEF SchemaInv, RecordedMade
<1>2. ASSUME NEW q \in Processes \ {p}, Committed(q), Current(q) = m PROVE FALSE
  <2>1. ~Past(q, k)
    BY <1>2, CommittedIs DEF SchemaInv, DoneIsMade, InHand
  <2>2. At(q, "up") /\ ~(k < proc[q].step)
    BY <1>2, <2>1, CommittedIs DEF Past
  <2>3. PICK i \in 1..(proc[q].step - 1) : Fragile(m, i)
    BY <1>2, <2>1, CommittedIs DEF Past
  <2>4. proc[q].step \in Nat /\ k \in Nat
    BY DEF SchemaInv, TypeOK
  <2> HIDE DEF m, k
  <2>5. i \in 1..(k - 1)
    BY <2>2, <2>3, <2>4
  <2>6. Committed(p)
    BY <2>3, <2>5, CommittedIs DEF m, k
  <2> QED
    BY <1>2, <2>6 DEF Winners, WinnerAlone, m
<1> QED
  BY <1>1, <1>2

LEMMA ApplyWinners ==
  ASSUME SchemaInv, Winners, NEW p \in Processes, Apply(p)
  PROVE  Winners'
<1> DEFINE m == Current(p)
           k == proc[p].step
<1>1. /\ At(p, "up") /\ m \in Versions /\ k \in Steps(m)
      /\ (Fragile(m, k) => Makes(m, k) \notin schema)
      /\ schema' = schema \cup {Makes(m, k)}
      /\ recorded' = recorded
      /\ Current(p)' = m
      /\ \A q \in Processes \ {p} : proc'[q] = proc[q]
  BY ApplyShape
<1>2. \/ k = Len(Migrator[m]) /\ At(p, "record")'
      \/ k # Len(Migrator[m]) /\ At(p, "up")' /\ proc'[p].step = k + 1
  BY ApplyShape
<1>3. \A q \in Processes \ {p} :
        /\ Committed(q)' = Committed(q) /\ Current(q)' = Current(q)
        /\ \A j : Past(q, j)' = Past(q, j)
  BY <1>1, OthersAsBefore
<1>4. Fragile(m, k) => m \notin recorded
                       /\ \A q \in Processes \ {p} : Committed(q) => Current(q) # m
  BY <1>1, FirstIsAlone
<1>5. Committed(p) <=> \E i \in 1..(k - 1) : Fragile(m, i)
  BY <1>1, CommittedIs DEF At
<1>6. Committed(p)' <=>
        \/ At(p, "record")'
        \/ At(p, "up")' /\ \E i \in 1..(proc'[p].step - 1) : Fragile(m, i)
  BY <1>1 DEF Committed, Fragile
<1>7. \A j : Past(p, j) <=> j < k
  BY <1>1 DEF Past, At
<1>8. \A j : Past(p, j)' <=> At(p, "record")' \/ (At(p, "up")' /\ j < proc'[p].step)
  BY DEF Past
<1> HIDE DEF m, k
<1>9. Len(Migrator[m]) \in Nat /\ Steps(m) = 1..Len(Migrator[m]) /\ k \in Nat
  BY <1>1, LengthsTyped DEF Steps
<1>10. \A j \in Steps(m) : j <= k => Past(p, j)'
  BY <1>2, <1>8, <1>9
<1>11. Committed(p)' <=> Committed(p) \/ Fragile(m, k)
  <2>1. CASE k = Len(Migrator[m])
    <3>1. PICK i \in Steps(m) : Fragile(m, i)
      BY <1>1, SomeFragile
    <3>2. i = k \/ i \in 1..(k - 1)
      BY <1>9, <2>1
    <3> QED
      BY <1>2, <1>5, <1>6, <2>1, <3>1, <3>2
  <2>2. CASE k # Len(Migrator[m])
    <3>1. 1..(proc'[p].step - 1) = 1..(k - 1) \cup {k} /\ At(p, "up")' /\ ~At(p, "record")'
      BY <1>1, <1>2, <1>9, <2>2 DEF At
    <3> QED
      BY <1>5, <1>6, <3>1
  <2> QED
    BY <2>1, <2>2
<1>12. MadeByWinner'
  <2> SUFFICES ASSUME NEW n \in Versions \ recorded, NEW j \in Steps(n),
                      Fragile(n, j), Makes(n, j) \in schema'
               PROVE  \E q \in Processes : Committed(q)' /\ Current(q)' = n /\ Past(q, j)'
    BY <1>1 DEF MadeByWinner, Fragile, Makes
  <2>1. CASE Makes(n, j) \in schema
    <3>1. PICK q \in Processes : Committed(q) /\ Current(q) = n /\ Past(q, j)
      BY <2>1 DEF Winners, MadeByWinner
    <3>2. CASE q = p
      <4>1. n = m /\ j < k
        BY <1>7, <3>1, <3>2 DEF m
      <4>2. Past(p, j)'
        BY <1>9, <1>10, <4>1
      <4> QED
        BY <1>1, <1>11, <3>1, <3>2, <4>1, <4>2
    <3>3. CASE q # p
      BY <1>3, <3>1, <3>3
    <3> QED
      BY <3>2, <3>3
  <2>2. CASE Makes(n, j) \notin schema
    <3>1. n = m /\ j = k
      BY <1>1, <2>2, MadeOnce
    <3>2. Past(p, j)'
      BY <1>1, <1>9, <1>10, <3>1
    <3> QED
      BY <1>1, <1>11, <3>1, <3>2
  <2> QED
    BY <2>1, <2>2
<1>13. WinnerAlone'
  <2>1. ASSUME NEW q \in Processes \ {p}, Committed(q)', Committed(p)', Current(q)' = m
        PROVE  FALSE
    <3>1. Committed(q) /\ Current(q) = m
      BY <1>3, <2>1
    <3>2. CASE Committed(p)
      BY <3>1, <3>2 DEF Winners, WinnerAlone, m
    <3>3. CASE Fragile(m, k)
      BY <1>4, <3>1, <3>3
    <3> QED
      BY <1>11, <2>1, <3>2, <3>3
  <2> QED
    BY <1>1, <1>3, <2>1 DEF Winners, WinnerAlone
<1>14. WinnerFirst'
  <2>1. Committed(p) => m \notin recorded
    BY DEF Winners, WinnerFirst, m
  <2> QED
    BY <1>1, <1>3, <1>4, <1>11, <2>1 DEF Winners, WinnerFirst
<1> QED
  BY <1>12, <1>13, <1>14 DEF Winners

LEMMA WinnersStep ==
  ASSUME SchemaInv, ~halfway => Winners, [Next]_vars
  PROVE  ~halfway' => Winners'
<1> SUFFICES ASSUME ~halfway' PROVE Winners'
  OBVIOUS
<1>0. TypeOK
  BY DEF SchemaInv
<1>1. ASSUME NEW p \in Processes, Open(p) PROVE Winners'
  <2>1. /\ proc' = [proc EXCEPT ![p] = [pc |-> "read", todo |-> {}, step |-> 1]]
        /\ UNCHANGED <<schema, recorded, halfway>> /\ At(p, "closed")
    BY <1>1 DEF Open, Goto
  <2>2. (\A q \in Processes \ {p} : proc'[q] = proc[q]) /\ At(p, "read")'
    BY <1>0, <2>1 DEF TypeOK, At
  <2>3. ~Committed(p) /\ ~Committed(p)'
    BY <2>1, <2>2 DEF Committed, At
  <2> QED
    BY <2>1, <2>2, <2>3, BystanderWinners
<1>2. ASSUME NEW p \in Processes, Leaves(p) PROVE Winners'
  <2>1. /\ proc' = [proc EXCEPT ![p] = Closed]
        /\ UNCHANGED <<schema, recorded>> /\ ~halfway /\ ~Committed(p)
    BY <1>0, <1>2 DEF Leaves, TypeOK
  <2>2. (\A q \in Processes \ {p} : proc'[q] = proc[q]) /\ At(p, "closed")'
    BY <1>0, <2>1 DEF TypeOK, At, Closed
  <2>3. ~Committed(p)'
    BY <2>2 DEF Committed, At
  <2> QED
    BY <2>1, <2>2, <2>3, BystanderWinners
<1>3. ASSUME NEW p \in Processes, Pending(p) PROVE Winners'
  <2>1. At(p, "read") /\ UNCHANGED <<schema, recorded, halfway>>
    BY <1>3 DEF Pending
  <2>2. \A q \in Processes \ {p} : proc'[q] = proc[q]
    BY <1>0, <1>3 DEF Pending, Go, Goto, TypeOK
  <2>3. ~Committed(p) /\ ~Committed(p)'
    BY <1>3, <2>1, PendingStep DEF Committed, At
  <2> QED
    BY <2>1, <2>2, <2>3, BystanderWinners
<1>4. ASSUME NEW p \in Processes, Apply(p) PROVE Winners'
  BY <1>4, ApplyWinners DEF Apply
<1>5. ASSUME NEW p \in Processes, Record(p) PROVE Winners'
  BY <1>5, RecordWinners DEF Record
<1>6. ASSUME UNCHANGED vars PROVE Winners'
  <2>1. UNCHANGED <<schema, recorded, proc, halfway>>
    BY <1>6 DEF vars
  <2>2. \A q \in Processes :
          /\ Committed(q)' = Committed(q) /\ Current(q)' = Current(q)
          /\ \A j : Past(q, j)' = Past(q, j)
    BY <2>1, OthersAsBefore
  <2> QED
    BY <2>1, <2>2 DEF Winners, MadeByWinner, WinnerAlone, WinnerFirst, Fragile, Makes
<1> QED
  BY <1>1, <1>2, <1>3, <1>4, <1>5, <1>6 DEF Next, Step, Refused, Cut, Close

LEMMA WinnersGoOn ==
  ASSUME SchemaInv, Winners, NEW p \in Processes, Committed(p)
  PROVE  CanGoOn(p)
<1>1. Current(p) \notin recorded /\ InHand(p) /\ TypeOK
  BY CommittedIs DEF Winners, WinnerFirst, InHand, SchemaInv
<1>2. Current(p) \in Versions
  BY <1>1, CurrentTyped
<1>3. CASE At(p, "record")
  BY <1>1, <1>3 DEF CanGoOn
<1>4. CASE At(p, "up")
  <2> DEFINE m == Current(p)
  <2>1. ASSUME NEW i \in proc[p].step..Len(Migrator[m]), Fragile(m, i), Makes(m, i) \in schema
        PROVE  FALSE
    <3>1. proc[p].step \in Steps(m)
      BY <1>1, <1>4 DEF TypeOK
    <3> HIDE DEF m
    <3>2. i \in Steps(m) /\ ~(i < proc[p].step)
      BY <1>1, <2>1, <3>1 DEF Steps, TypeOK
    <3> USE DEF m
    <3>3. PICK q \in Processes : Committed(q) /\ Current(q) = m /\ Past(q, i)
      BY <1>1, <1>2, <2>1, <3>2 DEF Winners, MadeByWinner
    <3>4. q = p
      BY <3>3 DEF Winners, WinnerAlone
    <3> QED
      BY <1>4, <3>2, <3>3, <3>4 DEF Past, At
  <2> QED
    BY <1>4, <2>1 DEF CanGoOn, Fragile, Makes
<1> QED
  BY <1>1, <1>3, <1>4 DEF InHand

\* Unless an open was stopped half way, what cannot be made twice was made by a
\* process that can go on to the end of the migration: however many race, one of
\* them gets through and the error of the others is all that is lost.
THEOREM RaceHasOneWinner == Spec => []OneWinner
<1>1. Init => SchemaInv /\ (~halfway => Winners)
  BY SchemaInit
<1>2. (~halfway => Winners) /\ SchemaInv /\ [Next]_vars => (~halfway => Winners)'
  BY WinnersStep
<1>3. SchemaInv /\ (~halfway => Winners) => OneWinner
  <2> SUFFICES ASSUME SchemaInv, Winners,
                      NEW m \in Versions \ recorded, NEW j \in Steps(m),
                      Fragile(m, j), Makes(m, j) \in schema
               PROVE  \E p \in Processes : Committed(p) /\ Current(p) = m /\ CanGoOn(p)
    BY DEF OneWinner, Fragile, Makes
  <2>1. PICK p \in Processes : Committed(p) /\ Current(p) = m /\ Past(p, j)
    BY DEF Winners, MadeByWinner
  <2> QED
    BY <2>1, WinnersGoOn
<1> QED
  BY <1>1, <1>2, <1>3, SchemaInvariant, PTL DEF Spec

================================================================================
