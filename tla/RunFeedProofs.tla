------------------------------ MODULE RunFeedProofs ------------------------------
(***************************************************************************)
(* What holds of RunFeed for every program, every retention limit, every   *)
(* bus capacity and any number of vigies, calls and receivers.             *)
(***************************************************************************)
EXTENDS RunFeed, RetentionProofs, SequenceTheorems

(***************************************************************************)
(* Runs                                                                    *)
(***************************************************************************)
LEMMA RunIdsAre ==
  /\ RunIds \subseteq Nat /\ 0 \notin RunIds
  /\ \A n \in RunIds \cup {0} : n \in Nat /\ 1..n \subseteq RunIds /\ IsFiniteSet(1..n)
<1> DEFINE C == Cardinality(RunIds)
<1>1. C \in Nat
  BY FS_CardinalityType, RunFeedAssumption
<1>2. RunIds = 1..C
  BY RunFeedAssumption
<1> HIDE DEF C
<1>3. \A n \in RunIds \cup {0} : n \in Nat /\ 1..n \subseteq RunIds
  BY <1>1, <1>2
<1>4. \A n \in Nat : IsFiniteSet(1..n)
  BY FS_Interval
<1> QED
  BY <1>1, <1>2, <1>3, <1>4

\* A completed run, and its row, are runs.
LEMMA CompletedTyped ==
  ASSUME NEW run \in Hand, NEW p \in Programs
  PROVE  /\ Completed(run, p) \in Runs /\ Row(Completed(run, p)) \in Runs
         /\ Completed(run, p).id = run.id /\ Completed(run, p).vigy = run.vigy
         /\ Row(Completed(run, p)).id = run.id /\ Row(Completed(run, p)).vigy = run.vigy
<1> DEFINE acts == Outcome(p).actions
           kept == [i \in DOMAIN acts |-> Reread(acts[i])]
           res == Outcome(p).result
           model == Row(Completed([id |-> 1, vigy |-> 1], p)).actions
           c == [id |-> run.id, vigy |-> run.vigy, of |-> p, result |-> res, actions |-> acts]
           r == [id |-> run.id, vigy |-> run.vigy, of |-> p, result |-> res, actions |-> kept]
<1>1. Completed(run, p) = c
  BY DEF Completed
<1>2. Row(c) = r
  BY DEF Row
<1>3. model = kept
  BY DEF Row, Completed
<1>4. res \in {"ok", "failed"}
  BY DEF Outcome
<1>5. acts \in {acts, model} /\ kept \in {acts, model}
  BY <1>3
<1>6. run.id \in RunIds /\ run.vigy \in Vigies
  BY DEF Hand
<1>7. c \in Runs /\ r \in Runs
  <2>1. /\ acts \in UNION {{Outcome(q).actions, Row(Completed([id |-> 1, vigy |-> 1], q)).actions}
                             : q \in Programs}
        /\ kept \in UNION {{Outcome(q).actions, Row(Completed([id |-> 1, vigy |-> 1], q)).actions}
                             : q \in Programs}
    BY <1>5
  <2> HIDE DEF acts, kept, res
  <2> QED
    BY <1>4, <1>6, <2>1 DEF Runs
<1> HIDE DEF acts, kept, res
<1> QED
  BY <1>1, <1>2, <1>7

LEMMA ProgramsOf ==
  ASSUME NEW v \in Vigies, NEW p \in Does[v]
  PROVE  p \in Programs
BY RunFeedAssumption DEF Programs, Range

(***************************************************************************)
(* Typing                                                                  *)
(***************************************************************************)
TaskType == [pc : {"none", "rest", "tick", "send"}, run : {NoRun} \cup Hand \cup Runs]
RxType == [on : BOOLEAN, next : Nat, lost : Nat, shown : Seq(Runs)]

LEMMA OffTyped == Off \in RxType /\ ~Off.on /\ Off.next = 1
<1>1. <<>> \in Seq(Runs)
  BY EmptySeq
<1> QED
  BY <1>1 DEF Off, RxType

\* The receivers a step may leave, whatever the type of what they show.
LEMMA ReceiverFields ==
  ASSUME NEW S, NEW r \in [on : BOOLEAN, next : Nat, lost : Nat, shown : S],
         NEW n \in Nat, NEW m \in Nat, NEW q \in S
  PROVE  /\ [r EXCEPT !.on = TRUE, !.next = n] \in [on : BOOLEAN, next : Nat, lost : Nat, shown : S]
         /\ [r EXCEPT !.on = TRUE, !.next = n].next = n
         /\ [r EXCEPT !.lost = m, !.next = n] \in [on : BOOLEAN, next : Nat, lost : Nat, shown : S]
         /\ [r EXCEPT !.lost = m, !.next = n].next = n
         /\ [r EXCEPT !.next = n, !.shown = q] \in [on : BOOLEAN, next : Nat, lost : Nat, shown : S]
         /\ [r EXCEPT !.next = n, !.shown = q].next = n
OBVIOUS

LEMMA TasksAre == /\ Vigies \subseteq Tasks /\ Callers \subseteq Tasks
                  /\ \A v \in Vigies, c \in Callers : v # c
BY RunFeedAssumption DEF Tasks

\* What Becomes makes of the tasks.
LEMMA BecomesShape ==
  ASSUME TypeOK, NEW t \in Tasks, NEW pc, NEW run, Becomes(t, pc, run)
  PROVE  /\ task'[t].pc = pc /\ task'[t].run = run
         /\ \A u \in Tasks : u # t => task'[u] = task[u]
         /\ Task(pc, run) \in TaskType => task' \in [Tasks -> TaskType]
<1>1. task \in [Tasks -> TaskType]
  BY DEF TypeOK, TaskType
<1>2. task' = [task EXCEPT ![t] = Task(pc, run)]
  BY DEF Becomes
<1> DEFINE new == Task(pc, run)
<1>3. new.pc = pc /\ new.run = run
  BY DEF Task
<1>4. task' = [task EXCEPT ![t] = new]
  BY <1>2
<1> HIDE DEF new
<1>5. task'[t] = new /\ \A u \in Tasks : u # t => task'[u] = task[u]
  BY <1>1, <1>4
<1>6. new \in TaskType => task' \in [Tasks -> TaskType]
  BY <1>1, <1>4
<1>7. task'[t].pc = pc /\ task'[t].run = run
  BY <1>3, <1>5, Zenon
<1> QED
  BY <1>5, <1>6, <1>7 DEF new

\* What one step does to the tasks, seen by what it does to the others'.
LEMMA BecomesTyped ==
  ASSUME TypeOK, NEW t \in Tasks, NEW pc \in {"none", "rest", "tick", "send"}, NEW run,
         Becomes(t, pc, run),
         \/ pc \in {"none", "rest"} /\ run = NoRun
         \/ pc = "tick" /\ run \in Hand
         \/ pc = "send" /\ run \in Runs
  PROVE  /\ task' \in [Tasks -> TaskType]
         /\ \A u \in Tasks : /\ task'[u].pc = "tick" => task'[u].run \in Hand
                             /\ task'[u].pc = "send" => task'[u].run \in Runs
<1>1. Task(pc, run) \in TaskType
  BY DEF Task, TaskType
<1>2. /\ task'[t].pc = pc /\ task'[t].run = run
      /\ \A u \in Tasks : u # t => task'[u] = task[u]
      /\ task' \in [Tasks -> TaskType]
  BY <1>1, BecomesShape
<1>3. \A u \in Tasks : /\ task[u].pc = "tick" => task[u].run \in Hand
                       /\ task[u].pc = "send" => task[u].run \in Runs
  BY DEF TypeOK, At
<1>4. /\ task'[t].pc = "tick" => task'[t].run \in Hand
      /\ task'[t].pc = "send" => task'[t].run \in Runs
  BY <1>2
<1> QED
  BY <1>2, <1>3, <1>4

LEMMA TrimmedPart == \A S, v : Trimmed(S, v) \subseteq S
BY DEF Trimmed

\* bus.send.
LEMMA PublishTyped ==
  ASSUME TypeOK, NEW run \in Runs, Publish(run)
  PROVE  /\ sent' \in Seq(Runs)
         /\ sent' = sent \/ (sent' = Append(sent, run) /\ Len(sent') = Len(sent) + 1)
<1>1. CASE sent' = sent
  BY <1>1 DEF TypeOK
<1>2. CASE sent' = Append(sent, run)
  BY <1>2, AppendProperties DEF TypeOK
<1> QED
  BY <1>1, <1>2 DEF Publish

LEMMA SentLength ==
  ASSUME TypeOK
  PROVE  /\ Len(sent) \in Nat /\ DOMAIN sent = 1..Len(sent)
         /\ Oldest \in Nat /\ 1 <= Oldest /\ Oldest <= Len(sent) + 1
         /\ \A i \in 1..Len(sent) : sent[i] \in Runs
<1>1. /\ Len(sent) \in Nat /\ DOMAIN sent = 1..Len(sent)
      /\ \A i \in 1..Len(sent) : sent[i] \in Runs
  BY LenProperties, ElementOfSeq DEF TypeOK
<1> DEFINE n == Len(sent)
<1>2. Oldest \in Nat /\ 1 <= Oldest /\ Oldest <= Len(sent) + 1
  <2>1. Capacity \in Nat \ {0} /\ n \in Nat
    BY <1>1, RunFeedAssumption
  <2>2. Oldest = IF n > Capacity THEN n - Capacity + 1 ELSE 1
    BY DEF Oldest
  <2> HIDE DEF n
  <2>3. Oldest \in Nat /\ 1 <= Oldest /\ Oldest <= n + 1
    BY <2>1, <2>2
  <2> QED
    BY <2>3 DEF n
<1> QED
  BY <1>1, <1>2

LEMMA InsertShape ==
  ASSUME TypeOK, NEW t \in Tasks, NEW p \in Programs, Insert(t, p)
  PROVE  \E run \in Runs :
           /\ At(t, "tick") /\ task[t].run \in Hand
           /\ run.id = task[t].run.id /\ run.vigy = task[t].run.vigy
           /\ Row(run) \in Runs /\ Row(run).id = run.id /\ Row(run).vigy = run.vigy
           /\ \/ /\ rows' = Trimmed(rows \cup {Row(run)}, run.vigy)
                 /\ fate' = [fate EXCEPT ![run.id] = "kept"]
              \/ /\ rows' \in {rows, rows \cup {Row(run)}}
                 /\ fate' = [fate EXCEPT ![run.id] = "error"]
           /\ Becomes(t, "send", run)
           /\ UNCHANGED <<vigies, minted, sent, rx, answered>>
<1> DEFINE run == Completed(task[t].run, p)
<1>1. At(t, "tick") /\ task[t].run \in Hand
  BY DEF Insert, TypeOK
<1>2. /\ run \in Runs /\ Row(run) \in Runs
      /\ run.id = task[t].run.id /\ run.vigy = task[t].run.vigy
      /\ Row(run).id = run.id /\ Row(run).vigy = run.vigy
  BY <1>1, CompletedTyped
<1>3. /\ \/ /\ rows' = Trimmed(rows \cup {Row(run)}, run.vigy)
            /\ fate' = [fate EXCEPT ![run.id] = "kept"]
         \/ /\ rows' \in {rows, rows \cup {Row(run)}}
            /\ fate' = [fate EXCEPT ![run.id] = "error"]
      /\ Becomes(t, "send", run)
      /\ UNCHANGED <<vigies, minted, sent, rx, answered>>
  BY DEF Insert
<1> HIDE DEF run
<1> QED
  BY <1>1, <1>2, <1>3

LEMMA ElsewhereShape ==
  ASSUME TypeOK, NEW v \in Vigies, NEW p \in Does[v], Elsewhere(v, p)
  PROVE  \E run \in Runs :
           /\ run.id = minted + 1 /\ minted + 1 \in RunIds /\ run.vigy = v
           /\ run \in Runs /\ run.id = minted + 1 /\ run.vigy = v
           /\ rows' = Trimmed(rows \cup {run}, v) /\ minted' = minted + 1
           /\ fate' = [fate EXCEPT ![run.id] = "kept"]
           /\ UNCHANGED <<vigies, task, sent, rx, answered>>
<1> DEFINE hand == [id |-> minted + 1, vigy |-> v]
           done == Completed(hand, p)
<1>1. hand \in Hand /\ hand.id = minted + 1 /\ hand.vigy = v /\ minted + 1 \in RunIds
  BY DEF Elsewhere, Hand
<1>2. /\ done.id = minted + 1 /\ Row(done) \in Runs
      /\ Row(done).id = minted + 1 /\ Row(done).vigy = v
  <2> HIDE DEF hand
  <2> QED
    BY <1>1, ProgramsOf, CompletedTyped
<1>3. /\ rows' = Trimmed(rows \cup {Row(done)}, v) /\ minted' = minted + 1
      /\ fate' = [fate EXCEPT ![done.id] = "kept"]
      /\ UNCHANGED <<vigies, task, sent, rx, answered>>
  BY DEF Elsewhere
<1> HIDE DEF done
<1> QED
  BY <1>1, <1>2, <1>3

LEMMA TypeStep == TypeOK /\ [Next]_vars => TypeOK'
<1> SUFFICES ASSUME TypeOK, [Next]_vars PROVE TypeOK'
  OBVIOUS
<1>t. /\ task \in [Tasks -> TaskType]
      /\ \A u \in Tasks : /\ task[u].pc = "tick" => task[u].run \in Hand
                          /\ task[u].pc = "send" => task[u].run \in Runs
  BY DEF TypeOK, TaskType, At
<1>m. minted \in Nat
  BY RunIdsAre DEF TypeOK
\* It is enough to type what a step changes.
<1>0. ASSUME task' \in [Tasks -> TaskType],
             \A u \in Tasks : /\ task'[u].pc = "tick" => task'[u].run \in Hand
                              /\ task'[u].pc = "send" => task'[u].run \in Runs,
             vigies' \subseteq Vigies, minted' \in RunIds \cup {0}, rows' \subseteq Runs,
             sent' \in Seq(Runs), Len(sent) <= Len(sent'),
             fate' \in [RunIds -> {"none", "kept", "error"}], answered' \subseteq Runs,
             UNCHANGED rx
      PROVE  TypeOK'
  <2>1. Len(sent) \in Nat /\ Len(sent') \in Nat
    BY <1>0, LenProperties DEF TypeOK
  <2>2. \A s \in Subscribers : rx'[s].next \in 1..(Len(sent') + 1)
    <3>1. \A s \in Subscribers : rx[s].next \in 1..(Len(sent) + 1)
      BY DEF TypeOK
    <3>2. 1..(Len(sent) + 1) \subseteq 1..(Len(sent') + 1)
      BY <1>0, <2>1
    <3> QED
      BY <1>0, <3>1, <3>2
  <2>3. rx' \in [Subscribers -> RxType]
    BY <1>0 DEF TypeOK, RxType
  <2> QED
    BY <1>0, <2>2, <2>3 DEF TypeOK, TaskType, RxType, At
<1>l. Len(sent) <= Len(sent)
  BY SentLength
<1>1. ASSUME NEW v \in Vigies, Register(v) \/ Delete(v) PROVE TypeOK'
  <2>1. \E pc \in {"none", "rest"} : Becomes(v, pc, NoRun)
    BY <1>1 DEF Register, Delete
  <2>2. vigies' \subseteq Vigies /\ UNCHANGED <<minted, rows, sent, rx, fate, answered>>
    BY <1>1 DEF Register, Delete, TypeOK
  <2>3. /\ task' \in [Tasks -> TaskType]
        /\ \A u \in Tasks : /\ task'[u].pc = "tick" => task'[u].run \in Hand
                            /\ task'[u].pc = "send" => task'[u].run \in Runs
    BY <2>1, BecomesTyped, TasksAre
  <2> QED
    BY <1>0, <1>l, <2>2, <2>3 DEF TypeOK
<1>2. ASSUME NEW t \in Tasks, NEW v \in Vigies, Start(t, v) PROVE TypeOK'
  <2>1. [id |-> minted', vigy |-> v] \in Hand /\ minted' \in RunIds
    BY <1>2 DEF Start, Hand
  <2>2. /\ task' \in [Tasks -> TaskType]
        /\ \A u \in Tasks : /\ task'[u].pc = "tick" => task'[u].run \in Hand
                            /\ task'[u].pc = "send" => task'[u].run \in Runs
    BY <1>2, <2>1, BecomesTyped DEF Start
  <2> QED
    BY <1>0, <1>2, <1>l, <2>1, <2>2 DEF Start, TypeOK
<1>3. ASSUME NEW t \in Tasks, NEW p \in Programs, Insert(t, p) PROVE TypeOK'
  <2> PICK run \in Runs :
        /\ Row(run) \in Runs
        /\ \/ /\ rows' = Trimmed(rows \cup {Row(run)}, run.vigy)
              /\ fate' = [fate EXCEPT ![run.id] = "kept"]
           \/ /\ rows' \in {rows, rows \cup {Row(run)}}
              /\ fate' = [fate EXCEPT ![run.id] = "error"]
        /\ Becomes(t, "send", run)
        /\ UNCHANGED <<vigies, minted, sent, rx, answered>>
    BY <1>3, InsertShape
  <2>1. rows' \subseteq Runs
    BY TrimmedPart DEF TypeOK
  <2>2. fate' \in [RunIds -> {"none", "kept", "error"}]
    BY DEF TypeOK
  <2>3. /\ task' \in [Tasks -> TaskType]
        /\ \A u \in Tasks : /\ task'[u].pc = "tick" => task'[u].run \in Hand
                            /\ task'[u].pc = "send" => task'[u].run \in Runs
    BY BecomesTyped
  <2> QED
    BY <1>0, <1>l, <2>1, <2>2, <2>3 DEF TypeOK
<1>4. ASSUME NEW v \in Vigies, NEW p \in Does[v], Elsewhere(v, p) PROVE TypeOK'
  <2> PICK run \in Runs :
        /\ minted + 1 \in RunIds
        /\ rows' = Trimmed(rows \cup {run}, v) /\ minted' = minted + 1
        /\ fate' = [fate EXCEPT ![run.id] = "kept"]
        /\ UNCHANGED <<vigies, task, sent, rx, answered>>
    BY <1>4, ElsewhereShape
  <2>1. rows' \subseteq Runs
    BY TrimmedPart DEF TypeOK
  <2>2. fate' \in [RunIds -> {"none", "kept", "error"}]
    BY DEF TypeOK
  <2> QED
    BY <1>0, <1>l, <1>t, <2>1, <2>2 DEF TypeOK
<1>5. ASSUME NEW t \in Tasks, NEW pc \in {"none", "rest"}, At(t, "send"),
             Becomes(t, pc, NoRun), Publish(task[t].run) \/ UNCHANGED sent,
             answered' \in {answered, answered \cup {task[t].run}},
             UNCHANGED <<vigies, minted, rows, rx, fate>>
      PROVE  TypeOK'
  <2>1. task[t].run \in Runs
    BY <1>5 DEF TypeOK
  <2>2. sent' \in Seq(Runs) /\ Len(sent) <= Len(sent')
    <3>1. CASE UNCHANGED sent
      BY <1>l, <3>1 DEF TypeOK
    <3>2. CASE Publish(task[t].run)
      BY <1>l, <2>1, <3>2, PublishTyped, SentLength
    <3> QED
      BY <1>5, <3>1, <3>2
  <2>3. /\ task' \in [Tasks -> TaskType]
        /\ \A u \in Tasks : /\ task'[u].pc = "tick" => task'[u].run \in Hand
                            /\ task'[u].pc = "send" => task'[u].run \in Runs
    BY <1>5, BecomesTyped
  <2> QED
    BY <1>0, <1>5, <2>1, <2>2, <2>3 DEF TypeOK
<1>6. ASSUME NEW v \in Vigies, LoopSend(v) PROVE TypeOK'
  BY <1>5, <1>6, TasksAre DEF LoopSend
<1>7. ASSUME NEW c \in Callers, CallSend(c) PROVE TypeOK'
  <2>1. /\ At(c, "send") /\ Becomes(c, "none", NoRun)
        /\ Publish(task[c].run) \/ UNCHANGED sent
        /\ answered' \in {answered, answered \cup {task[c].run}}
        /\ UNCHANGED <<vigies, minted, rows, rx, fate>>
    BY <1>7 DEF CallSend
  <2> QED
    BY <1>5, <2>1, TasksAre
<1>8. ASSUME NEW c \in Callers, Abandon(c) PROVE TypeOK'
  <2>1. /\ task' \in [Tasks -> TaskType]
        /\ \A u \in Tasks : /\ task'[u].pc = "tick" => task'[u].run \in Hand
                            /\ task'[u].pc = "send" => task'[u].run \in Runs
    BY <1>8, BecomesTyped, TasksAre DEF Abandon
  <2> QED
    BY <1>0, <1>8, <1>l, <2>1 DEF Abandon, TypeOK
<1>9. ASSUME NEW s \in Subscribers, NEW new \in RxType, rx' = [rx EXCEPT ![s] = new],
             new.next \in 1..(Len(sent) + 1),
             UNCHANGED <<vigies, task, minted, rows, sent, fate, answered>>
      PROVE  TypeOK'
  <2>1. rx' \in [Subscribers -> RxType]
    BY <1>9 DEF TypeOK, RxType
  <2>2. \A u \in Subscribers : rx'[u].next \in 1..(Len(sent) + 1)
    BY <1>9 DEF TypeOK
  <2> QED
    BY <1>9, <2>1, <2>2 DEF TypeOK, RxType, At
<1>10. ASSUME NEW s \in Subscribers, Subscribe(s) \/ Leave(s) \/ Lag(s) \/ Recv(s)
       PROVE  TypeOK'
  <2> DEFINE r == rx[s]
  <2>0. r \in RxType /\ r.next \in 1..(Len(sent) + 1) /\ Len(sent) \in Nat
    BY SentLength DEF TypeOK, RxType
  <2>1. CASE Subscribe(s)
    <3> DEFINE new == [Off EXCEPT !.on = TRUE, !.next = Len(sent) + 1]
    <3>1. new \in RxType /\ new.next = Len(sent) + 1
      <4>1. Len(sent) + 1 \in Nat
        BY <2>0
      <4> QED
        BY <4>1, OffTyped, ReceiverFields DEF RxType
    <3>2. rx' = [rx EXCEPT ![s] = new]
      BY <2>1 DEF Subscribe
    <3> HIDE DEF new
    <3>3. Len(sent) + 1 \in 1..(Len(sent) + 1)
      BY <2>0
    <3>4. UNCHANGED <<vigies, task, minted, rows, sent, fate, answered>>
      BY <2>1 DEF Subscribe
    <3> QED
      BY <1>9, <3>1, <3>2, <3>3, <3>4
  <2>2. CASE Leave(s)
    <3>1. 1 \in 1..(Len(sent) + 1)
      BY <2>0
    <3>2. /\ rx' = [rx EXCEPT ![s] = Off]
          /\ UNCHANGED <<vigies, task, minted, rows, sent, fate, answered>>
      BY <2>2 DEF Leave
    <3>3. Off.next \in 1..(Len(sent) + 1) /\ Off \in RxType
      BY <3>1, OffTyped
    <3> QED
      BY <1>9, <3>2, <3>3
  <2>3. CASE Lag(s)
    <3> DEFINE new == [r EXCEPT !.lost = @ + (Oldest - r.next), !.next = Oldest]
    <3>1. r.next < Oldest /\ Oldest \in Nat /\ 1 <= Oldest /\ Oldest <= Len(sent) + 1
      BY <2>3, SentLength DEF Lag
    <3>2. new \in RxType /\ new.next = Oldest
      <4>1. r.lost + (Oldest - r.next) \in Nat
        <5>1. r.lost \in Nat /\ r.next \in Nat
          BY <2>0 DEF RxType
        <5> QED
          BY <3>1, <5>1
      <4>2. new = [r EXCEPT !.lost = r.lost + (Oldest - r.next), !.next = Oldest]
        BY DEF RxType
      <4> QED
        BY <2>0, <3>1, <4>1, <4>2, ReceiverFields DEF RxType
    <3>3. rx' = [rx EXCEPT ![s] = new]
      BY <2>3 DEF Lag
    <3>4. Oldest \in 1..(Len(sent) + 1)
      BY <2>0, <3>1
    <3> HIDE DEF new
    <3> QED
      BY <1>9, <2>3, <3>2, <3>3, <3>4 DEF Lag
  <2>4. CASE Recv(s)
    <3> DEFINE run == sent[r.next]
               show == IF run.vigy \in Filter[s] THEN Append(r.shown, run) ELSE r.shown
               new == [r EXCEPT !.next = @ + 1, !.shown = show]
    <3>1. r.next \in Oldest..Len(sent) /\ r.next + 1 \in 1..(Len(sent) + 1)
      BY <2>0, <2>4, SentLength DEF Recv
    <3>2. run \in Runs
      BY <2>0, <3>1, SentLength
    <3>3. show \in Seq(Runs)
      BY <2>0, <3>2, AppendProperties DEF RxType
    <3>4. rx' = [rx EXCEPT ![s] = new]
      BY <2>4 DEF Recv
    <3> HIDE DEF show
    <3>5. new \in RxType /\ new.next = r.next + 1
      <4>1. r.next + 1 \in Nat
        BY <2>0
      <4>2. new = [r EXCEPT !.next = r.next + 1, !.shown = show]
        OBVIOUS
      <4> QED
        BY <2>0, <3>3, <4>1, <4>2, ReceiverFields DEF RxType
    <3> HIDE DEF new
    <3> QED
      BY <1>9, <2>4, <3>1, <3>4, <3>5 DEF Recv
  <2> QED
    BY <1>10, <2>1, <2>2, <2>3, <2>4
<1>11. CASE UNCHANGED vars
  BY <1>0, <1>11, <1>l, <1>t DEF vars, TypeOK
<1> QED
  BY <1>1, <1>2, <1>3, <1>4, <1>6, <1>7, <1>8, <1>10, <1>11, TasksAre
     DEF Next, LoopStart, CallStart

LEMMA TypeInit == Init => TypeOK
<1> SUFFICES ASSUME Init PROVE TypeOK
  OBVIOUS
<1>1. <<>> \in Seq(Runs) /\ Len(<<>>) = 0
  BY EmptySeq
<1>2. NoTask \in TaskType /\ NoTask.pc = "none"
  BY DEF NoTask, Task, TaskType
<1>3. \A t \in Tasks : task[t] = NoTask
  BY DEF Init
<1>4. /\ task \in [Tasks -> TaskType]
      /\ \A t \in Tasks : ~At(t, "tick") /\ ~At(t, "send")
  BY <1>2, <1>3 DEF Init, At
<1>5. \A s \in Subscribers : rx[s].next = 1
  BY OffTyped DEF Init
<1>6. rx \in [Subscribers -> RxType]
  BY OffTyped DEF Init
<1>7. \A s \in Subscribers : rx[s].next \in 1..(Len(sent) + 1)
  BY <1>1, <1>5 DEF Init
<1> QED
  BY <1>1, <1>4, <1>6, <1>7 DEF Init, TypeOK, TaskType, RxType

\* Every reachable state is well typed: what is in the store, on the bus and in a
\* tail's hands are runs of registered programs, and no receiver is ahead of the
\* bus.
THEOREM TypeCorrect == Spec => []TypeOK
BY TypeInit, TypeStep, PTL DEF Spec

(***************************************************************************)
(* A run and its number                                                    *)
(***************************************************************************)
InHand(t) == task[t].pc \in {"tick", "send"}
IdOf(t) == task[t].run.id

\* Each run in a task's hands is the only one of its number, and its number is
\* new to insert_run until it has had its say.
HandsApart ==
  /\ \A t \in Tasks : InHand(t) => IdOf(t) \in 1..minted
  /\ \A t, u \in Tasks : InHand(t) /\ InHand(u) /\ t # u => IdOf(t) # IdOf(u)
  /\ \A t \in Tasks : /\ At(t, "tick") => fate[IdOf(t)] = "none"
                      /\ At(t, "send") => fate[IdOf(t)] # "none"
  /\ \A i \in RunIds : i > minted => fate[i] = "none"

\* What is recorded under the number of a run in hand is that run.
RowsKnown ==
  /\ \A r \in rows : r.id \in 1..minted
  /\ \A t \in Tasks, r \in rows :
       InHand(t) /\ r.id = IdOf(t) => At(t, "send") /\ r = Row(task[t].run)

\* What was sent had its say, is in nobody's hands and is recorded as it was sent.
SentKnown ==
  /\ \A i \in DOMAIN sent : sent[i].id \in 1..minted /\ fate[sent[i].id] # "none"
  /\ \A i \in DOMAIN sent, t \in Tasks : InHand(t) => IdOf(t) # sent[i].id
  /\ \A i \in DOMAIN sent, r \in rows : r.id = sent[i].id => r = Row(sent[i])
  /\ \A i, j \in DOMAIN sent : sent[i].id = sent[j].id => i = j

NumberInv == TypeOK /\ HandsApart /\ RowsKnown /\ SentKnown

LEMMA NumberInit == Init => NumberInv
<1> SUFFICES ASSUME Init PROVE NumberInv
  OBVIOUS
<1>1. \A t \in Tasks : task[t].pc = "none"
  BY DEF Init, NoTask, Task
<1>2. DOMAIN sent = {}
  BY DEF Init
<1> QED
  BY <1>1, <1>2, TypeInit DEF Init, NumberInv, HandsApart, RowsKnown, SentKnown, InHand, At

\* A step that lets go of a task's run, or of nothing.
LEMMA NumberLetGo ==
  ASSUME NumberInv, TypeOK', UNCHANGED <<minted, rows, sent, fate>>,
         \A t \in Tasks : task'[t] = task[t] \/ ~InHand(t)'
  PROVE  NumberInv'
<1>1. \A t \in Tasks : InHand(t)' => task'[t] = task[t] /\ InHand(t)
  BY DEF InHand
<1>2. HandsApart'
  BY <1>1 DEF NumberInv, HandsApart, InHand, IdOf, At
<1>3. RowsKnown'
  BY <1>1 DEF NumberInv, RowsKnown, InHand, IdOf, At
<1>4. SentKnown'
  BY <1>1 DEF NumberInv, SentKnown, InHand, IdOf, At
<1> QED
  BY <1>2, <1>3, <1>4 DEF NumberInv

LEMMA NumberStep == NumberInv /\ [Next]_vars => NumberInv'
<1> SUFFICES ASSUME NumberInv, [Next]_vars PROVE NumberInv'
  OBVIOUS
<1>0. TypeOK /\ TypeOK' /\ minted \in Nat /\ minted' \in Nat
  BY TypeStep, RunIdsAre DEF NumberInv, TypeOK
<1>1. ASSUME NEW t \in Tasks, NEW pc \in {"none", "rest"}, Becomes(t, pc, NoRun),
             UNCHANGED <<minted, rows, sent, fate>>
      PROVE  NumberInv'
  <2>1. \A u \in Tasks : task'[u] = task[u] \/ ~InHand(u)'
    BY <1>0, <1>1, BecomesShape DEF InHand
  <2> QED
    BY <1>0, <1>1, <2>1, NumberLetGo
<1>2. ASSUME NEW v \in Vigies, Register(v) \/ Delete(v) PROVE NumberInv'
  BY <1>1, <1>2, TasksAre DEF Register, Delete
<1>3. ASSUME NEW c \in Callers, Abandon(c) PROVE NumberInv'
  BY <1>1, <1>3, TasksAre DEF Abandon
<1>4. CASE UNCHANGED <<task, minted, rows, sent, fate>>
  BY <1>0, <1>4, NumberLetGo
\* A new number.
<1>5. ASSUME NEW t \in Tasks, NEW v \in Vigies, Start(t, v) PROVE NumberInv'
  <2>1. /\ task'[t].pc = "tick" /\ task'[t].run = [id |-> minted + 1, vigy |-> v]
        /\ \A u \in Tasks : u # t => task'[u] = task[u]
        /\ minted' = minted + 1 /\ UNCHANGED <<rows, sent, fate>>
    BY <1>0, <1>5, BecomesShape DEF Start
  <2>2. task'[t].run.id = minted + 1
    BY <2>1
  <2>3. 1..minted \subseteq 1..minted' /\ minted + 1 \notin 1..minted /\ minted + 1 \in 1..minted'
    BY <1>0, <2>1
  <2>4. fate[minted + 1] = "none" /\ \A i \in RunIds : i > minted' => fate[i] = "none"
    <3>1. minted + 1 \in RunIds
      BY <1>5 DEF Start
    <3>2. \A i \in RunIds : i \in Nat
      BY RunIdsAre
    <3> QED
      BY <1>0, <2>1, <3>1, <3>2 DEF NumberInv, HandsApart
  <2>5. HandsApart'
    BY <2>1, <2>2, <2>3, <2>4 DEF NumberInv, HandsApart, InHand, IdOf, At
  <2>6. RowsKnown'
    BY <2>1, <2>2, <2>3 DEF NumberInv, RowsKnown, InHand, IdOf, At
  <2>7. SentKnown'
    BY <2>1, <2>2, <2>3 DEF NumberInv, SentKnown, InHand, IdOf, At
  <2> QED
    BY <1>0, <2>5, <2>6, <2>7 DEF NumberInv
\* The run is recorded, or is not, under its number.
<1>6. ASSUME NEW t \in Tasks, NEW p \in Programs, Insert(t, p) PROVE NumberInv'
  <2> PICK run \in Runs :
        /\ At(t, "tick") /\ run.id = IdOf(t)
        /\ Row(run).id = run.id
        /\ rows' \subseteq rows \cup {Row(run)}
        /\ \E f \in {"kept", "error"} : fate' = [fate EXCEPT ![run.id] = f]
        /\ Becomes(t, "send", run)
        /\ UNCHANGED <<minted, sent>>
    BY <1>0, <1>6, InsertShape, TrimmedPart DEF IdOf
  <2>1. /\ task'[t].pc = "send" /\ task'[t].run = run
        /\ \A u \in Tasks : u # t => task'[u] = task[u]
    BY <1>0, BecomesShape
  <2>2. InHand(t) /\ IdOf(t)' = IdOf(t) /\ run.id \in RunIds
    BY <1>0, <2>1, RunIdsAre DEF InHand, At, IdOf, NumberInv, HandsApart, TypeOK
  <2>3. /\ fate'[run.id] # "none"
        /\ \A i \in RunIds : i # run.id => fate'[i] = fate[i]
    BY <1>0, <2>2 DEF TypeOK
  <2>4. 1..minted \subseteq RunIds
    BY <1>0, RunIdsAre DEF TypeOK
  <2>5. \A u \in Tasks : u # t => (InHand(u)' <=> InHand(u)) /\ IdOf(u)' = IdOf(u)
                                  /\ (InHand(u) => IdOf(u) # run.id /\ IdOf(u) \in RunIds)
    BY <2>1, <2>2, <2>4 DEF InHand, IdOf, NumberInv, HandsApart
  <2>6. HandsApart'
    <3>1. \A u \in Tasks : InHand(u)' => IdOf(u)' \in 1..minted'
      BY <2>1, <2>2, <2>5 DEF NumberInv, HandsApart
    <3>2. \A u, w \in Tasks : InHand(u)' /\ InHand(w)' /\ u # w => IdOf(u)' # IdOf(w)'
      BY <2>1, <2>2, <2>5 DEF NumberInv, HandsApart
    <3>3. ASSUME NEW u \in Tasks
          PROVE  /\ At(u, "tick")' => fate'[IdOf(u)'] = "none"
                 /\ At(u, "send")' => fate'[IdOf(u)'] # "none"
      <4>1. CASE u = t
        BY <2>1, <2>2, <2>3, <4>1 DEF At
      <4>2. CASE u # t
        <5>1. (At(u, "tick") \/ At(u, "send")) => fate'[IdOf(u)] = fate[IdOf(u)]
          BY <2>3, <2>5, <4>2 DEF InHand, At
        <5> QED
          BY <2>1, <2>5, <4>2, <5>1 DEF NumberInv, HandsApart, At
      <4> QED
        BY <4>1, <4>2
    <3>4. \A i \in RunIds : i > minted' => fate'[i] = "none"
      <4>1. run.id \in 1..minted
        BY <2>2 DEF NumberInv, HandsApart
      <4>2. ~(run.id > minted)
        BY <1>0, <4>1
      <4> QED
        BY <2>3, <4>2 DEF NumberInv, HandsApart
    <3> QED
      BY <3>1, <3>2, <3>3, <3>4 DEF HandsApart
  <2>7. RowsKnown'
    <3>1. \A r \in rows' : r.id \in 1..minted'
      BY <2>2 DEF NumberInv, RowsKnown, HandsApart
    <3>2. ASSUME NEW u \in Tasks, NEW r \in rows', InHand(u)', r.id = IdOf(u)'
          PROVE  At(u, "send")' /\ r = Row(task'[u].run)
      <4>1. CASE u = t /\ r \in rows
        BY <2>2, <3>2, <4>1 DEF NumberInv, RowsKnown, At
      <4>2. CASE u = t /\ r = Row(run)
        BY <2>1, <4>2 DEF At
      <4>3. CASE u # t
        <5>1. r \in rows
          BY <2>5, <3>2, <4>3
        <5> QED
          BY <2>1, <2>5, <3>2, <4>3, <5>1 DEF NumberInv, RowsKnown, At
      <4> QED
        BY <4>1, <4>2, <4>3
    <3> QED
      BY <3>1, <3>2 DEF RowsKnown
  <2>8. SentKnown'
    <3>0. \A i \in DOMAIN sent : /\ sent[i].id # run.id
                                 /\ sent[i].id \in RunIds /\ sent[i].id \in 1..minted
      BY <2>2, <2>4 DEF NumberInv, SentKnown
    <3>1. \A i \in DOMAIN sent : fate'[sent[i].id] = fate[sent[i].id]
      BY <2>3, <3>0
    <3>2. \A i \in DOMAIN sent, u \in Tasks : InHand(u)' => IdOf(u)' # sent[i].id
      BY <2>2, <2>5, <3>0 DEF NumberInv, SentKnown
    <3>3. \A i \in DOMAIN sent, r \in rows' : r.id = sent[i].id => r = Row(sent[i])
      BY <3>0 DEF NumberInv, SentKnown
    <3> QED
      BY <3>0, <3>1, <3>2, <3>3 DEF NumberInv, SentKnown
  <2> QED
    BY <1>0, <2>6, <2>7, <2>8 DEF NumberInv
<1>7. ASSUME NEW v \in Vigies, NEW p \in Does[v], Elsewhere(v, p) PROVE NumberInv'
  <2> PICK run \in Runs :
        /\ run.id = minted + 1 /\ minted + 1 \in RunIds
        /\ rows' \subseteq rows \cup {run} /\ minted' = minted + 1
        /\ fate' = [fate EXCEPT ![run.id] = "kept"]
        /\ UNCHANGED <<task, sent>>
    BY <1>0, <1>7, ElsewhereShape, TrimmedPart
  <2>1. 1..minted \subseteq 1..minted' /\ minted + 1 \notin 1..minted /\ minted + 1 \in 1..minted'
    BY <1>0
  <2>2. \A i \in RunIds : i # run.id => fate'[i] = fate[i]
    BY <1>0 DEF TypeOK
  <2>3. 1..minted \subseteq RunIds /\ \A i \in RunIds : i \in Nat
    BY <1>0, RunIdsAre DEF TypeOK
  <2>4. \A i \in 1..minted : fate'[i] = fate[i]
    BY <2>1, <2>2, <2>3
  <2>5. \A i \in RunIds : i > minted' => fate'[i] = "none"
    BY <1>0, <2>2, <2>3 DEF NumberInv, HandsApart
  <2>6. HandsApart'
    <3>1. \A t \in Tasks : InHand(t) => fate'[IdOf(t)] = fate[IdOf(t)]
      BY <2>4 DEF NumberInv, HandsApart
    <3> QED
      BY <2>1, <2>5, <3>1 DEF NumberInv, HandsApart, InHand, IdOf, At
  <2>7. RowsKnown'
    BY <2>1 DEF NumberInv, HandsApart, RowsKnown, InHand, IdOf, At
  <2>8. SentKnown'
    <3>1. \A i \in DOMAIN sent : fate'[sent[i].id] = fate[sent[i].id]
      BY <2>4 DEF NumberInv, SentKnown
    <3> QED
      BY <2>1, <3>1 DEF NumberInv, SentKnown, InHand, IdOf, At
  <2> QED
    BY <1>0, <2>6, <2>7, <2>8 DEF NumberInv
\* A run goes from its task's hands to the bus.
<1>8. ASSUME NEW t \in Tasks, NEW pc \in {"none", "rest"}, At(t, "send"),
             Becomes(t, pc, NoRun), Publish(task[t].run), UNCHANGED <<minted, rows, fate>>
      PROVE  NumberInv'
  <2> DEFINE run == task[t].run  n == Len(sent)
  <2>1. /\ task'[t].pc = pc /\ \A u \in Tasks : u # t => task'[u] = task[u]
    BY <1>0, <1>8, BecomesShape
  <2>2. run \in Runs /\ InHand(t) /\ run.id = IdOf(t)
    BY <1>0, <1>8 DEF InHand, At, IdOf, TypeOK
  <2>3. CASE sent' = sent
    <3>1. \A u \in Tasks : task'[u] = task[u] \/ ~InHand(u)'
      BY <2>1 DEF InHand
    <3> QED
      BY <1>0, <1>8, <2>3, <3>1, NumberLetGo
  <2>4. CASE sent' = Append(sent, run)
    <3>1. /\ n \in Nat /\ DOMAIN sent = 1..n /\ DOMAIN sent' = 1..(n + 1)
          /\ \A i \in 1..n : sent'[i] = sent[i]
          /\ sent'[n + 1] = run
      BY <1>0, <2>2, <2>4, SentLength, AppendProperties DEF TypeOK
    <3>2. \A u \in Tasks : InHand(u)' => u # t /\ task'[u] = task[u] /\ InHand(u)
      BY <2>1 DEF InHand
    <3>3. HandsApart'
      BY <1>8, <3>2 DEF NumberInv, HandsApart, InHand, IdOf, At
    <3>4. RowsKnown'
      BY <1>8, <3>2 DEF NumberInv, RowsKnown, InHand, IdOf, At
    <3>5. \A i \in 1..(n + 1) : (i \in 1..n /\ sent'[i] = sent[i]) \/ (i = n + 1 /\ sent'[i] = run)
      BY <3>1
    <3>6. /\ run.id \in 1..minted /\ fate[run.id] # "none"
          /\ \A r \in rows : r.id = run.id => r = Row(run)
          /\ \A i \in 1..n : sent[i].id # run.id
          /\ \A u \in Tasks : InHand(u)' => IdOf(u)' = IdOf(u) /\ IdOf(u) # run.id
      BY <1>8, <2>2, <3>1, <3>2 DEF NumberInv, HandsApart, RowsKnown, SentKnown, IdOf
    <3>7. SentKnown'
      <4>1. \A i \in DOMAIN sent' : sent'[i].id \in 1..minted' /\ fate'[sent'[i].id] # "none"
        BY <1>8, <3>1, <3>5, <3>6 DEF NumberInv, SentKnown
      <4>2. \A i \in DOMAIN sent', u \in Tasks : InHand(u)' => IdOf(u)' # sent'[i].id
        BY <3>1, <3>2, <3>5, <3>6 DEF NumberInv, SentKnown
      <4>3. \A i \in DOMAIN sent', r \in rows' : r.id = sent'[i].id => r = Row(sent'[i])
        BY <1>8, <3>1, <3>5, <3>6 DEF NumberInv, SentKnown
      <4>4. \A i, j \in DOMAIN sent' : sent'[i].id = sent'[j].id => i = j
        BY <3>1, <3>5, <3>6 DEF NumberInv, SentKnown
      <4> QED
        BY <4>1, <4>2, <4>3, <4>4 DEF SentKnown
    <3> QED
      BY <1>0, <3>3, <3>4, <3>7 DEF NumberInv
  <2> QED
    BY <1>8, <2>3, <2>4 DEF Publish
<1>9. ASSUME NEW v \in Vigies, LoopSend(v) PROVE NumberInv'
  BY <1>8, <1>9, TasksAre DEF LoopSend
<1>10. ASSUME NEW c \in Callers, CallSend(c) PROVE NumberInv'
  <2>1. CASE Publish(task[c].run)
    BY <1>8, <1>10, <2>1, TasksAre DEF CallSend
  <2>2. CASE UNCHANGED sent
    BY <1>1, <1>10, <2>2, TasksAre DEF CallSend
  <2> QED
    BY <1>10, <2>1, <2>2 DEF CallSend
<1>11. ASSUME NEW s \in Subscribers, Subscribe(s) \/ Leave(s) \/ Lag(s) \/ Recv(s)
       PROVE  NumberInv'
  BY <1>4, <1>11 DEF Subscribe, Leave, Lag, Recv
<1>12. CASE UNCHANGED vars
  BY <1>4, <1>12 DEF vars
<1> QED
  BY <1>2, <1>3, <1>5, <1>6, <1>7, <1>9, <1>10, <1>11, <1>12, TasksAre
     DEF Next, LoopStart, CallStart

LEMMA NumberInvariant == Spec => []NumberInv
BY NumberInit, NumberStep, PTL DEF Spec

\* What a tail shows can be looked up: a run is sent once, after insert_run, and
\* the store has it as it was sent or not at all, whether insert_run failed, the
\* call was dropped or the vigy deleted.
THEOREM HeardRunsAreKept == Spec => []HeardIsKept
<1>1. NumberInv => HeardIsKept
  BY DEF NumberInv, SentKnown, HeardIsKept
<1> QED
  BY <1>1, NumberInvariant, PTL

(***************************************************************************)
(* What a program emits                                                    *)
(***************************************************************************)
\* f[k] is what the first k calls of p, of n, have pushed.
Pushes(p, n, f) ==
  f = [k \in 0..n |-> IF k = 0 THEN <<>>
                      ELSE IF Emits(p[k]) THEN Append(f[k - 1], Emitted(p[k]))
                      ELSE f[k - 1]]

\* Of the shortest stretch of p that had no such f, all but the last call have.
LEMMA PushesExist ==
  ASSUME NEW p, NEW n \in Nat
  PROVE  \E f : Pushes(p, n, f)
<1> DEFINE Without == {k \in Nat : ~\E f : Pushes(p, k, f)}
<1> SUFFICES ASSUME Without # {} PROVE FALSE
  OBVIOUS
<1>1. PICK m \in Without : \A k \in Without : ~(<<k, m>> \in OpToRel(<, Nat))
  <2> HIDE DEF Without
  <2>1. Without \subseteq Nat
    BY DEF Without
  <2> QED
    BY <2>1, WFMin, NatLessThanWellFounded
<1>2. m \in Nat /\ ~\E f : Pushes(p, m, f)
  OBVIOUS
<1>3. CASE m = 0
  <2> DEFINE f == [k \in 0..m |-> <<>>]
  <2>1. Pushes(p, m, f)
    BY <1>3 DEF Pushes
  <2> QED
    BY <1>2, <2>1
<1>4. CASE m # 0
  <2>1. m - 1 \in Nat /\ m - 1 < m
    BY <1>2, <1>4
  <2>2. m - 1 \notin Without
    <3> HIDE DEF Without
    <3> QED
      BY <1>1, <1>2, <2>1 DEF OpToRel
  <2>3. PICK f : Pushes(p, m - 1, f)
    BY <2>1, <2>2
  <2> DEFINE last == IF Emits(p[m]) THEN Append(f[m - 1], Emitted(p[m])) ELSE f[m - 1]
             g == [k \in 0..m |-> IF k = m THEN last ELSE f[k]]
  <2>4. Pushes(p, m, g)
    <3>1. \A k \in 0..m : k # m => k \in 0..(m - 1)
      BY <1>2
    <3>2. \A k \in 0..m : k # 0 => k - 1 \in 0..(m - 1) /\ k - 1 \in 0..m /\ k - 1 # m
      BY <1>2
    <3>3. \A k \in 0..m : k # 0 => g[k - 1] = f[k - 1]
      BY <3>2
    <3>4. \A k \in 0..(m - 1) :
            f[k] = IF k = 0 THEN <<>>
                   ELSE IF Emits(p[k]) THEN Append(f[k - 1], Emitted(p[k])) ELSE f[k - 1]
      BY <2>3 DEF Pushes
    <3>5. g = [k \in 0..m |-> IF k = 0 THEN <<>>
                              ELSE IF Emits(p[k]) THEN Append(g[k - 1], Emitted(p[k]))
                              ELSE g[k - 1]]
      <4> DEFINE h == [k \in 0..m |-> IF k = 0 THEN <<>>
                              ELSE IF Emits(p[k]) THEN Append(g[k - 1], Emitted(p[k]))
                              ELSE g[k - 1]]
      <4>1. ASSUME NEW k \in 0..m PROVE g[k] = h[k]
        <5>1. CASE k = m
          BY <1>4, <3>3, <5>1
        <5>2. CASE k # m
          <6>1. k \in 0..(m - 1) /\ g[k] = f[k]
            BY <3>1, <5>2
          <6>2. CASE k = 0
            BY <3>4, <6>1, <6>2
          <6>3. CASE k # 0
            <7>1. g[k - 1] = f[k - 1]
              BY <3>3, <6>3
            <7> HIDE DEF g
            <7>2. h[k] = IF Emits(p[k]) THEN Append(g[k - 1], Emitted(p[k])) ELSE g[k - 1]
              BY <6>3
            <7> QED
              BY <3>4, <6>1, <6>3, <7>1, <7>2
          <6> QED
            BY <6>2, <6>3
        <5> QED
          BY <5>1, <5>2
      <4>2. DOMAIN g = 0..m /\ DOMAIN h = 0..m
        OBVIOUS
      <4>3. g = [k \in 0..m |-> g[k]] /\ h = [k \in 0..m |-> h[k]]
        OBVIOUS
      <4> HIDE DEF g, h
      <4>4. g = h
        BY <4>1, <4>3
      <4> QED
        BY <4>4 DEF h
    <3> HIDE DEF g
    <3> QED
      BY <3>5 DEF Pushes
  <2> QED
    BY <1>2, <2>4
<1> QED
  BY <1>3, <1>4

LEMMA BufferPushes ==
  ASSUME NEW S, NEW p \in Seq(S)
  PROVE  \E f : Pushes(p, Len(p), f) /\ Buffer(p) = f[Len(p)]
<1> DEFINE F == CHOOSE f : Pushes(p, Len(p), f)
<1>1. \E f : Pushes(p, Len(p), f)
  BY PushesExist, LenProperties
<1>2. Pushes(p, Len(p), F)
  BY <1>1
<1>3. Buffer(p) = F[Len(p)]
  BY DEF Buffer, Pushes
<1> QED
  BY <1>2, <1>3

\* A call's action has the kind the call names.
LEMMA EmittedNamed == \A c : Emitted(c).kind = Named(c)
<1> SUFFICES ASSUME NEW c PROVE Emitted(c).kind = Named(c)
  OBVIOUS
<1>1. CASE c.verb = "noop"
  BY <1>1 DEF Emitted, Named, Action
<1>2. CASE c.verb = "defer"
  BY <1>2 DEF Emitted, Named, Action
<1>3. CASE c.verb = "emit"
  BY <1>3 DEF Emitted, Named, Action
<1>4. CASE c.verb = "delete-action"
  BY <1>4 DEF Emitted, Named, Action
<1>5. CASE c.verb \notin {"noop", "defer", "emit", "delete-action"}
  BY <1>5 DEF Emitted, Named, Action
<1> QED
  BY <1>1, <1>2, <1>3, <1>4, <1>5

\* Positions in increasing order, and one more behind them.
Rising(at) == \A i, j \in DOMAIN at : i < j => at[i] < at[j]

OneMore(at, L, D, m, longer) ==
  /\ longer \in [1..(L + 1) -> D \cup {m}] /\ Rising(longer)
  /\ Range(longer) = Range(at) \cup {m}
  /\ longer[L + 1] = m /\ \A i \in 1..L : longer[i] = at[i]

\* Positions that rise go on rising with a later one.
LEMMA OneMoreRises ==
  ASSUME NEW L \in Nat, NEW D \in SUBSET Nat, NEW at \in [1..L -> D], Rising(at),
         NEW m \in Nat, \A d \in D : d < m
  PROVE  \E longer : OneMore(at, L, D, m, longer)
<1> DEFINE longer == [i \in 1..(L + 1) |-> IF i = L + 1 THEN m ELSE at[i]]
<1>1. /\ longer[L + 1] = m /\ DOMAIN longer = 1..(L + 1)
      /\ \A i \in 1..L : i \in 1..(L + 1) /\ longer[i] = at[i] /\ at[i] \in D
      /\ \A i \in 1..(L + 1) : i \in 1..L \/ i = L + 1
      /\ L + 1 \in 1..(L + 1)
  OBVIOUS
<1>2. longer \in [1..(L + 1) -> D \cup {m}]
  BY <1>1
<1> HIDE DEF longer
<1>3. ASSUME NEW i \in 1..(L + 1), NEW j \in 1..(L + 1), i < j
      PROVE  longer[i] < longer[j]
  <2>1. i \in 1..L
    BY <1>3
  <2>2. CASE j = L + 1
    BY <1>1, <2>1, <2>2
  <2>3. CASE j \in 1..L
    BY <1>1, <1>3, <2>1, <2>3 DEF Rising
  <2> QED
    BY <1>1, <2>2, <2>3
<1>4. Range(longer) = Range(at) \cup {m}
  <2>1. Range(longer) = {longer[i] : i \in 1..(L + 1)} /\ Range(at) = {at[i] : i \in 1..L}
    BY <1>1 DEF Range
  <2> QED
    BY <1>1, <2>1
<1>5. Rising(longer)
  BY <1>1, <1>3 DEF Rising
<1> QED
  BY <1>1, <1>2, <1>4, <1>5 DEF OneMore

\* acts are the actions of the first m calls of p.
EmittedBy(p, m, acts) ==
  \E calls \in [DOMAIN acts -> 1..m] :
    /\ Rising(calls)
    /\ Range(calls) = {n \in 1..m : Emits(p[n])}
    /\ \A i \in DOMAIN acts : acts[i].kind = Named(p[calls[i]])

LEMMA EmitsOneMore ==
  ASSUME NEW A, NEW acts \in Seq(A), NEW p, NEW m \in Nat \ {0},
         EmittedBy(p, m - 1, acts), Emits(p[m]), NEW a \in A, a.kind = Named(p[m])
  PROVE  EmittedBy(p, m, Append(acts, a))
<1> DEFINE L == Len(acts)
           more == Append(acts, a)
<1>1. /\ L \in Nat /\ DOMAIN acts = 1..L /\ DOMAIN more = 1..(L + 1)
      /\ more[L + 1] = a /\ \A i \in 1..L : more[i] = acts[i]
  BY AppendProperties, LenProperties
<1>2. PICK calls \in [1..L -> 1..(m - 1)] :
        /\ Rising(calls)
        /\ Range(calls) = {n \in 1..(m - 1) : Emits(p[n])}
        /\ \A i \in 1..L : acts[i].kind = Named(p[calls[i]])
  BY <1>1 DEF EmittedBy
<1> HIDE DEF L, more
<1>3. PICK longer : OneMore(calls, L, 1..(m - 1), m, longer)
  <2>1. 1..(m - 1) \in SUBSET Nat /\ m \in Nat /\ \A n \in 1..(m - 1) : n < m
    OBVIOUS
  <2> QED
    BY <1>1, <1>2, <2>1, OneMoreRises
<1>4. 1..(m - 1) \cup {m} = 1..m
  OBVIOUS
<1>5. Range(longer) = {n \in 1..m : Emits(p[n])}
  BY <1>2, <1>3, <1>4 DEF OneMore
<1>6. \A i \in 1..(L + 1) : more[i].kind = Named(p[longer[i]])
  <2>1. \A i \in 1..(L + 1) : i \in 1..L \/ i = L + 1
    BY <1>1
  <2> QED
    BY <1>1, <1>2, <1>3, <2>1 DEF OneMore
<1>7. EmittedBy(p, m, more)
  <2>1. /\ longer \in [DOMAIN more -> 1..m] /\ Rising(longer)
        /\ \A i \in DOMAIN more : more[i].kind = Named(p[longer[i]])
    BY <1>1, <1>3, <1>4, <1>6 DEF OneMore
  <2> QED
    BY <1>5, <2>1, Zenon DEF EmittedBy
<1> QED
  BY <1>7 DEF more

LEMMA EmitsNoMore ==
  ASSUME NEW acts, NEW p, NEW m \in Nat \ {0}, EmittedBy(p, m - 1, acts), ~Emits(p[m])
  PROVE  EmittedBy(p, m, acts)
<1>1. PICK calls \in [DOMAIN acts -> 1..(m - 1)] :
        /\ Rising(calls)
        /\ Range(calls) = {n \in 1..(m - 1) : Emits(p[n])}
        /\ \A i \in DOMAIN acts : acts[i].kind = Named(p[calls[i]])
  BY DEF EmittedBy
<1>2. \A n \in 1..m : n \in 1..(m - 1) \/ n = m
  OBVIOUS
<1>3. \A n \in 1..(m - 1) : n \in 1..m
  OBVIOUS
<1>4. calls \in [DOMAIN acts -> 1..m]
  BY <1>3
<1>5. Range(calls) = {n \in 1..m : Emits(p[n])}
  BY <1>1, <1>2, <1>3
<1> QED
  BY <1>1, <1>4, <1>5 DEF EmittedBy

LEMMA PushesEmit ==
  ASSUME NEW p, NEW n \in Nat, NEW f, Pushes(p, n, f), NEW k \in 0..n
  PROVE  f[k] \in Seq({Emitted(p[j]) : j \in 1..n}) /\ EmittedBy(p, k, f[k])
<1> DEFINE A == {Emitted(p[j]) : j \in 1..n}
           Right(m) == f[m] \in Seq(A) /\ EmittedBy(p, m, f[m])
           Wrong == {m \in 0..n : ~Right(m)}
<1>f. \A m \in 0..n : f[m] = IF m = 0 THEN <<>>
                             ELSE IF Emits(p[m]) THEN Append(f[m - 1], Emitted(p[m]))
                             ELSE f[m - 1]
  BY DEF Pushes
<1>e. \A j \in 1..n : Emitted(p[j]) \in A
  OBVIOUS
<1> SUFFICES ASSUME Wrong # {} PROVE FALSE
  OBVIOUS
<1> HIDE DEF A
<1>1. PICK m \in Wrong : \A i \in Wrong : ~(<<i, m>> \in OpToRel(<, Nat))
  <2>1. Wrong \subseteq Nat
    OBVIOUS
  <2> HIDE DEF Wrong
  <2> QED
    BY <2>1, WFMin, NatLessThanWellFounded
<1>2. m \in 0..n /\ ~Right(m)
  OBVIOUS
<1>3. CASE m = 0
  <2>1. f[m] = <<>>
    BY <1>2, <1>3, <1>f
  <2>2. <<>> \in Seq(A)
    BY EmptySeq
  <2>3. EmittedBy(p, 0, <<>>)
    <3>1. DOMAIN <<>> = {} /\ 1..0 = {}
      OBVIOUS
    <3> DEFINE none == [i \in {} |-> 0]
    <3>2. none \in [{} -> {}] /\ DOMAIN none = {} /\ Range(none) = {}
      BY DEF Range
    <3> HIDE DEF none
    <3> QED
      BY <3>1, <3>2 DEF EmittedBy, Rising
  <2> QED
    BY <1>2, <1>3, <2>1, <2>2, <2>3
<1>4. CASE m # 0
  <2>1. m \in Nat \ {0} /\ m \in 1..n /\ m - 1 \in 0..n /\ m - 1 \in Nat /\ m - 1 < m
    BY <1>2, <1>4
  <2>2. m - 1 \notin Wrong
    <3> HIDE DEF Wrong
    <3> QED
      BY <1>1, <2>1 DEF OpToRel
  <2>3. f[m - 1] \in Seq(A) /\ EmittedBy(p, m - 1, f[m - 1])
    BY <2>1, <2>2
  <2>4. CASE Emits(p[m])
    <3>1. f[m] = Append(f[m - 1], Emitted(p[m])) /\ Emitted(p[m]) \in A
      BY <1>4, <1>e, <1>f, <2>1, <2>4
    <3>2. f[m] \in Seq(A)
      BY <2>3, <3>1, AppendProperties
    <3>3. EmittedBy(p, m, f[m])
      BY <2>1, <2>3, <2>4, <3>1, EmittedNamed, EmitsOneMore
    <3> QED
      BY <1>2, <3>2, <3>3
  <2>5. CASE ~Emits(p[m])
    <3>1. f[m] = f[m - 1]
      BY <1>4, <1>f, <2>1, <2>5
    <3>2. EmittedBy(p, m, f[m])
      BY <2>1, <2>3, <2>5, <3>1, EmitsNoMore
    <3> QED
      BY <1>2, <2>3, <3>1, <3>2
  <2> QED
    BY <2>4, <2>5
<1> QED
  BY <1>3, <1>4

\* What a program that ended Ok leaves are the actions its calls named, in order.
LEMMA BufferIs ==
  ASSUME NEW S, NEW p \in Seq(S)
  PROVE  /\ DOMAIN p = 1..Len(p)
         /\ Buffer(p) \in Seq({Emitted(p[j]) : j \in 1..Len(p)})
         /\ EmittedBy(p, Len(p), Buffer(p))
<1>1. Len(p) \in Nat /\ DOMAIN p = 1..Len(p)
  BY LenProperties
<1>2. PICK f : Pushes(p, Len(p), f) /\ Buffer(p) = f[Len(p)]
  BY BufferPushes
<1>3. Len(p) \in 0..Len(p)
  BY <1>1
<1> QED
  BY <1>1, <1>2, <1>3, PushesEmit

(***************************************************************************)
(* Whole runs                                                              *)
(***************************************************************************)
LEMMA ProgramIsSequence ==
  ASSUME NEW p \in Programs
  PROVE  p \in Seq(Range(p))
<1>1. PICK v \in Vigies : p \in Does[v]
  BY RunFeedAssumption DEF Programs, Range
<1> QED
  BY <1>1, RunFeedAssumption

\* What holds of the actions of a run by their kinds holds of those read back.
LEMMA KindsMakeWhole ==
  ASSUME NEW r, NEW q, Whole(r), q.of = r.of, q.result = r.result,
         r.actions = <<>> => q.actions = <<>>,
         DOMAIN q.actions = DOMAIN r.actions,
         \A i \in DOMAIN r.actions : q.actions[i].kind = r.actions[i].kind
  PROVE  Whole(q)
<1>1. CASE r.result = "ok"
  <2>1. PICK calls \in [DOMAIN r.actions -> DOMAIN r.of] :
          /\ EmittingCalls(r, calls)
          /\ \A i \in DOMAIN calls : r.actions[i].kind = Named(r.of[calls[i]])
    BY <1>1 DEF Whole
  <2>2. EmittingCalls(q, calls)
    BY <2>1 DEF EmittingCalls
  <2>3. \A i \in DOMAIN calls : q.actions[i].kind = Named(q.of[calls[i]])
    BY <2>1
  <2> QED
    BY <1>1, <2>1, <2>2, <2>3 DEF Whole
<1>2. CASE r.result # "ok"
  BY <1>2 DEF Whole
<1> QED
  BY <1>1, <1>2

LEMMA CompletedWhole ==
  ASSUME NEW hand, NEW p \in Programs
  PROVE  Whole(Completed(hand, p)) /\ Whole(Row(Completed(hand, p)))
<1> DEFINE run == Completed(hand, p)
<1>1. p \in Seq(Range(p))
  BY ProgramIsSequence
<1>2. run.of = p /\ run.result = Outcome(p).result /\ run.actions = Outcome(p).actions
  BY DEF Completed
<1>3. Whole(run)
  <2>1. CASE Outcome(p).result = "ok"
    <3>1. run.actions = Buffer(p)
      BY <1>2, <2>1 DEF Outcome
    <3>2. DOMAIN p = 1..Len(p) /\ EmittedBy(p, Len(p), Buffer(p))
      BY <1>1, BufferIs
    <3> HIDE DEF run
    <3>3. PICK calls \in [DOMAIN run.actions -> DOMAIN run.of] :
            /\ \A i, j \in DOMAIN calls : i < j => calls[i] < calls[j]
            /\ Range(calls) = {n \in DOMAIN run.of : Emits(run.of[n])}
            /\ \A i \in DOMAIN calls : run.actions[i].kind = Named(run.of[calls[i]])
      BY <1>2, <3>1, <3>2 DEF EmittedBy, Rising
    <3>4. EmittingCalls(run, calls)
      BY <3>3 DEF EmittingCalls
    <3> QED
      BY <1>2, <2>1, <3>3, <3>4 DEF Whole
  <2>2. CASE Outcome(p).result # "ok"
    <3>1. Outcome(p).actions = <<>>
      BY <2>2 DEF Outcome
    <3> QED
      BY <1>2, <2>2, <3>1 DEF Whole
  <2> QED
    BY <2>1, <2>2
<1>4. Whole(Row(run))
  <2> DEFINE acts == run.actions
             back == Row(run)
  <2>1. /\ back.of = run.of /\ back.result = run.result
        /\ back.actions = [i \in DOMAIN acts |-> Reread(acts[i])]
    BY DEF Row, Completed
  <2>2. \A i \in DOMAIN acts : Reread(acts[i]).kind = acts[i].kind
    BY DEF Reread
  <2>3. acts = <<>> => back.actions = <<>>
    BY <2>1
  <2> HIDE DEF run, back
  <2> QED
    BY <1>3, <2>1, <2>2, <2>3, KindsMakeWhole DEF back
<1> QED
  BY <1>3, <1>4

\* What waits to be sent is whole, as what is recorded and sent is.
WholeInv ==
  /\ TypeOK
  /\ \A t \in Tasks : At(t, "send") => Whole(task[t].run)
  /\ WholeOrNothing

LEMMA PublishedWhole ==
  ASSUME TypeOK, NEW run \in Runs, Whole(run), \A r \in Range(sent) : Whole(r), Publish(run)
  PROVE  \A r \in Range(sent') : Whole(r)
<1>1. CASE UNCHANGED sent
  BY <1>1
<1>2. CASE sent' = Append(sent, run)
  <2>1. /\ sent \in Seq(Runs) /\ DOMAIN sent = 1..Len(sent) /\ Len(sent) \in Nat
    BY SentLength DEF TypeOK
  <2>2. /\ DOMAIN sent' = 1..(Len(sent) + 1) /\ sent'[Len(sent) + 1] = run
        /\ \A i \in 1..Len(sent) : sent'[i] = sent[i]
    BY <1>2, <2>1, AppendProperties
  <2>3. \A i \in DOMAIN sent' : i \in 1..Len(sent) \/ i = Len(sent) + 1
    BY <2>1, <2>2
  <2>4. \A i \in DOMAIN sent' : sent'[i] = run \/ sent'[i] \in Range(sent)
    BY <2>1, <2>2, <2>3 DEF Range
  <2> QED
    BY <2>4 DEF Range
<1> QED
  BY <1>1, <1>2 DEF Publish

LEMMA WholeStep == WholeInv /\ [Next]_vars => WholeInv'
<1> SUFFICES ASSUME WholeInv, [Next]_vars PROVE WholeInv'
  OBVIOUS
<1>t. TypeOK /\ TypeOK'
  BY TypeStep DEF WholeInv
<1>w. /\ \A t \in Tasks : task[t].pc = "send" => Whole(task[t].run)
      /\ \A r \in rows : Whole(r)
      /\ \A r \in Range(sent) : Whole(r)
  BY DEF WholeInv, WholeOrNothing, At
\* Whoever of the three a step changes stays whole.
<1>0. ASSUME \A t \in Tasks : task'[t].pc = "send" => Whole(task'[t].run),
             \A r \in rows' : Whole(r), \A r \in Range(sent') : Whole(r)
      PROVE  WholeInv'
  BY <1>t, <1>0 DEF WholeInv, WholeOrNothing, At
\* A task that is not about to send leaves the others as they are.
<1>b. ASSUME NEW t \in Tasks, NEW pc, NEW run, Becomes(t, pc, run), pc = "send" => Whole(run)
      PROVE  \A u \in Tasks : task'[u].pc = "send" => Whole(task'[u].run)
  BY <1>t, <1>w, <1>b, BecomesShape
<1>1. ASSUME NEW v \in Vigies, Register(v) \/ Delete(v) PROVE WholeInv'
  <2>1. \E pc \in {"none", "rest"} : Becomes(v, pc, NoRun)
    BY <1>1 DEF Register, Delete
  <2>2. \A u \in Tasks : task'[u].pc = "send" => Whole(task'[u].run)
    BY <1>b, <2>1, TasksAre
  <2> QED
    BY <1>0, <1>1, <1>w, <2>2 DEF Register, Delete
<1>2. ASSUME NEW t \in Tasks, NEW v \in Vigies, Start(t, v) PROVE WholeInv'
  <2>1. \A u \in Tasks : task'[u].pc = "send" => Whole(task'[u].run)
    BY <1>b, <1>2 DEF Start
  <2> QED
    BY <1>0, <1>2, <1>w, <2>1 DEF Start
<1>3. ASSUME NEW t \in Tasks, NEW p \in Programs, Insert(t, p) PROVE WholeInv'
  <2> DEFINE run == Completed(task[t].run, p)
  <2>1. /\ rows' \subseteq rows \cup {Row(run)} /\ Becomes(t, "send", run) /\ UNCHANGED sent
    BY <1>3, TrimmedPart DEF Insert
  <2>2. Whole(run) /\ Whole(Row(run))
    BY CompletedWhole
  <2> HIDE DEF run
  <2>3. \A u \in Tasks : task'[u].pc = "send" => Whole(task'[u].run)
    BY <1>b, <2>1, <2>2
  <2> QED
    BY <1>0, <1>w, <2>1, <2>2, <2>3
<1>4. ASSUME NEW v \in Vigies, NEW p \in Does[v], Elsewhere(v, p) PROVE WholeInv'
  <2> DEFINE run == Completed([id |-> minted + 1, vigy |-> v], p)
  <2>1. rows' \subseteq rows \cup {Row(run)} /\ UNCHANGED <<task, sent>>
    BY <1>4, TrimmedPart DEF Elsewhere
  <2>2. Whole(Row(run))
    BY ProgramsOf, CompletedWhole
  <2> HIDE DEF run
  <2> QED
    BY <1>0, <1>w, <2>1, <2>2
<1>5. ASSUME NEW t \in Tasks, NEW pc \in {"none", "rest"}, At(t, "send"),
             Becomes(t, pc, NoRun), Publish(task[t].run) \/ UNCHANGED sent, UNCHANGED rows
      PROVE  WholeInv'
  <2>1. \A u \in Tasks : task'[u].pc = "send" => Whole(task'[u].run)
    BY <1>b, <1>5
  <2>2. task[t].run \in Runs /\ Whole(task[t].run)
    BY <1>5, <1>t, <1>w DEF TypeOK, At
  <2>3. \A r \in Range(sent') : Whole(r)
    BY <1>5, <1>t, <1>w, <2>2, PublishedWhole
  <2> QED
    BY <1>0, <1>5, <1>w, <2>1, <2>3
<1>6. ASSUME NEW v \in Vigies, LoopSend(v) PROVE WholeInv'
  BY <1>5, <1>6, TasksAre DEF LoopSend
<1>7. ASSUME NEW c \in Callers, Abandon(c) \/ CallSend(c) PROVE WholeInv'
  <2>1. CASE Abandon(c)
    <3>1. \A u \in Tasks : task'[u].pc = "send" => Whole(task'[u].run)
      BY <1>b, <2>1, TasksAre DEF Abandon
    <3> QED
      BY <1>0, <1>w, <2>1, <3>1 DEF Abandon
  <2>2. CASE CallSend(c)
    <3>1. Publish(task[c].run) \/ UNCHANGED sent
      BY <2>2 DEF CallSend
    <3> QED
      BY <1>5, <2>2, <3>1, TasksAre DEF CallSend
  <2> QED
    BY <1>7, <2>1, <2>2
<1>8. ASSUME NEW s \in Subscribers, Subscribe(s) \/ Leave(s) \/ Lag(s) \/ Recv(s)
      PROVE  WholeInv'
  BY <1>0, <1>w, <1>8 DEF Subscribe, Leave, Lag, Recv
<1>9. CASE UNCHANGED vars
  BY <1>0, <1>w, <1>9 DEF vars
<1> QED
  BY <1>1, <1>2, <1>3, <1>4, <1>6, <1>7, <1>8, <1>9, TasksAre DEF Next, LoopStart, CallStart

\* Hosts act on a run's actions: whatever the programs, whoever records, fails,
\* trims or sends, no run is recorded or sent with some of them or out of order.
THEOREM RunsAreWhole == Spec => []WholeOrNothing
<1>1. Init => WholeInv
  <2> SUFFICES ASSUME Init PROVE WholeInv
    OBVIOUS
  <2>1. TypeOK
    BY TypeInit
  <2>2. \A t \in Tasks : ~At(t, "send")
    BY DEF Init, At, NoTask, Task
  <2>3. rows = {} /\ Range(sent) = {}
    BY DEF Init, Range
  <2> QED
    BY <2>1, <2>2, <2>3 DEF WholeInv, WholeOrNothing
<1>2. WholeInv => WholeOrNothing
  BY DEF WholeInv
<1> QED
  BY <1>1, <1>2, WholeStep, PTL DEF Spec

(***************************************************************************)
(* Values in the store                                                     *)
(***************************************************************************)
LEMMA ValueIs ==
  \A t, h : /\ Value(t, h).type = t /\ Value(t, h).has = h
            /\ \A u, g : Value(t, h) = Value(u, g) => t = u /\ h = g
BY DEF Value

LEMMA ScalarsAre ==
  \A l \in Scalars :
    /\ l = Value(l.type, l.has)
    /\ l.type \in {"nil", "bool", "str", "int", "float", "other", "symbol", "keyword"}
    /\ l \in Plain => \/ l = Nil
                      \/ l.type \in {"bool", "int", "str"}
                      \/ l.type = "float" /\ l.has # NaN
BY DEF Scalars, Plain, Nil, Value

\* What lisp_to_json makes of a scalar.
LEMMA JsonScalar ==
  ASSUME NEW l
  PROVE  \/ ScalarJson(l) = Null
         \/ l.type \in {"bool", "int"} /\ ScalarJson(l) = l
         \/ l.type = "float" /\ l.has # NaN /\ ScalarJson(l) = l
         \/ \E h : ScalarJson(l) = Value("string", h)
<1>1. CASE l.type = "nil" \/ (l.type = "float" /\ l.has = NaN)
  BY <1>1 DEF ScalarJson
<1>2. CASE l.type \in {"bool", "int"} \/ (l.type = "float" /\ l.has # NaN)
  BY <1>2 DEF ScalarJson
<1>3. CASE l.type = "keyword"
  <2>1. ScalarJson(l) = Value("string", Colon[l.has])
    BY <1>3 DEF ScalarJson
  <2> QED
    BY <2>1
<1>4. CASE l.type \notin {"nil", "bool", "int", "float", "keyword"}
  <2>1. ScalarJson(l) = Value("string", l.has)
    BY <1>4 DEF ScalarJson
  <2> QED
    BY <2>1
<1> QED
  BY <1>1, <1>2, <1>3, <1>4

\* Read and written again, it is the same JSON.
LEMMA JsonStays ==
  ASSUME NEW l
  PROVE  ScalarJson(ScalarLisp(ScalarJson(l))) = ScalarJson(l)
<1>1. CASE ScalarJson(l) = Null
  <2>1. ScalarLisp(Null) = Nil
    BY DEF ScalarLisp, Null, Value
  <2>2. ScalarJson(Nil) = Null
    BY DEF ScalarJson, Nil, Value
  <2> QED
    BY <1>1, <2>1, <2>2
<1>2. CASE l.type \in {"bool", "int", "float"} /\ ScalarJson(l) = l
  <2>1. ScalarLisp(l) = l
    BY <1>2 DEF ScalarLisp
  <2> QED
    BY <1>2, <2>1
<1>3. CASE \E h : ScalarJson(l) = Value("string", h)
  <2> PICK h : ScalarJson(l) = Value("string", h)
    BY <1>3
  <2>1. ScalarLisp(Value("string", h)) = Value("str", h)
    BY DEF ScalarLisp, Value
  <2>2. ScalarJson(Value("str", h)) = Value("string", h)
    BY DEF ScalarJson, Value
  <2> QED
    BY <2>1, <2>2
<1> QED
  BY <1>1, <1>2, <1>3, JsonScalar

LEMMA PlainReads ==
  ASSUME NEW l \in Plain
  PROVE  ScalarLisp(ScalarJson(l)) = l
<1>0. l \in Scalars
  BY DEF Scalars
<1>1. CASE l = Nil
  <2>1. ScalarJson(Nil) = Null /\ ScalarLisp(Null) = Nil
    BY DEF ScalarJson, ScalarLisp, Nil, Null, Value
  <2> QED
    BY <1>1, <2>1
<1>2. CASE l.type = "str"
  <2>1. l = Value("str", l.has)
    BY <1>0, <1>2, ScalarsAre
  <2>2. ScalarJson(l) = Value("string", l.has)
    BY <1>2 DEF ScalarJson
  <2>3. ScalarLisp(Value("string", l.has)) = Value("str", l.has)
    BY DEF ScalarLisp, Value
  <2> QED
    BY <2>1, <2>2, <2>3
<1>3. CASE l.type \in {"bool", "int"} \/ (l.type = "float" /\ l.has # NaN)
  <2>1. ScalarJson(l) = l
    BY <1>3 DEF ScalarJson
  <2>2. ScalarLisp(l) = l
    BY <1>3 DEF ScalarLisp
  <2> QED
    BY <2>1, <2>2
<1> QED
  BY <1>0, <1>1, <1>2, <1>3, ScalarsAre

LEMMA ScalarSettles ==
  ASSUME NEW l \in Scalars
  PROVE  WrittenStays(l) /\ (l \in Plain => ReadAsWritten(l))
<1> DEFINE j == ScalarJson(l)
           k == ScalarLisp(j)
<1>1. l.type \notin {"list", "map"}
  BY ScalarsAre
<1>2. JsonsOf(l) = {j}
  BY <1>1 DEF JsonsOf
<1>3. j.type \notin {"array", "object"} /\ k.type \notin {"list", "map"}
  <2>1. j = Null \/ (l.type \in {"bool", "int", "float"} /\ j = l) \/ \E h : j = Value("string", h)
    BY JsonScalar
  <2>2. j.type \in {"null", "bool", "int", "float", "string"}
    BY <2>1, ValueIs DEF Null
  <2> HIDE DEF j
  <2>3. k = Nil \/ k = Value("str", j.has) \/ (k = j /\ j.type \in {"bool", "int", "float"})
    BY <2>2 DEF ScalarLisp
  <2>4. k.type \in {"nil", "str", "bool", "int", "float"}
    BY <2>3, ValueIs DEF Nil
  <2> QED
    BY <2>2, <2>4
<1>4. LispOf(j) = k
  BY <1>3 DEF LispOf
<1>5. JsonsOf(k) = {j}
  <2>1. ScalarJson(k) = j
    BY JsonStays
  <2> HIDE DEF k, j
  <2> QED
    BY <1>3, <2>1 DEF JsonsOf
<1>6. l \in Plain => k = l
  BY PlainReads
<1> HIDE DEF j, k
<1> QED
  BY <1>2, <1>4, <1>5, <1>6 DEF WrittenStays, ReadAsWritten

\* A list of any length, whatever its members.
LEMMA ListSettles ==
  ASSUME NEW s, s = [i \in DOMAIN s |-> s[i]]
  PROVE  /\ WrittenStays(Value("list", s))
         /\ (\A i \in DOMAIN s : s[i] \in Plain) => ReadAsWritten(Value("list", s))
<1> DEFINE js == [i \in DOMAIN s |-> ScalarJson(s[i])]
           ls == [i \in DOMAIN js |-> ScalarLisp(js[i])]
           again == [i \in DOMAIN ls |-> ScalarJson(ls[i])]
<1>1. JsonsOf(Value("list", s)) = {Value("array", js)}
  BY ValueIs DEF JsonsOf
<1>2. again = js
  BY JsonStays
<1>3. (\A i \in DOMAIN s : s[i] \in Plain) => ls = s
  BY PlainReads
<1> HIDE DEF js
<1>4. LispOf(Value("array", js)) = Value("list", ls)
  BY ValueIs DEF LispOf
<1> HIDE DEF ls
<1>5. JsonsOf(Value("list", ls)) = {Value("array", again)}
  BY ValueIs DEF JsonsOf
<1> HIDE DEF again
<1> QED
  BY <1>1, <1>2, <1>3, <1>4, <1>5 DEF WrittenStays, ReadAsWritten

LEMMA ObjectIs ==
  ASSUME NEW m, NEW o
  PROVE  o \in ObjectsOf(m) <=>
           /\ o \in [{KeyText(k) : k \in DOMAIN m} -> {ScalarJson(m[k]) : k \in DOMAIN m}]
           /\ \A s \in DOMAIN o : \E k \in DOMAIN m : KeyText(k) = s /\ o[s] = ScalarJson(m[k])
<1>1. {ScalarJson(v) : v \in Range(m)} = {ScalarJson(m[k]) : k \in DOMAIN m}
  BY DEF Range
<1> QED
  BY <1>1 DEF ObjectsOf

LEMMA ObjectHas ==
  ASSUME NEW m, NEW o \in ObjectsOf(m)
  PROVE  /\ o = [s \in DOMAIN o |-> o[s]]
         /\ DOMAIN o = {KeyText(k) : k \in DOMAIN m}
         /\ \A s \in DOMAIN o : \E k \in DOMAIN m : KeyText(k) = s /\ o[s] = ScalarJson(m[k])
<1> DEFINE T == {KeyText(k) : k \in DOMAIN m}
           J == {ScalarJson(m[k]) : k \in DOMAIN m}
<1>1. /\ o \in [T -> J]
      /\ \A s \in DOMAIN o : \E k \in DOMAIN m : KeyText(k) = s /\ o[s] = ScalarJson(m[k])
  <2>1. {ScalarJson(v) : v \in Range(m)} = J
    BY DEF Range
  <2>2. o \in [T -> {ScalarJson(v) : v \in Range(m)}]
    BY DEF ObjectsOf
  <2>3. \A s \in DOMAIN o : \E k \in DOMAIN m : KeyText(k) = s /\ o[s] = ScalarJson(m[k])
    BY Zenon DEF ObjectsOf
  <2> QED
    BY <2>1, <2>2, <2>3
<1> HIDE DEF T, J
<1>2. DOMAIN o = T /\ o = [s \in DOMAIN o |-> o[s]]
  BY <1>1
<1> QED
  BY <1>1, <1>2 DEF T

\* Every map becomes some object.
LEMMA ObjectExists ==
  ASSUME NEW m
  PROVE  ObjectsOf(m) # {}
<1> DEFINE one(s) == CHOOSE k \in DOMAIN m : KeyText(k) = s
           o == [s \in {KeyText(k) : k \in DOMAIN m} |-> ScalarJson(m[one(s)])]
<1>1. \A s \in {KeyText(k) : k \in DOMAIN m} : one(s) \in DOMAIN m /\ KeyText(one(s)) = s
  OBVIOUS
<1> HIDE DEF one
<1>2. o \in ObjectsOf(m)
  BY <1>1, ObjectIs
<1> QED
  BY <1>2

\* The map that an object is read as, and what becomes of it.
ReadBack(o) == [k \in {Value("str", s) : s \in DOMAIN o} |-> ScalarLisp(o[k.has])]

LEMMA ReadMap ==
  ASSUME NEW o
  PROVE  /\ LispOf(Value("object", o)) = Value("map", ReadBack(o))
         /\ DOMAIN ReadBack(o) = {Value("str", s) : s \in DOMAIN o}
         /\ \A s \in DOMAIN o : /\ Value("str", s) \in DOMAIN ReadBack(o)
                                /\ KeyText(Value("str", s)) = s
                                /\ ReadBack(o)[Value("str", s)] = ScalarLisp(o[s])
<1>1. LispOf(Value("object", o)) = Value("map", ReadBack(o))
  BY ValueIs DEF LispOf, ReadBack
<1>2. DOMAIN ReadBack(o) = {Value("str", s) : s \in DOMAIN o}
  BY DEF ReadBack
<1>3. ASSUME NEW s \in DOMAIN o
      PROVE  /\ Value("str", s) \in DOMAIN ReadBack(o)
             /\ KeyText(Value("str", s)) = s
             /\ ReadBack(o)[Value("str", s)] = ScalarLisp(o[s])
  <2>1. Value("str", s).has = s /\ Value("str", s).type = "str"
    BY ValueIs
  <2>2. KeyText(Value("str", s)) = s
    BY <2>1 DEF KeyText
  <2>3. Value("str", s) \in {Value("str", t) : t \in DOMAIN o}
    OBVIOUS
  <2> QED
    BY <2>1, <2>2, <2>3 DEF ReadBack
<1> QED
  BY <1>1, <1>2, <1>3

LEMMA ObjectStays ==
  ASSUME NEW m, NEW o \in ObjectsOf(m)
  PROVE  ObjectsOf(ReadBack(o)) = {o}
<1> DEFINE r == ReadBack(o)
           texts == {KeyText(k) : k \in DOMAIN r}
           jsons == {ScalarJson(r[k]) : k \in DOMAIN r}
<1>1. /\ o = [s \in DOMAIN o |-> o[s]]
      /\ \A s \in DOMAIN o : \E k \in DOMAIN m : KeyText(k) = s /\ o[s] = ScalarJson(m[k])
  BY ObjectHas
<1>2. \A s \in DOMAIN o : ScalarJson(ScalarLisp(o[s])) = o[s]
  BY <1>1, JsonStays
<1>3. /\ DOMAIN r = {Value("str", s) : s \in DOMAIN o}
      /\ \A s \in DOMAIN o : /\ Value("str", s) \in DOMAIN r
                             /\ KeyText(Value("str", s)) = s
                             /\ r[Value("str", s)] = ScalarLisp(o[s])
  BY ReadMap
<1> HIDE DEF r
<1>4. texts = DOMAIN o
  BY <1>3
<1>5. \A s \in DOMAIN o : o[s] \in jsons
  BY <1>2, <1>3
<1>6. o \in ObjectsOf(r)
  <2>1. o \in [texts -> jsons]
    BY <1>1, <1>4, <1>5
  <2>2. \A s \in DOMAIN o : \E k \in DOMAIN r : KeyText(k) = s /\ o[s] = ScalarJson(r[k])
    BY <1>2, <1>3
  <2> QED
    BY <2>1, <2>2, ObjectIs
<1>7. ASSUME NEW q \in ObjectsOf(r) PROVE q = o
  <2>1. /\ q = [s \in DOMAIN q |-> q[s]] /\ DOMAIN q = texts
        /\ \A s \in DOMAIN q : \E k \in DOMAIN r : KeyText(k) = s /\ q[s] = ScalarJson(r[k])
    BY ObjectHas
  <2>2. ASSUME NEW s \in DOMAIN o PROVE q[s] = o[s]
    <3>1. PICK k \in DOMAIN r : KeyText(k) = s /\ q[s] = ScalarJson(r[k])
      BY <1>4, <2>1
    <3>2. PICK t \in DOMAIN o : k = Value("str", t)
      BY <1>3
    <3>3. t = s
      BY <1>3, <3>1, <3>2
    <3> QED
      BY <1>2, <1>3, <3>1, <3>2, <3>3
  <2>3. DOMAIN q = DOMAIN o
    BY <1>4, <2>1
  <2>4. q = [s \in DOMAIN q |-> q[s]] /\ o = [s \in DOMAIN o |-> o[s]]
    BY <1>1, <2>1
  <2> QED
    BY <2>2, <2>3, <2>4
<1>8. ObjectsOf(r) = {o}
  BY <1>6, <1>7
<1> QED
  BY <1>8 DEF r

\* A map of any size, whatever its keys and values, and though keys may meet.
LEMMA MapSettles ==
  ASSUME NEW m
  PROVE  WrittenStays(Value("map", m)) /\ JsonsOf(Value("map", m)) # {}
<1>1. JsonsOf(Value("map", m)) = {Value("object", o) : o \in ObjectsOf(m)}
  BY ValueIs DEF JsonsOf
<1>2. ASSUME NEW o \in ObjectsOf(m)
      PROVE  JsonsOf(LispOf(Value("object", o))) = {Value("object", o)}
  <2>1. LispOf(Value("object", o)) = Value("map", ReadBack(o))
    BY ReadMap
  <2>2. JsonsOf(Value("map", ReadBack(o))) = {Value("object", q) : q \in ObjectsOf(ReadBack(o))}
    BY ValueIs DEF JsonsOf
  <2> QED
    BY <2>1, <2>2, ObjectStays
<1> QED
  BY <1>1, <1>2, ObjectExists DEF WrittenStays

\* A map of plain values under strings is read as it was written.
LEMMA StringMapReads ==
  ASSUME NEW m, m = [k \in DOMAIN m |-> m[k]],
         \A k \in DOMAIN m : k = Value("str", k.has) /\ m[k] \in Plain
  PROVE  ReadAsWritten(Value("map", m))
<1>1. JsonsOf(Value("map", m)) = {Value("object", o) : o \in ObjectsOf(m)}
  BY ValueIs DEF JsonsOf
<1>2. ASSUME NEW o \in ObjectsOf(m)
      PROVE  LispOf(Value("object", o)) = Value("map", m)
  <2>1. /\ DOMAIN o = {KeyText(k) : k \in DOMAIN m}
        /\ \A s \in DOMAIN o : \E k \in DOMAIN m : KeyText(k) = s /\ o[s] = ScalarJson(m[k])
    BY ObjectHas
  <2>2. \A k \in DOMAIN m : KeyText(k) = k.has
    BY ValueIs DEF KeyText
  <2> DEFINE r == ReadBack(o)
  <2>3. /\ DOMAIN r = {Value("str", s) : s \in DOMAIN o}
        /\ \A s \in DOMAIN o : r[Value("str", s)] = ScalarLisp(o[s])
        /\ r = [k \in DOMAIN r |-> r[k]]
    BY ReadMap DEF ReadBack
  <2> HIDE DEF r
  <2>4. DOMAIN r = DOMAIN m
    BY <2>1, <2>2, <2>3
  <2>5. ASSUME NEW k \in DOMAIN m PROVE r[k] = m[k]
    <3>1. k.has \in DOMAIN o /\ k = Value("str", k.has)
      BY <2>1, <2>2
    <3>2. PICK i \in DOMAIN m : KeyText(i) = k.has /\ o[k.has] = ScalarJson(m[i])
      BY <2>1, <3>1
    <3>3. i = k
      BY <2>2, <3>1, <3>2
    <3>4. ScalarLisp(ScalarJson(m[k])) = m[k]
      BY PlainReads
    <3> QED
      BY <2>3, <3>1, <3>2, <3>3, <3>4
  <2>6. r = m
    BY <2>3, <2>4, <2>5
  <2> QED
    BY <2>6, ReadMap DEF r
<1>3. {LispOf(j) : j \in JsonsOf(Value("map", m))} = {LispOf(Value("object", o)) : o \in ObjectsOf(m)}
  BY <1>1
<1> QED
  BY <1>2, <1>3, ObjectExists DEF ReadAsWritten

\* Whatever vigy-set is given is stable once it is written: scalars, and lists and
\* maps of them of any length, though keys of a map may meet in one string; plain
\* values, lists of them and maps of them under strings are read as written.
THEOREM WhatIsWrittenStays ==
  /\ \A l \in Scalars : WrittenStays(l)
  /\ \A s \in Seq(Scalars) : WrittenStays(Value("list", s))
  /\ \A K \in SUBSET Keys : \A m \in [K -> Scalars] :
       WrittenStays(Value("map", m)) /\ JsonsOf(Value("map", m)) # {}
  /\ \A l \in Plain : ReadAsWritten(l)
  /\ \A s \in Seq(Plain) : ReadAsWritten(Value("list", s))
  /\ \A K \in SUBSET {k \in Plain : k.type = "str"} : \A m \in [K -> Plain] :
       ReadAsWritten(Value("map", m))
<1>1. Plain \subseteq Scalars
  BY DEF Scalars
<1>2. \A S : \A s \in Seq(S) : s = [i \in DOMAIN s |-> s[i]] /\ \A i \in DOMAIN s : s[i] \in S
  <2> SUFFICES ASSUME NEW S, NEW s \in Seq(S)
               PROVE  s = [i \in DOMAIN s |-> s[i]] /\ \A i \in DOMAIN s : s[i] \in S
    OBVIOUS
  <2>1. s \in [1..Len(s) -> S]
    BY LenProperties
  <2> QED
    BY <2>1
<1>3. \A s \in Seq(Scalars) : WrittenStays(Value("list", s))
  BY <1>2, ListSettles
<1>4. \A s \in Seq(Plain) : ReadAsWritten(Value("list", s))
  BY <1>2, ListSettles
<1>5. ASSUME NEW K \in SUBSET {k \in Plain : k.type = "str"}, NEW m \in [K -> Plain]
      PROVE  ReadAsWritten(Value("map", m))
  <2>1. m = [k \in DOMAIN m |-> m[k]] /\ \A k \in DOMAIN m : m[k] \in Plain
    OBVIOUS
  <2>2. \A k \in DOMAIN m : k = Value("str", k.has)
    BY <1>1, ScalarsAre
  <2> QED
    BY <2>1, <2>2, StringMapReads
<1> QED
  BY <1>1, <1>3, <1>4, <1>5, ScalarSettles, MapSettles

\* vigy-get gives back what ValuesSettle says: it speaks of no variable, and of
\* values that are all among those of WhatIsWrittenStays.
THEOREM ValuesComeBack == Spec => []ValuesSettle
<1>1. \A S : [1..2 -> S] \subseteq Seq(S)
  BY SeqDef
<1>3. \A l \in Lists(Scalars) : WrittenStays(l)
  BY <1>1, WhatIsWrittenStays DEF Lists
<1>4. \A l \in Lists(Plain) : ReadAsWritten(l)
  BY <1>1, WhatIsWrittenStays DEF Lists
<1> DEFINE Strings == {k \in Plain : k.type = "str"}
           Pairs(K, S) == \A l \in Maps(K, S) :
             \E m : l = Value("map", m) /\ \E k, j \in K : m \in [{k, j} -> S]
<1>5. \A K, S : Pairs(K, S)
  BY DEF Maps
<1>6. \A K, S : \A l \in Maps(K, S) : WrittenStays(l)
  <2> SUFFICES ASSUME NEW K, NEW S, NEW l \in Maps(K, S) PROVE WrittenStays(l)
    OBVIOUS
  <2>0. Pairs(K, S)
    BY <1>5, Zenon
  <2>1. \E m : l = Value("map", m)
    BY <2>0, Zenon
  <2> QED
    BY <2>1, MapSettles
<1>7. \A l \in Maps(Strings, Plain) : ReadAsWritten(l)
  <2> SUFFICES ASSUME NEW l \in Maps(Strings, Plain) PROVE ReadAsWritten(l)
    OBVIOUS
  <2>0. Pairs(Strings, Plain)
    BY <1>5, Zenon
  <2>1. PICK m : l = Value("map", m) /\ \E k, j \in Strings : m \in [{k, j} -> Plain]
    BY <2>0, Zenon
  <2>2. PICK k \in Strings, j \in Strings : m \in [{k, j} -> Plain]
    BY <2>1
  <2>3. {k, j} \in SUBSET Strings
    OBVIOUS
  <2> QED
    BY <2>1, <2>2, <2>3, WhatIsWrittenStays
<1>8. Settles
  BY <1>3, <1>4, <1>6, <1>7, WhatIsWrittenStays DEF Settles
<1>9. ValuesSettle
  BY <1>8 DEF ValuesSettle
<1> QED
  BY <1>9, PTL

(***************************************************************************)
(* What is recorded stays, but for the limit                               *)
(***************************************************************************)
\* Keep later runs of v than i are in R.
Beyond(R, v, i) == Limited /\ Cardinality(Later(Ids(OfVigy(R, v)), i)) >= Keep

\* The run is recorded in R as it was, or trimmed for Keep later ones.
Safe(R, run) == Row(run) \in R \/ Beyond(R, run.vigy, run.id)

LEMMA RowFields ==
  ASSUME NEW run \in Runs
  PROVE  /\ Row(run).id = run.id /\ Row(run).vigy = run.vigy
         /\ run.id \in RunIds /\ run.id \in Nat /\ run.vigy \in Vigies
BY RunIdsAre DEF Row, Runs

LEMMA IdsFinite ==
  ASSUME NEW S, S \subseteq Runs, NEW v
  PROVE  /\ Ids(OfVigy(S, v)) \subseteq Nat /\ IsFiniteSet(Ids(OfVigy(S, v)))
         /\ \A i : Cardinality(Later(Ids(OfVigy(S, v)), i)) \in Nat
<1>1. Ids(OfVigy(S, v)) \in SUBSET RunIds
  BY RowFields DEF Ids, OfVigy
<1>2. IsFiniteSet(Ids(OfVigy(S, v)))
  BY <1>1, FS_Subset, RunFeedAssumption
<1> QED
  BY <1>1, <1>2, RunIdsAre, LaterFewer

\* insert_run's trim leaves of its vigy what the limit keeps, and the other
\* vigies' runs alone.
LEMMA TrimmedIs ==
  ASSUME NEW S, NEW v
  PROVE  /\ Ids(OfVigy(Trimmed(S, v), v)) = Newest(Ids(OfVigy(S, v)))
         /\ \A u : u # v => OfVigy(Trimmed(S, v), u) = OfVigy(S, u)
<1> DEFINE T == Ids(OfVigy(S, v))
<1>1. Newest(T) \subseteq T
  BY DEF Newest
<1> HIDE DEF T
<1>2. Trimmed(S, v) = {r \in S : r.vigy = v => r.id \in Newest(T)}
  BY DEF Trimmed, T
<1>3. \A u : u # v => OfVigy(Trimmed(S, v), u) = OfVigy(S, u)
  BY <1>2 DEF OfVigy
<1>4. Ids(OfVigy(Trimmed(S, v), v)) \subseteq Newest(T)
  BY <1>2 DEF OfVigy, Ids
<1>5. ASSUME NEW i \in Newest(T) PROVE i \in Ids(OfVigy(Trimmed(S, v), v))
  <2> PICK r \in S : r.vigy = v /\ r.id = i
    BY <1>1, <1>5 DEF T, Ids, OfVigy
  <2> QED
    BY <1>2, <1>5 DEF OfVigy, Ids
<1> QED
  BY <1>3, <1>4, <1>5 DEF T

LEMMA TrimBeyond ==
  ASSUME NEW S, S \subseteq Runs, NEW v, NEW u, NEW i \in Nat, Beyond(S, u, i)
  PROVE  Beyond(Trimmed(S, v), u, i)
<1>1. CASE u # v
  BY <1>1, TrimmedIs DEF Beyond
<1>2. CASE u = v
  <2> DEFINE T == Ids(OfVigy(S, v))
  <2>1. /\ Limited /\ Keep \in Nat
        /\ T \subseteq Nat /\ IsFiniteSet(T) /\ Cardinality(Later(T, i)) \in Nat
    BY IdsFinite, RetentionAssumption DEF Beyond, Limited
  <2>2. ~(Cardinality(Later(T, i)) < Keep)
    BY <1>2, <2>1 DEF Beyond
  <2> HIDE DEF T
  <2>3. ~(Cardinality(Later(Newest(T), i)) < Keep)
    BY <2>1, <2>2, GoneForLater
  <2>4. Trimmed(S, v) \subseteq Runs
    BY TrimmedPart
  <2>5. Ids(OfVigy(Trimmed(S, v), v)) = Newest(T)
    BY TrimmedIs DEF T
  <2>6. Cardinality(Later(Newest(T), i)) \in Nat
    BY <2>4, <2>5, IdsFinite
  <2> QED
    BY <1>2, <2>1, <2>3, <2>5, <2>6 DEF Beyond
<1> QED
  BY <1>1, <1>2

\* A row goes for Keep later ones only.
LEMMA TrimGoes ==
  ASSUME NEW S, S \subseteq Runs, NEW v, NEW r \in S, r \notin Trimmed(S, v)
  PROVE  Beyond(Trimmed(S, v), r.vigy, r.id)
<1> DEFINE T == Ids(OfVigy(S, v))
<1>1. r.vigy = v /\ r.id \notin Newest(T)
  BY DEF Trimmed
<1>2. r.id \in T /\ r.id \in Nat
  BY <1>1, RowFields DEF Ids, OfVigy
<1>3. Limited /\ ~(Cardinality(Later(T, r.id)) < Keep)
  BY <1>1, <1>2 DEF Newest
<1>4. Keep \in Nat /\ Cardinality(Later(T, r.id)) \in Nat
  BY <1>3, IdsFinite, RetentionAssumption DEF Limited
<1>5. Beyond(S, v, r.id)
  BY <1>3, <1>4 DEF Beyond
<1> QED
  BY <1>1, <1>2, <1>5, TrimBeyond

LEMMA MoreBeyond ==
  ASSUME NEW S, NEW R, R \subseteq S, S \subseteq Runs, NEW u, NEW i, Beyond(R, u, i)
  PROVE  Beyond(S, u, i)
<1> DEFINE T == Ids(OfVigy(S, u))  Q == Ids(OfVigy(R, u))
<1>1. Q \subseteq T
  BY DEF Ids, OfVigy
<1>2. IsFiniteSet(T)
  BY IdsFinite
<1>3. Limited /\ Keep \in Nat /\ Cardinality(Later(Q, i)) >= Keep
  BY RetentionAssumption DEF Beyond, Limited
<1> HIDE DEF T, Q
<1>4. /\ Cardinality(Later(Q, i)) \in Nat /\ Cardinality(Later(T, i)) \in Nat
      /\ Cardinality(Later(Q, i)) <= Cardinality(Later(T, i))
  BY <1>1, <1>2, LaterFewer
<1>5. Cardinality(Later(T, i)) >= Keep
  BY <1>3, <1>4
<1> QED
  BY <1>3, <1>5 DEF Beyond, T

\* What a step may do to the rows.
LEMMA RowsStep ==
  ASSUME TypeOK, [Next]_vars
  PROVE  \/ rows \subseteq rows' /\ rows' \subseteq Runs
         \/ \E v \in Vigies, run \in Runs : rows' = Trimmed(rows \cup {run}, v)
<1>0. rows \subseteq Runs
  BY DEF TypeOK
<1>1. ASSUME NEW t \in Tasks, NEW p \in Programs, Insert(t, p)
      PROVE  \/ rows \subseteq rows' /\ rows' \subseteq Runs
             \/ \E v \in Vigies, run \in Runs : rows' = Trimmed(rows \cup {run}, v)
  <2> PICK run \in Runs : /\ Row(run) \in Runs
                          /\ \/ rows' = Trimmed(rows \cup {Row(run)}, run.vigy)
                             \/ rows' \in {rows, rows \cup {Row(run)}}
    BY <1>1, InsertShape
  <2> QED
    BY <1>0, RowFields
<1>2. ASSUME NEW v \in Vigies, NEW p \in Does[v], Elsewhere(v, p)
      PROVE  \E run \in Runs : rows' = Trimmed(rows \cup {run}, v)
  BY <1>2, ElsewhereShape
<1>3. ASSUME NEW v \in Vigies, Register(v) \/ Delete(v) \/ LoopSend(v) PROVE UNCHANGED rows
  BY <1>3 DEF Register, Delete, LoopSend
<1>4. ASSUME NEW t, NEW v \in Vigies, Start(t, v) PROVE UNCHANGED rows
  BY <1>4 DEF Start
<1>5. ASSUME NEW c \in Callers, Abandon(c) \/ CallSend(c) PROVE UNCHANGED rows
  BY <1>5 DEF Abandon, CallSend
<1>6. ASSUME NEW s \in Subscribers, Subscribe(s) \/ Leave(s) \/ Lag(s) \/ Recv(s)
      PROVE  UNCHANGED rows
  BY <1>6 DEF Subscribe, Leave, Lag, Recv
<1>7. UNCHANGED vars => UNCHANGED rows
  BY DEF vars
<1> QED
  BY <1>0, <1>1, <1>2, <1>3, <1>4, <1>5, <1>6, <1>7 DEF Next, LoopStart, CallStart

LEMMA SafeStep ==
  ASSUME TypeOK, [Next]_vars, NEW run \in Runs, Safe(rows, run)
  PROVE  Safe(rows', run)
<1>1. CASE rows \subseteq rows' /\ rows' \subseteq Runs
  BY <1>1, MoreBeyond DEF Safe
<1>2. ASSUME NEW v \in Vigies, NEW new \in Runs, rows' = Trimmed(rows \cup {new}, v)
      PROVE  Safe(rows', run)
  <2> DEFINE S == rows \cup {new}
  <2>1. rows \subseteq S /\ S \subseteq Runs
    BY DEF TypeOK
  <2> HIDE DEF S
  <2>2. rows' = Trimmed(S, v)
    BY <1>2 DEF S
  <2>3. CASE Beyond(rows, run.vigy, run.id)
    BY <2>1, <2>2, <2>3, MoreBeyond, TrimBeyond, RowFields DEF Safe
  <2>4. CASE Row(run) \in rows
    <3>1. CASE Row(run) \in rows'
      BY <3>1 DEF Safe
    <3>2. CASE Row(run) \notin rows'
      BY <2>1, <2>2, <2>4, <3>2, TrimGoes, RowFields DEF Safe
    <3> QED
      BY <3>1, <3>2
  <2> QED
    BY <2>3, <2>4 DEF Safe
<1> QED
  BY <1>1, <1>2, RowsStep

\* Runs are kept for audit: registration, deletion, failed inserts and other
\* processes leave them alone, and insert_run removes one of a vigy only when the
\* limit's worth of later ones is there.
THEOREM RunsStayForAudit == Spec => AuditKept
<1>1. ASSUME TypeOK, [Next]_vars, NEW r \in rows \ rows'
      PROVE  Beyond(rows', r.vigy, r.id)
  <2>1. PICK v \in Vigies, new \in Runs : rows' = Trimmed(rows \cup {new}, v)
    BY <1>1, RowsStep
  <2>2. rows \cup {new} \subseteq Runs
    BY <1>1 DEF TypeOK
  <2> QED
    BY <2>1, <2>2, TrimGoes
<1>2. TypeOK /\ [Next]_vars =>
        [\A r \in rows \ rows' :
           Limited /\ Cardinality(Later(Ids(OfVigy(rows', r.vigy)), r.id)) >= Keep]_vars
  BY <1>1 DEF Beyond
<1> QED
  BY <1>2, TypeCorrect, PTL DEF Spec, AuditKept

\* A run that insert_run recorded is safe in its task's hands, and after.
AnswerInv ==
  /\ NumberInv
  /\ \A run \in answered : Safe(rows, run)
  /\ \A t \in Tasks : At(t, "send") /\ fate[IdOf(t)] = "kept" => Safe(rows, task[t].run)

LEMMA AnswerStep == AnswerInv /\ [Next]_vars => AnswerInv'
<1> SUFFICES ASSUME AnswerInv, [Next]_vars PROVE AnswerInv'
  OBVIOUS
<1>0. NumberInv /\ NumberInv' /\ TypeOK /\ TypeOK'
  BY NumberStep DEF AnswerInv, NumberInv
<1>1. /\ \A run \in answered : Safe(rows', run)
      /\ \A t \in Tasks : At(t, "send") /\ fate[IdOf(t)] = "kept" => Safe(rows', task[t].run)
  BY <1>0, SafeStep DEF AnswerInv, TypeOK
\* A step that neither records nor answers.
<1>2. ASSUME UNCHANGED <<fate, answered>>,
             \A t \in Tasks : task'[t] = task[t] \/ task'[t].pc # "send"
      PROVE  AnswerInv'
  BY <1>0, <1>1, <1>2 DEF AnswerInv, At, IdOf
<1>3. ASSUME NEW t \in Tasks, NEW pc, pc # "send", NEW run, Becomes(t, pc, run),
             UNCHANGED <<fate, answered>>
      PROVE  AnswerInv'
  BY <1>0, <1>2, <1>3, BecomesShape
<1>4. ASSUME NEW v \in Vigies, Register(v) \/ Delete(v) PROVE AnswerInv'
  BY <1>3, <1>4, TasksAre DEF Register, Delete
<1>5. ASSUME NEW t \in Tasks, NEW v \in Vigies, Start(t, v) PROVE AnswerInv'
  BY <1>3, <1>5 DEF Start
<1>6. ASSUME NEW c \in Callers, Abandon(c) PROVE AnswerInv'
  BY <1>3, <1>6, TasksAre DEF Abandon
<1>7. ASSUME NEW v \in Vigies, LoopSend(v) PROVE AnswerInv'
  BY <1>3, <1>7, TasksAre DEF LoopSend
<1>8. CASE UNCHANGED <<task, fate, answered>>
  BY <1>2, <1>8
\* tick_now answers with what was kept.
<1>9. ASSUME NEW c \in Callers, CallSend(c) PROVE AnswerInv'
  <2>1. /\ At(c, "send") /\ Becomes(c, "none", NoRun) /\ UNCHANGED fate
        /\ \/ UNCHANGED answered
           \/ fate[IdOf(c)] = "kept" /\ answered' = answered \cup {task[c].run}
    BY <1>9 DEF CallSend, IdOf
  <2>2. /\ c \in Tasks /\ task'[c].pc = "none"
        /\ \A u \in Tasks : u # c => task'[u] = task[u]
    BY <1>0, <2>1, BecomesShape, TasksAre
  <2> QED
    BY <1>0, <1>1, <2>1, <2>2 DEF AnswerInv, At, IdOf
\* The run is recorded, and by nobody else under its number.
<1>10. ASSUME NEW t \in Tasks, NEW p \in Programs, Insert(t, p) PROVE AnswerInv'
  <2> PICK run \in Runs :
        /\ At(t, "tick") /\ run.id = IdOf(t)
        /\ Row(run) \in Runs
        /\ \/ /\ rows' = Trimmed(rows \cup {Row(run)}, run.vigy)
              /\ fate' = [fate EXCEPT ![run.id] = "kept"]
           \/ fate' = [fate EXCEPT ![run.id] = "error"]
        /\ Becomes(t, "send", run)
        /\ UNCHANGED answered
    BY <1>0, <1>10, InsertShape DEF IdOf
  <2>1. /\ task'[t].pc = "send" /\ task'[t].run = run
        /\ \A u \in Tasks : u # t => task'[u] = task[u]
    BY <1>0, BecomesShape
  <2>2. ASSUME fate'[run.id] = "kept" PROVE Safe(rows', run)
    <3>1. rows' = Trimmed(rows \cup {Row(run)}, run.vigy)
      BY <1>0, <2>2, RowFields DEF TypeOK
    <3>2. rows \cup {Row(run)} \subseteq Runs
      BY <1>0 DEF TypeOK
    <3> QED
      BY <3>1, <3>2, TrimGoes, RowFields DEF Safe
  <2>3. ASSUME NEW u \in Tasks, u # t, At(u, "send"), fate'[IdOf(u)] = "kept"
        PROVE  fate[IdOf(u)] = "kept"
    <3>1. IdOf(u) # run.id /\ IdOf(u) \in RunIds
      BY <1>0, <2>3, RunIdsAre DEF NumberInv, HandsApart, InHand, At, TypeOK
    <3> QED
      BY <1>0, <2>3, <3>1 DEF TypeOK
  <2> QED
    BY <1>0, <1>1, <2>1, <2>2, <2>3 DEF AnswerInv, At, IdOf
<1>11. ASSUME NEW v \in Vigies, NEW p \in Does[v], Elsewhere(v, p) PROVE AnswerInv'
  <2> PICK run \in Runs :
        /\ run.id = minted + 1 /\ fate' = [fate EXCEPT ![run.id] = "kept"]
        /\ UNCHANGED <<task, answered>>
    BY <1>0, <1>11, ElsewhereShape
  <2>1. ASSUME NEW t \in Tasks, At(t, "send") PROVE fate'[IdOf(t)] = fate[IdOf(t)]
    <3>1. IdOf(t) \in 1..minted /\ minted \in Nat /\ IdOf(t) \in RunIds
      BY <1>0, <2>1, RunIdsAre DEF NumberInv, HandsApart, InHand, At, TypeOK
    <3>2. IdOf(t) # run.id
      BY <3>1
    <3> QED
      BY <1>0, <3>1, <3>2 DEF TypeOK
  <2> QED
    BY <1>0, <1>1, <2>1 DEF AnswerInv, At, IdOf
<1>12. ASSUME NEW s \in Subscribers, Subscribe(s) \/ Leave(s) \/ Lag(s) \/ Recv(s)
       PROVE  AnswerInv'
  BY <1>8, <1>12 DEF Subscribe, Leave, Lag, Recv
<1>13. CASE UNCHANGED vars
  BY <1>8, <1>13 DEF vars
<1> QED
  BY <1>4, <1>5, <1>6, <1>7, <1>9, <1>10, <1>11, <1>12, <1>13, TasksAre
     DEF Next, LoopStart, CallStart

\* tick_now's Ok is kept: the run is in the store as the caller has it, until the
\* limit's worth of later ones of its vigy is.
THEOREM AnswersAreKept == Spec => []AnswersKept
<1>1. Init => AnswerInv
  <2> SUFFICES ASSUME Init PROVE AnswerInv
    OBVIOUS
  <2>1. \A t \in Tasks : task[t].pc = "none"
    BY DEF Init, NoTask, Task
  <2> QED
    BY <2>1, NumberInit DEF Init, AnswerInv, At
<1>2. AnswerInv => AnswersKept
  BY DEF AnswerInv, AnswersKept, Safe, Beyond
<1> QED
  BY <1>1, <1>2, AnswerStep, PTL DEF Spec

(***************************************************************************)
(* recent_runs across seconds                                              *)
(***************************************************************************)
\* The texts of a second's times sort between those of the seconds around it.
LEMMA TextOfSecond ==
  ASSUME NEW time \in Nat
  PROVE  /\ time \div 100 \in Nat /\ TextRank(time) \in Nat
         /\ 111 * (time \div 100) <= TextRank(time)
         /\ TextRank(time) <= 111 * (time \div 100) + 110
<1> DEFINE second == time \div 100  fraction == time % 100
           tens == fraction \div 10  units == fraction % 10
           within == IF fraction = 0 THEN 110 ELSE 11 * tens + (IF units = 0 THEN 10 ELSE units)
<1>1. second \in Nat /\ fraction \in 0..99
  OBVIOUS
<1>2. TextRank(time) = 111 * second + within
  BY DEF TextRank
<1>3. within \in 0..110
  <2> HIDE DEF fraction
  <2>1. tens \in 0..9 /\ units \in 0..9
    BY <1>1
  <2> HIDE DEF tens, units
  <2> QED
    BY <2>1
<1> HIDE DEF second, within
<1>4. TextRank(time) \in Nat /\ 111 * second <= TextRank(time) /\ TextRank(time) <= 111 * second + 110
  BY <1>1, <1>2, <1>3
<1> QED
  BY <1>1, <1>4 DEF second

LEMMA LaterSecondLaterText ==
  ASSUME NEW a \in Nat, NEW b \in Nat, ~(b \div 100 <= a \div 100)
  PROVE  TextRank(b) > TextRank(a)
<1> DEFINE A == a \div 100  B == b \div 100  x == TextRank(a)  y == TextRank(b)
<1>1. /\ A \in Nat /\ B \in Nat /\ x \in Nat /\ y \in Nat
      /\ x <= 111 * A + 110 /\ 111 * B <= y /\ ~(B <= A)
  BY TextOfSecond
<1> HIDE DEF A, B, x, y
<1>2. y > x
  BY <1>1
<1> QED
  BY <1>2 DEF x, y

\* At any time only finitely many runs are recorded.
FewRows == TypeOK /\ IsFiniteSet(rows)

LEMMA RowsFinite == FewRows /\ [Next]_vars => FewRows'
<1> SUFFICES ASSUME TypeOK, IsFiniteSet(rows), [Next]_vars PROVE IsFiniteSet(rows')
  BY TypeStep DEF FewRows
<1>1. ASSUME NEW x, NEW T, T \subseteq rows \cup {x} PROVE IsFiniteSet(T)
  BY <1>1, FS_AddElement, FS_Subset
<1>2. ASSUME NEW t \in Tasks, NEW p \in Programs, Insert(t, p) PROVE IsFiniteSet(rows')
  <2> PICK run \in Runs : \/ rows' = Trimmed(rows \cup {Row(run)}, run.vigy)
                          \/ rows' \in {rows, rows \cup {Row(run)}}
    BY <1>2, InsertShape
  <2>1. rows' \subseteq rows \cup {Row(run)}
    BY TrimmedPart
  <2> QED
    BY <1>1, <2>1
<1>3. ASSUME NEW v \in Vigies, NEW p \in Does[v], Elsewhere(v, p) PROVE IsFiniteSet(rows')
  <2> PICK run \in Runs : rows' = Trimmed(rows \cup {run}, v)
    BY <1>3, ElsewhereShape
  <2>1. rows' \subseteq rows \cup {run}
    BY TrimmedPart
  <2> QED
    BY <1>1, <2>1
<1>4. ASSUME NEW v \in Vigies, Register(v) \/ Delete(v) \/ LoopSend(v) PROVE UNCHANGED rows
  BY <1>4 DEF Register, Delete, LoopSend
<1>5. ASSUME NEW t, NEW v \in Vigies, Start(t, v) PROVE UNCHANGED rows
  BY <1>5 DEF Start
<1>6. ASSUME NEW c \in Callers, Abandon(c) \/ CallSend(c) PROVE UNCHANGED rows
  BY <1>6 DEF Abandon, CallSend
<1>7. ASSUME NEW s \in Subscribers, Subscribe(s) \/ Leave(s) \/ Lag(s) \/ Recv(s)
      PROVE  UNCHANGED rows
  BY <1>7 DEF Subscribe, Leave, Lag, Recv
<1>8. UNCHANGED vars => UNCHANGED rows
  BY DEF vars
<1> QED
  BY <1>2, <1>3, <1>4, <1>5, <1>6, <1>7, <1>8 DEF Next, LoopStart, CallStart

\* recent_runs orders by text, which within a second is not the order of time,
\* but no run it gives is of an earlier second than one it leaves out.
THEOREM RecentBySecond == Spec => []RecentAcrossSeconds
<1>1. TypeOK /\ IsFiniteSet(rows) => RecentAcrossSeconds
  <2> SUFFICES ASSUME TypeOK, IsFiniteSet(rows),
                      NEW v \in Vigies, NEW n \in 1..Cardinality(RunIds),
                      NEW r \in Recent(v, n), NEW q \in OfVigy(rows, v) \ Recent(v, n),
                      ~(Started[q.id] \div 100 <= Started[r.id] \div 100)
               PROVE  FALSE
    BY DEF RecentAcrossSeconds
  <2> DEFINE S == OfVigy(rows, v)
             After(x) == {y \in S : TextRank(Started[y.id]) > TextRank(Started[x.id])}
             fewer == Cardinality(After(q))
             more == Cardinality(After(r))
  <2>1. r \in S /\ q \in S /\ S \subseteq Runs
    BY DEF Recent, OfVigy, TypeOK
  <2>2. more < n /\ ~(fewer < n)
    BY <2>1 DEF Recent
  <2>3. \A x \in S : Started[x.id] \in Nat /\ TextRank(Started[x.id]) \in Nat
    BY <2>1, RowFields, RunFeedAssumption, TextOfSecond
  <2>4. TextRank(Started[q.id]) > TextRank(Started[r.id])
    BY <2>1, <2>3, LaterSecondLaterText
  <2>5. After(q) \subseteq After(r)
    <3> DEFINE rank(x) == TextRank(Started[x.id])
    <3>1. rank(q) > rank(r) /\ rank(q) \in Nat /\ rank(r) \in Nat
      BY <2>1, <2>3, <2>4
    <3>2. \A x \in S : rank(x) \in Nat
      BY <2>3
    <3> HIDE DEF rank
    <3>3. \A x \in S : rank(x) > rank(q) => rank(x) > rank(r)
      BY <3>1, <3>2
    <3> QED
      BY <3>3 DEF rank
  <2>6. more \in Nat /\ fewer \in Nat /\ fewer <= more
    <3>1. S \in SUBSET rows /\ After(r) \in SUBSET S /\ After(q) \in SUBSET After(r)
      BY <2>5 DEF OfVigy
    <3> HIDE DEF S, After
    <3>2. IsFiniteSet(S)
      BY <3>1, FS_Subset
    <3>3. IsFiniteSet(After(r))
      BY <3>1, <3>2, FS_Subset
    <3>4. IsFiniteSet(After(q)) /\ Cardinality(After(q)) <= Cardinality(After(r))
      BY <3>1, <3>3, FS_Subset
    <3> QED
      BY <3>3, <3>4, FS_CardinalityType
  <2>7. n \in Nat
    BY FS_CardinalityType, RunFeedAssumption
  <2> HIDE DEF fewer, more
  <2> QED
    BY <2>2, <2>6, <2>7
<1>2. Init => FewRows
  BY TypeInit, FS_EmptySet DEF Init, FewRows
<1>3. FewRows => RecentAcrossSeconds
  BY <1>1 DEF FewRows
<1> QED
  BY <1>2, <1>3, RowsFinite, PTL DEF Spec

(***************************************************************************)
(* The bus as queues                                                       *)
(***************************************************************************)
\* The tags of what follows in S from its k-th run on.
Cut(S, k) == [i \in 1..(Len(S) + 1 - k) |-> Tag(S[k + i - 1])]

LEMMA TagTyped == ASSUME NEW run \in Runs PROVE Tag(run) \in Hand /\ Tag(run).vigy = run.vigy
BY DEF Runs, Tag, Hand

LEMMA CutTyped ==
  ASSUME NEW S \in Seq(Runs), NEW k \in 1..(Len(S) + 1)
  PROVE  /\ Cut(S, k) \in Seq(Hand) /\ Len(Cut(S, k)) = Len(S) + 1 - k
         /\ Len(S) + 1 - k \in Nat
         /\ \A i \in 1..(Len(S) + 1 - k) : /\ k + i - 1 \in 1..Len(S) /\ S[k + i - 1] \in Runs
                                           /\ Cut(S, k)[i] = Tag(S[k + i - 1])
<1> DEFINE n == Len(S) + 1 - k
<1>1. Len(S) \in Nat /\ n \in Nat /\ k \in Nat
  OBVIOUS
<1>2. \A i \in 1..n : k + i - 1 \in 1..Len(S)
  BY <1>1
<1>3. \A j \in 1..Len(S) : S[j] \in Runs
  OBVIOUS
<1>4. Cut(S, k) = [i \in 1..n |-> Tag(S[k + i - 1])]
  BY DEF Cut
<1> HIDE DEF n
<1>5. \A i \in 1..n : S[k + i - 1] \in Runs /\ Tag(S[k + i - 1]) \in Hand
  BY <1>2, <1>3, TagTyped
<1>6. Cut(S, k) \in [1..n -> Hand]
  BY <1>4, <1>5
<1>7. Cut(S, k) \in Seq(Hand) /\ Len(Cut(S, k)) = n
  BY <1>1, <1>6
<1>8. \A i \in 1..n : Cut(S, k)[i] = Tag(S[k + i - 1])
  BY <1>4
<1> QED
  BY <1>1, <1>2, <1>5, <1>7, <1>8 DEF n

\* Two sequences of tags are one if they are as long and agree everywhere.
LEMMA CutEqual ==
  ASSUME NEW S \in Seq(Hand), NEW T \in Seq(Hand), Len(S) = Len(T),
         \A i \in 1..Len(S) : S[i] = T[i]
  PROVE  S = T
BY SeqEqual

LEMMA CutAppend ==
  ASSUME NEW S \in Seq(Runs), NEW k \in 1..(Len(S) + 1), NEW run \in Runs
  PROVE  Cut(Append(S, run), k) = Append(Cut(S, k), Tag(run))
<1> DEFINE T == Append(S, run)  n == Len(S) + 1 - k
<1>1. /\ T \in Seq(Runs) /\ Len(T) = Len(S) + 1 /\ k \in 1..(Len(T) + 1)
      /\ \A j \in 1..Len(S) : T[j] = S[j]
      /\ T[Len(S) + 1] = run
  OBVIOUS
<1>2. n \in Nat /\ Len(T) + 1 - k = n + 1 /\ k + (n + 1) - 1 = Len(S) + 1
      /\ Cut(S, k) \in Seq(Hand) /\ Len(Cut(S, k)) = n
      /\ \A i \in 1..n : /\ k + i - 1 \in 1..Len(S)
                         /\ Cut(S, k)[i] = Tag(S[k + i - 1])
  BY <1>1, CutTyped
<1> HIDE DEF T
<1>3. /\ Cut(T, k) \in Seq(Hand) /\ Len(Cut(T, k)) = n + 1
      /\ \A i \in 1..(n + 1) : Cut(T, k)[i] = Tag(T[k + i - 1])
  BY <1>1, <1>2, CutTyped
<1> HIDE DEF n
<1> DEFINE A == Append(Cut(S, k), Tag(run))
<1>4. /\ A \in Seq(Hand) /\ Len(A) = n + 1 /\ A[n + 1] = Tag(run)
      /\ \A i \in 1..n : A[i] = Cut(S, k)[i]
  <2> DEFINE C == Cut(S, k)  h == Tag(run)
  <2>1. C \in Seq(Hand) /\ Len(C) = n /\ h \in Hand
    BY <1>2, TagTyped
  <2> HIDE DEF C, h
  <2>2. /\ Append(C, h) \in Seq(Hand) /\ Len(Append(C, h)) = n + 1 /\ Append(C, h)[n + 1] = h
        /\ \A i \in 1..n : Append(C, h)[i] = C[i]
    BY <2>1, AppendProperties
  <2> QED
    BY <2>2 DEF C, h
<1> HIDE DEF A
<1>5. \A i \in 1..(n + 1) : Cut(T, k)[i] = A[i]
  <2> TAKE i \in 1..(n + 1)
  <2>1. CASE i \in 1..n
    BY <1>1, <1>2, <1>3, <1>4, <2>1
  <2>2. CASE i = n + 1
    BY <1>1, <1>2, <1>3, <1>4, <2>2
  <2> QED
    BY <1>2, <2>1, <2>2
<1>6. Cut(T, k) = A
  BY <1>3, <1>4, <1>5, CutEqual
<1> QED
  BY <1>6 DEF A, T

LEMMA CutTail ==
  ASSUME NEW S \in Seq(Runs), NEW k \in 1..Len(S)
  PROVE  /\ Cut(S, k) # <<>> /\ Head(Cut(S, k)) = Tag(S[k])
         /\ Tail(Cut(S, k)) = Cut(S, k + 1)
<1> DEFINE C == Cut(S, k)  D == Cut(S, k + 1)  n == Len(S) - k
<1>1. /\ n \in Nat /\ Len(S) + 1 - k = n + 1 /\ Len(S) + 1 - (k + 1) = n
      /\ k \in 1..(Len(S) + 1) /\ k + 1 \in 1..(Len(S) + 1) /\ k + 1 - 1 = k
      /\ \A i \in 1..n : k + (i + 1) - 1 = (k + 1) + i - 1 /\ i + 1 \in 1..(n + 1)
  OBVIOUS
<1>2. /\ C \in Seq(Hand) /\ Len(C) = n + 1 /\ \A i \in 1..(n + 1) : C[i] = Tag(S[k + i - 1])
      /\ D \in Seq(Hand) /\ Len(D) = n /\ \A i \in 1..n : D[i] = Tag(S[(k + 1) + i - 1])
  BY <1>1, CutTyped
<1> HIDE DEF C, D, n
<1>3. C # <<>> /\ Head(C) = C[1] /\ C[1] = Tag(S[k])
  BY <1>1, <1>2
<1>4. Tail(C) \in Seq(Hand) /\ Len(Tail(C)) = n /\ \A i \in 1..n : Tail(C)[i] = C[i + 1]
  BY <1>1, <1>2, <1>3
<1>5. \A i \in 1..n : Tail(C)[i] = D[i]
  BY <1>1, <1>2, <1>4
<1>6. Tail(C) = D
  BY <1>2, <1>4, <1>5, CutEqual
<1> QED
  BY <1>3, <1>6 DEF C, D

LEMMA CutSkip ==
  ASSUME NEW S \in Seq(Runs), NEW k \in 1..(Len(S) + 1), NEW m \in k..(Len(S) + 1)
  PROVE  SubSeq(Cut(S, k), (m - k) + 1, Len(Cut(S, k))) = Cut(S, m)
<1> DEFINE C == Cut(S, k)  D == Cut(S, m)  d == m - k  n == Len(S) + 1 - m
<1>1. /\ n \in Nat /\ d \in Nat /\ Len(S) + 1 - k = d + n /\ m \in 1..(Len(S) + 1)
      /\ \A i \in 1..n : k + (d + i) - 1 = m + i - 1 /\ d + i \in 1..(d + n)
  OBVIOUS
<1>2. /\ C \in Seq(Hand) /\ Len(C) = d + n /\ \A i \in 1..(d + n) : C[i] = Tag(S[k + i - 1])
      /\ D \in Seq(Hand) /\ Len(D) = n /\ \A i \in 1..n : D[i] = Tag(S[m + i - 1])
  BY <1>1, CutTyped
<1> HIDE DEF C, D, n, d
<1> DEFINE R == SubSeq(C, d + 1, Len(C))
<1>3. R \in Seq(Hand) /\ Len(R) = n /\ \A i \in 1..n : R[i] = C[d + i]
  BY <1>1, <1>2
<1> HIDE DEF R
<1>4. \A i \in 1..n : R[i] = D[i]
  BY <1>1, <1>2, <1>3
<1>5. R = D
  BY <1>2, <1>3, <1>4, CutEqual
<1> QED
  BY <1>5 DEF C, D, R, d

\* A receiver that is gone is as one that never was.
Queues == TypeOK /\ \A s \in Subscribers : ~rx[s].on => rx[s] = Off

LEMMA QueuesInit == Init => Queues
<1> SUFFICES ASSUME Init PROVE \A s \in Subscribers : rx[s] = Off
  BY TypeInit DEF Queues
<1> QED
  BY DEF Init

\* What a step that only writes one receiver makes of it.
LEMMA OneReceiver ==
  ASSUME TypeOK, NEW s \in Subscribers, NEW new \in RxType, rx' = [rx EXCEPT ![s] = new]
  PROVE  rx'[s] = new /\ \A u \in Subscribers : u # s => rx'[u] = rx[u]
<1>1. rx \in [Subscribers -> RxType]
  BY DEF TypeOK, RxType
<1> QED
  BY <1>1

\* The receivers the actions make.
JoinedRx == [Off EXCEPT !.on = TRUE, !.next = Len(sent) + 1]
LaggedRx(s) == [rx[s] EXCEPT !.lost = @ + (Oldest - rx[s].next), !.next = Oldest]
ToldRx(s) ==
  [rx[s] EXCEPT !.next = @ + 1,
                !.shown = IF sent[rx[s].next].vigy \in Filter[s]
                          THEN Append(@, sent[rx[s].next]) ELSE @]

LEMMA JoinedIs ==
  ASSUME TypeOK
  PROVE  /\ JoinedRx \in RxType /\ JoinedRx.on /\ JoinedRx.next = Len(sent) + 1
         /\ JoinedRx.lost = 0 /\ JoinedRx.shown = <<>>
<1>1. Len(sent) + 1 \in Nat
  BY DEF TypeOK
<1>2. Off \in RxType /\ Off.lost = 0 /\ Off.shown = <<>>
  BY OffTyped DEF Off
<1> DEFINE n == Len(sent) + 1  r == Off  S == Seq(Runs)
<1> HIDE DEF n, r, S
<1>3. LET x == [r EXCEPT !.on = TRUE, !.next = n] IN
        /\ x \in [on : BOOLEAN, next : Nat, lost : Nat, shown : S]
        /\ x.on /\ x.next = n /\ x.lost = r.lost /\ x.shown = r.shown
  <2>1. r \in [on : BOOLEAN, next : Nat, lost : Nat, shown : S] /\ n \in Nat
    BY <1>1, <1>2 DEF n, r, S, RxType
  <2> QED
    BY <2>1
<1> QED
  BY <1>2, <1>3 DEF JoinedRx, n, r, S, RxType

LEMMA LaggedIs ==
  ASSUME TypeOK, NEW s \in Subscribers, rx[s].next < Oldest
  PROVE  /\ Len(sent) > Capacity /\ Oldest = Len(sent) - Capacity + 1
         /\ Oldest \in rx[s].next..(Len(sent) + 1)
         /\ Oldest - rx[s].next = (Len(sent) + 1 - rx[s].next) - Capacity
         /\ LaggedRx(s) \in RxType
         /\ LaggedRx(s).on = rx[s].on /\ LaggedRx(s).next = Oldest
         /\ LaggedRx(s).lost = rx[s].lost + (Oldest - rx[s].next)
         /\ LaggedRx(s).shown = rx[s].shown
<1> DEFINE k == rx[s].next  L == Len(sent)  l == rx[s].lost
<1>1. L \in Nat /\ k \in 1..(L + 1) /\ Capacity \in Nat \ {0} /\ l \in Nat /\ rx[s] \in RxType
  BY RunFeedAssumption DEF TypeOK, RxType
<1>2. k < Oldest /\ Oldest = IF L > Capacity THEN L - Capacity + 1 ELSE 1
  BY DEF Oldest
<1> HIDE DEF k, L, l
<1>3. L > Capacity /\ Oldest = L - Capacity + 1
  BY <1>1, <1>2
<1>4. /\ Oldest \in k..(L + 1) /\ Oldest - k = (L + 1 - k) - Capacity
      /\ Oldest \in Nat /\ Oldest - k \in Nat /\ l + (Oldest - k) \in Nat
  BY <1>1, <1>2, <1>3
<1> DEFINE n == Oldest  m == l + (Oldest - k)  r == rx[s]  S == Seq(Runs)
<1> HIDE DEF n, m, r, S
<1>5. LET x == [r EXCEPT !.lost = m, !.next = n] IN
        /\ x \in [on : BOOLEAN, next : Nat, lost : Nat, shown : S]
        /\ x.on = r.on /\ x.next = n /\ x.lost = m /\ x.shown = r.shown
  <2>1. r \in [on : BOOLEAN, next : Nat, lost : Nat, shown : S] /\ n \in Nat /\ m \in Nat
    BY <1>1, <1>4 DEF n, m, r, S, RxType
  <2> QED
    BY <2>1
<1>6. LaggedRx(s) = [r EXCEPT !.lost = m, !.next = n]
  BY DEF LaggedRx, r, m, n, l, k
<1> QED
  BY <1>3, <1>4, <1>5, <1>6 DEF n, m, r, S, RxType, k, L, l

LEMMA ToldIs ==
  ASSUME TypeOK, NEW s \in Subscribers, rx[s].next \in Oldest..Len(sent)
  PROVE  /\ rx[s].next \in 1..Len(sent) /\ sent[rx[s].next] \in Runs
         /\ ToldRx(s) \in RxType
         /\ ToldRx(s).on = rx[s].on /\ ToldRx(s).next = rx[s].next + 1
         /\ ToldRx(s).lost = rx[s].lost
         /\ ToldRx(s).shown = IF sent[rx[s].next].vigy \in Filter[s]
                              THEN Append(rx[s].shown, sent[rx[s].next]) ELSE rx[s].shown
<1> DEFINE k == rx[s].next  run == sent[k]
           q == IF run.vigy \in Filter[s] THEN Append(rx[s].shown, run) ELSE rx[s].shown
<1>1. /\ k \in 1..(Len(sent) + 1) /\ k \in Nat /\ rx[s] \in RxType
      /\ rx[s].shown \in Seq(Runs) /\ sent \in Seq(Runs) /\ Len(sent) \in Nat
  BY DEF TypeOK, RxType
<1>2. k \in 1..Len(sent) /\ k + 1 \in Nat
  <2> HIDE DEF k
  <2>1. k <= Len(sent)
    BY DEF k, Oldest
  <2> QED
    BY <1>1, <2>1
<1>3. run \in Runs
  BY <1>1, <1>2
<1>4. q \in Seq(Runs)
  <2> HIDE DEF run
  <2> QED
    BY <1>1, <1>3, AppendProperties
<1> DEFINE r == rx[s]  n == k + 1  S == Seq(Runs)
<1> HIDE DEF n, q, r, S
<1>5. LET x == [r EXCEPT !.next = n, !.shown = q] IN
        /\ x \in [on : BOOLEAN, next : Nat, lost : Nat, shown : S]
        /\ x.on = r.on /\ x.next = n /\ x.lost = r.lost /\ x.shown = q
  <2>1. r \in [on : BOOLEAN, next : Nat, lost : Nat, shown : S] /\ n \in Nat /\ q \in S
    BY <1>1, <1>2, <1>4 DEF n, r, S, RxType
  <2> QED
    BY <2>1
<1>6. ToldRx(s) = [r EXCEPT !.next = n, !.shown = q]
  BY DEF ToldRx, r, n, q
<1> QED
  BY <1>2, <1>3, <1>5, <1>6 DEF n, r, q, S, RxType

LEMMA DueIsCut == \A s \in Subscribers : Due(s) = Cut(sent, rx[s].next)
BY DEF Due, Cut

LEMMA TagsAre ==
  /\ Tags(<<>>) = <<>>
  /\ \A S \in Seq(Runs), run \in Runs : Tags(Append(S, run)) = Append(Tags(S), Tag(run))
<1>1. ASSUME NEW S \in Seq(Runs) PROVE Tags(S) = Cut(S, 1) /\ 1 \in 1..(Len(S) + 1)
  <2>1. DOMAIN S = 1..Len(S) /\ Len(S) \in Nat /\ Len(S) + 1 - 1 = Len(S)
    OBVIOUS
  <2>2. \A i \in 1..Len(S) : 1 + i - 1 = i
    BY <2>1
  <2> QED
    BY <2>1, <2>2 DEF Tags, Cut
<1>2. Tags(<<>>) = <<>>
  BY DEF Tags
<1>3. ASSUME NEW S \in Seq(Runs), NEW run \in Runs
      PROVE  Tags(Append(S, run)) = Append(Tags(S), Tag(run))
  <2>1. Append(S, run) \in Seq(Runs)
    OBVIOUS
  <2> QED
    BY <1>1, <2>1, CutAppend
<1> QED
  BY <1>2, <1>3

\* What the queues see of a step that writes one receiver.
Writes(s, new) == rx' = [rx EXCEPT ![s] = new] /\ UNCHANGED sent

LEMMA Changed ==
  ASSUME NEW S, NEW F, NEW G, F = [u \in S |-> F[u]], G = [u \in S |-> G[u]],
         NEW s \in S, \A u \in S : u # s => G[u] = F[u]
  PROVE  G = [F EXCEPT ![s] = G[s]]
OBVIOUS

LEMMA OneQueue ==
  ASSUME TypeOK, NEW s \in Subscribers, NEW new, new \in RxType, Writes(s, new)
  PROVE  /\ Open' = IF new.on THEN Open \cup {s} ELSE Open \ {s}
         /\ Waiting' = [Waiting EXCEPT ![s] = IF new.on THEN Cut(sent, new.next) ELSE <<>>]
         /\ Seen' = [Seen EXCEPT ![s] = Tags(new.shown)]
         /\ Missed' = [Missed EXCEPT ![s] = new.lost]
<1>1. /\ rx'[s] = new /\ \A u \in Subscribers : u # s => rx'[u] = rx[u]
      /\ UNCHANGED sent
  BY OneReceiver DEF Writes
<1>2. Open' = IF new.on THEN Open \cup {s} ELSE Open \ {s}
  <2>1. new.on \in BOOLEAN /\ \A u \in Subscribers : rx[u].on \in BOOLEAN
    BY DEF TypeOK, RxType
  <2> QED
    BY <1>1, <2>1 DEF Open
<1>3. /\ (Due(s))' = Cut(sent, new.next)
      /\ \A u \in Subscribers : u # s => (Due(u))' = Due(u)
  BY <1>1 DEF Due, Cut
<1>4. Waiting' = [u \in Subscribers |-> IF rx'[u].on THEN (Due(u))' ELSE <<>>]
  BY DEF Waiting
<1>5. Waiting' = [Waiting EXCEPT ![s] = IF new.on THEN Cut(sent, new.next) ELSE <<>>]
  BY <1>1, <1>3, <1>4 DEF Waiting
<1>6. Seen' = [Seen EXCEPT ![s] = Tags(new.shown)]
  <2> DEFINE F == Seen  G == [u \in Subscribers |-> Tags(rx'[u].shown)]
  <2>1. Seen' = G
    BY DEF Seen, Tags
  <2>2. /\ F = [u \in Subscribers |-> F[u]] /\ G = [u \in Subscribers |-> G[u]]
        /\ G[s] = Tags(new.shown) /\ \A u \in Subscribers : u # s => G[u] = F[u]
    BY <1>1 DEF Seen
  <2> HIDE DEF F, G
  <2>3. G = [F EXCEPT ![s] = G[s]]
    BY <2>2, Changed
  <2> QED
    BY <2>1, <2>2, <2>3 DEF F
<1>7. Missed' = [Missed EXCEPT ![s] = new.lost]
  <2> DEFINE F == Missed  G == [u \in Subscribers |-> rx'[u].lost]
  <2>1. Missed' = G
    BY DEF Missed
  <2>2. /\ F = [u \in Subscribers |-> F[u]] /\ G = [u \in Subscribers |-> G[u]]
        /\ G[s] = new.lost /\ \A u \in Subscribers : u # s => G[u] = F[u]
    BY <1>1 DEF Missed
  <2> HIDE DEF F, G
  <2>3. G = [F EXCEPT ![s] = G[s]]
    BY <2>2, Changed
  <2> QED
    BY <2>1, <2>2, <2>3 DEF F
<1> QED
  BY <1>2, <1>5, <1>6, <1>7

\* The queues of a receiver, by its fields.
LEMMA QueueOf ==
  ASSUME NEW s \in Subscribers
  PROVE  /\ Waiting[s] = IF rx[s].on THEN Cut(sent, rx[s].next) ELSE <<>>
         /\ Seen[s] = Tags(rx[s].shown) /\ Missed[s] = rx[s].lost
         /\ s \in Open <=> rx[s].on
BY DueIsCut DEF Waiting, Seen, Missed, Open

LEMMA QueuesAreFunctions ==
  /\ DOMAIN Waiting = Subscribers /\ DOMAIN Seen = Subscribers /\ DOMAIN Missed = Subscribers
  /\ Waiting = [s \in Subscribers |-> Waiting[s]]
  /\ Seen = [s \in Subscribers |-> Seen[s]]
  /\ Missed = [s \in Subscribers |-> Missed[s]]
BY DEF Waiting, Seen, Missed

LEMMA SameQueues == UNCHANGED <<sent, rx>> => UNCHANGED Bus!vars
BY DEF Bus!vars, Open, Waiting, Due, Seen, Missed, Tags

LEMMA SubscribeJoins ==
  ASSUME Queues, NEW s \in Subscribers, Subscribe(s)
  PROVE  Bus!Join(s)
<1>1. TypeOK /\ rx[s] = Off /\ ~rx[s].on
  BY DEF Queues, Subscribe
<1>2. Writes(s, JoinedRx)
  BY DEF Subscribe, JoinedRx, Writes
<1>3. Cut(sent, Len(sent) + 1) = <<>>
  <2>1. sent \in Seq(Runs) /\ Len(sent) + 1 \in 1..(Len(sent) + 1)
        /\ Len(sent) + 1 - (Len(sent) + 1) = 0
    BY <1>1 DEF TypeOK
  <2>2. Cut(sent, Len(sent) + 1) \in Seq(Hand) /\ Len(Cut(sent, Len(sent) + 1)) = 0
    BY <2>1, CutTyped
  <2> QED
    BY <2>2, EmptySeq
<1>4. Waiting[s] = <<>> /\ Seen[s] = <<>> /\ Missed[s] = 0 /\ s \notin Open
  BY <1>1, QueueOf, TagsAre DEF Off
<1>5. /\ Open' = Open \cup {s}
      /\ Waiting' = [Waiting EXCEPT ![s] = <<>>]
      /\ Seen' = [Seen EXCEPT ![s] = <<>>]
      /\ Missed' = [Missed EXCEPT ![s] = 0]
  BY <1>1, <1>2, <1>3, JoinedIs, OneQueue, TagsAre
<1>6. Waiting' = Waiting /\ Seen' = Seen /\ Missed' = Missed
  BY <1>4, <1>5, QueuesAreFunctions
<1> QED
  BY <1>4, <1>5, <1>6 DEF Bus!Join

LEMMA LeaveQuits ==
  ASSUME TypeOK, NEW s \in Subscribers, Leave(s)
  PROVE  Bus!Quit(s)
<1>1. Writes(s, Off)
  BY DEF Leave, Writes
<1>2. Off \in RxType /\ ~Off.on /\ Off.shown = <<>> /\ Off.lost = 0
  BY OffTyped DEF Off
<1>3. /\ Open' = Open \ {s}
      /\ Waiting' = [Waiting EXCEPT ![s] = <<>>]
      /\ Seen' = [Seen EXCEPT ![s] = <<>>]
      /\ Missed' = [Missed EXCEPT ![s] = 0]
  BY <1>1, <1>2, OneQueue, TagsAre
<1> QED
  BY <1>3 DEF Bus!Quit

LEMMA LagDrops ==
  ASSUME TypeOK, NEW s \in Subscribers, Lag(s)
  PROVE  Bus!Drop(s)
<1> DEFINE k == rx[s].next  m == Oldest  L == Len(sent)  n == Len(Waiting[s]) - Capacity
<1>1. rx[s].on /\ k < m /\ UNCHANGED sent
  BY DEF Lag
<1>2. Writes(s, LaggedRx(s))
  BY DEF Lag, LaggedRx, Writes
<1>3. /\ L > Capacity /\ m = L - Capacity + 1 /\ m \in k..(L + 1)
      /\ m - k = (L + 1 - k) - Capacity
      /\ LaggedRx(s) \in RxType /\ LaggedRx(s).on /\ LaggedRx(s).next = m
      /\ LaggedRx(s).lost = rx[s].lost + (m - k) /\ LaggedRx(s).shown = rx[s].shown
  BY <1>1, LaggedIs
<1>4. sent \in Seq(Runs) /\ k \in 1..(L + 1) /\ L \in Nat /\ Capacity \in Nat
  BY RunFeedAssumption DEF TypeOK
<1>5. /\ Waiting[s] = Cut(sent, k) /\ Len(Waiting[s]) = L + 1 - k
      /\ Seen[s] = Tags(rx[s].shown) /\ Missed[s] = rx[s].lost /\ s \in Open
  <2>1. Len(Cut(sent, k)) = L + 1 - k
    BY <1>4, CutTyped
  <2> QED
    BY <1>1, <2>1, QueueOf, Zenon
<1>6. n = m - k /\ Len(Waiting[s]) > Capacity
  <2> HIDE DEF k, m, L
  <2> QED
    BY <1>1, <1>3, <1>4, <1>5
<1>7. SubSeq(Waiting[s], n + 1, Len(Waiting[s])) = Cut(sent, m)
  <2>1. n = m - k
    BY <1>6
  <2> HIDE DEF n
  <2>2. SubSeq(Cut(sent, k), (m - k) + 1, Len(Cut(sent, k))) = Cut(sent, m)
    BY <1>3, <1>4, CutSkip
  <2> QED
    BY <1>5, <2>1, <2>2
<1>8. /\ Open' = Open \cup {s}
      /\ Waiting' = [Waiting EXCEPT ![s] = Cut(sent, m)]
      /\ Seen' = [Seen EXCEPT ![s] = Tags(rx[s].shown)]
      /\ Missed' = [Missed EXCEPT ![s] = rx[s].lost + (m - k)]
  BY <1>1, <1>2, <1>3, OneQueue
<1> HIDE DEF n, m, k, L
<1>9. Open' = Open /\ Seen' = Seen
  BY <1>5, <1>8, QueuesAreFunctions
<1>10. /\ Waiting' = [Waiting EXCEPT ![s] = SubSeq(Waiting[s], n + 1, Len(Waiting[s]))]
       /\ Missed' = [Missed EXCEPT ![s] = Missed[s] + n]
  BY <1>5, <1>6, <1>7, <1>8
<1> QED
  BY <1>6, <1>9, <1>10 DEF Bus!Drop, n

LEMMA RecvDelivers ==
  ASSUME TypeOK, NEW s \in Subscribers, Recv(s)
  PROVE  Bus!Deliver(s)
<1> DEFINE k == rx[s].next  run == sent[k]
<1>1. rx[s].on /\ k \in Oldest..Len(sent) /\ UNCHANGED sent
  BY DEF Recv
<1>2. Writes(s, ToldRx(s))
  BY DEF Recv, ToldRx, Writes
<1>3. /\ k \in 1..Len(sent) /\ run \in Runs
      /\ ToldRx(s) \in RxType /\ ToldRx(s).on /\ ToldRx(s).next = k + 1
      /\ ToldRx(s).lost = rx[s].lost
      /\ ToldRx(s).shown = IF run.vigy \in Filter[s]
                           THEN Append(rx[s].shown, run) ELSE rx[s].shown
  BY <1>1, ToldIs
<1>4. sent \in Seq(Runs) /\ rx[s].shown \in Seq(Runs)
  BY DEF TypeOK, RxType
<1>5. /\ Waiting[s] = Cut(sent, k) /\ Seen[s] = Tags(rx[s].shown)
      /\ Missed[s] = rx[s].lost /\ s \in Open
  BY <1>1, QueueOf
<1>6. Waiting[s] # <<>> /\ Head(Waiting[s]) = Tag(run) /\ Tail(Waiting[s]) = Cut(sent, k + 1)
  BY <1>3, <1>4, <1>5, CutTail
<1>7. /\ Open' = Open \cup {s}
      /\ Waiting' = [Waiting EXCEPT ![s] = Cut(sent, k + 1)]
      /\ Seen' = [Seen EXCEPT ![s] = Tags(ToldRx(s).shown)]
      /\ Missed' = [Missed EXCEPT ![s] = rx[s].lost]
  BY <1>1, <1>2, <1>3, OneQueue
<1> DEFINE mine == [u \in Subscribers |-> {i \in Hand : i.vigy \in Filter[u]}][s]
<1>8. Tag(run) \in mine <=> run.vigy \in Filter[s]
  BY <1>3, TagTyped
<1> HIDE DEF mine, run, k
<1>9. Tags(ToldRx(s).shown) = IF Tag(run) \in mine THEN Append(Seen[s], Tag(run)) ELSE Seen[s]
  BY <1>3, <1>4, <1>5, <1>8, TagsAre
<1>10. Open' = Open /\ Missed' = Missed
  BY <1>5, <1>7, QueuesAreFunctions
<1>11. /\ Waiting' = [Waiting EXCEPT ![s] = Tail(Waiting[s])]
       /\ Seen' = [Seen EXCEPT ![s] = IF Head(Waiting[s]) \in mine
                                      THEN Append(Seen[s], Head(Waiting[s])) ELSE Seen[s]]
  BY <1>6, <1>7, <1>9
<1> QED
  BY <1>6, <1>10, <1>11 DEF Bus!Deliver, mine

LEMMA PublishPublishes ==
  ASSUME TypeOK, NEW run \in Runs, Publish(run), UNCHANGED rx
  PROVE  Bus!Publish(Tag(run)) \/ UNCHANGED Bus!vars
<1>1. CASE \A s \in Subscribers : ~rx[s].on
  BY <1>1, SameQueues DEF Publish
<1>2. CASE \E s \in Subscribers : rx[s].on
  <2>1. sent' = Append(sent, run) /\ sent \in Seq(Runs)
    BY <1>2 DEF Publish, TypeOK
  <2>2. ASSUME NEW s \in Subscribers PROVE (Due(s))' = Append(Due(s), Tag(run))
    <3>1. rx[s].next \in 1..(Len(sent) + 1)
      BY DEF TypeOK
    <3>2. (Due(s))' = Cut(sent', rx[s].next)
      BY DEF Due, Cut
    <3> QED
      BY <2>1, <3>1, <3>2, CutAppend, DueIsCut
  <2>3. Waiting' = [s \in Subscribers |-> IF rx[s].on THEN (Due(s))' ELSE <<>>]
    BY DEF Waiting
  <2>4. Waiting' = [s \in Subscribers |-> IF s \in Open THEN Append(Waiting[s], Tag(run))
                                                         ELSE Waiting[s]]
    BY <2>2, <2>3 DEF Waiting, Open
  <2>5. Open' = Open /\ Seen' = Seen /\ Missed' = Missed
    BY DEF Open, Seen, Missed, Tags
  <2> QED
    BY <2>4, <2>5 DEF Bus!Publish
<1> QED
  BY <1>1, <1>2

\* The steps that touch neither the bus nor a receiver, and those that send.
LEMMA OutsideBus ==
  ASSUME TypeOK, [Next]_vars,
         ~\E s \in Subscribers : Subscribe(s) \/ Leave(s) \/ Lag(s) \/ Recv(s)
  PROVE  /\ UNCHANGED rx
         /\ UNCHANGED sent \/ \E run \in Runs : Publish(run)
<1>1. ASSUME NEW v \in Vigies, Register(v) \/ Delete(v) PROVE UNCHANGED <<rx, sent>>
  BY <1>1 DEF Register, Delete
<1>2. ASSUME NEW t, NEW v \in Vigies, Start(t, v) PROVE UNCHANGED <<rx, sent>>
  BY <1>2 DEF Start
<1>3. ASSUME NEW v \in Vigies, NEW p \in Does[v], Elsewhere(v, p) PROVE UNCHANGED <<rx, sent>>
  BY <1>3 DEF Elsewhere
<1>4. ASSUME NEW t \in Tasks, NEW p \in Programs, Insert(t, p) PROVE UNCHANGED <<rx, sent>>
  BY <1>4 DEF Insert
<1>5. ASSUME NEW c \in Callers, Abandon(c) PROVE UNCHANGED <<rx, sent>>
  BY <1>5 DEF Abandon
<1>6. ASSUME NEW v \in Vigies, LoopSend(v)
      PROVE  UNCHANGED rx /\ \E run \in Runs : Publish(run)
  <2>1. task[v].run \in Runs
    BY <1>6, TasksAre DEF LoopSend, TypeOK
  <2> QED
    BY <1>6, <2>1 DEF LoopSend
<1>7. ASSUME NEW c \in Callers, CallSend(c)
      PROVE  UNCHANGED rx /\ (UNCHANGED sent \/ \E run \in Runs : Publish(run))
  <2>1. task[c].run \in Runs
    BY <1>7, TasksAre DEF CallSend, TypeOK
  <2> QED
    BY <1>7, <2>1 DEF CallSend
<1>8. CASE UNCHANGED vars
  BY <1>8 DEF vars
<1> QED
  BY <1>1, <1>2, <1>3, <1>4, <1>5, <1>6, <1>7, <1>8 DEF Next, LoopStart, CallStart

LEMMA QueuesStep == Queues /\ [Next]_vars => Queues'
<1> SUFFICES ASSUME Queues, [Next]_vars
             PROVE  \A s \in Subscribers : ~rx'[s].on => rx'[s] = Off
  BY TypeStep DEF Queues
<1>0. TypeOK /\ \A s \in Subscribers : ~rx[s].on => rx[s] = Off
  BY DEF Queues
<1>1. ASSUME NEW s \in Subscribers, NEW new, new \in RxType, Writes(s, new),
             ~new.on => new = Off
      PROVE  \A u \in Subscribers : ~rx'[u].on => rx'[u] = Off
  <2>1. rx'[s] = new /\ \A u \in Subscribers : u # s => rx'[u] = rx[u]
    BY <1>0, <1>1, OneReceiver DEF Writes
  <2> QED
    BY <1>0, <1>1, <2>1
<1>2. ASSUME NEW s \in Subscribers, Subscribe(s)
      PROVE  \A u \in Subscribers : ~rx'[u].on => rx'[u] = Off
  <2>1. Writes(s, JoinedRx)
    BY <1>2 DEF Subscribe, JoinedRx, Writes
  <2> QED
    BY <1>0, <1>1, <2>1, JoinedIs
<1>3. ASSUME NEW s \in Subscribers, Leave(s)
      PROVE  \A u \in Subscribers : ~rx'[u].on => rx'[u] = Off
  <2>1. Writes(s, Off)
    BY <1>3 DEF Leave, Writes
  <2> QED
    BY <1>1, <2>1, OffTyped
<1>4. ASSUME NEW s \in Subscribers, Lag(s)
      PROVE  \A u \in Subscribers : ~rx'[u].on => rx'[u] = Off
  <2>1. Writes(s, LaggedRx(s)) /\ rx[s].on /\ rx[s].next < Oldest
    BY <1>4 DEF Lag, LaggedRx, Writes
  <2> QED
    BY <1>0, <1>1, <2>1, LaggedIs
<1>5. ASSUME NEW s \in Subscribers, Recv(s)
      PROVE  \A u \in Subscribers : ~rx'[u].on => rx'[u] = Off
  <2>1. Writes(s, ToldRx(s)) /\ rx[s].on /\ rx[s].next \in Oldest..Len(sent)
    BY <1>5 DEF Recv, ToldRx, Writes
  <2> QED
    BY <1>0, <1>1, <2>1, ToldIs
<1>6. CASE ~\E s \in Subscribers : Subscribe(s) \/ Leave(s) \/ Lag(s) \/ Recv(s)
  BY <1>0, <1>6, OutsideBus
<1> QED
  BY <1>2, <1>3, <1>4, <1>5, <1>6

LEMMA BusInit == Init => Bus!Init
<1> SUFFICES ASSUME Init PROVE Bus!Init
  OBVIOUS
<1>1. \A s \in Subscribers : rx[s] = Off
  BY DEF Init
<1>2. ~Off.on /\ Off.shown = <<>> /\ Off.lost = 0
  BY DEF Off
<1>3. Open = {}
  BY <1>1, <1>2 DEF Open
<1>4. Waiting = [s \in Subscribers |-> <<>>]
  BY <1>1, <1>2 DEF Waiting
<1>5. Seen = [s \in Subscribers |-> <<>>]
  BY <1>1, <1>2, TagsAre DEF Seen
<1>6. Missed = [s \in Subscribers |-> 0]
  BY <1>1, <1>2 DEF Missed
<1> QED
  BY <1>3, <1>4, <1>5, <1>6 DEF Bus!Init

LEMMA BusStep == Queues /\ [Next]_vars => [Bus!Next]_Bus!vars
<1> SUFFICES ASSUME Queues, [Next]_vars PROVE Bus!Next \/ UNCHANGED Bus!vars
  OBVIOUS
<1>0. TypeOK
  BY DEF Queues
<1>1. ASSUME NEW s \in Subscribers, Subscribe(s) \/ Leave(s) \/ Lag(s) \/ Recv(s)
      PROVE  Bus!Next
  <2>1. Bus!Join(s) \/ Bus!Quit(s) \/ Bus!Drop(s) \/ Bus!Deliver(s)
    BY <1>0, <1>1, SubscribeJoins, LeaveQuits, LagDrops, RecvDelivers
  <2> QED
    BY <2>1 DEF Bus!Next
<1>2. CASE ~\E s \in Subscribers : Subscribe(s) \/ Leave(s) \/ Lag(s) \/ Recv(s)
  <2>1. UNCHANGED rx /\ (UNCHANGED sent \/ \E run \in Runs : Publish(run))
    BY <1>0, <1>2, OutsideBus
  <2>2. CASE UNCHANGED sent
    BY <2>1, <2>2, SameQueues
  <2>3. ASSUME NEW run \in Runs, Publish(run) PROVE Bus!Next \/ UNCHANGED Bus!vars
    <3>1. Bus!Publish(Tag(run)) \/ UNCHANGED Bus!vars
      BY <1>0, <2>1, <2>3, PublishPublishes
    <3>2. Tag(run) \in Hand
      BY TagTyped
    <3> QED
      BY <3>1, <3>2 DEF Bus!Next
  <2> QED
    BY <2>1, <2>2, <2>3
<1> QED
  BY <1>1, <1>2

\* The bus, with its numbers into a ring of what was sent, implements queues:
\* each receiver is told, in order, of all that was sent since it subscribed,
\* or of how much of it went past.
THEOREM BusIsQueues == Spec => FeedIsQueue
<1>1. Spec => []Queues
  BY QueuesInit, QueuesStep, PTL DEF Spec
<1> QED
  BY <1>1, BusInit, BusStep, PTL DEF Spec, FeedIsQueue, Bus!Spec

(***************************************************************************)
(* What a tail has shown                                                   *)
(***************************************************************************)
\* shown is what S has at the positions P, in their order.
Shown(shown, S, P) ==
  \E at \in [DOMAIN shown -> P] :
    /\ Rising(at) /\ Range(at) = P
    /\ \A i \in DOMAIN shown : shown[i] = S[at[i]]

\* Of what S has from position `from` on, r has come past all before next: some it
\* got, the others it counts as lost; it has shown what it got of the vigies F.
Accounts(from, r, S, F) ==
  /\ from \in 1..r.next
  /\ \E got \in SUBSET (from..(r.next - 1)) :
       /\ r.lost = Cardinality((from..(r.next - 1)) \ got)
       /\ Shown(r.shown, S, {k \in got : S[k].vigy \in F})

LEMMA ShownNothing == \A S : Shown(<<>>, S, {})
<1>1. DOMAIN <<>> = {}
  OBVIOUS
<1> DEFINE none == [i \in {} |-> 0]
<1>2. none \in [{} -> {}] /\ DOMAIN none = {} /\ Range(none) = {}
  BY DEF Range
<1> HIDE DEF none
<1> QED
  BY <1>1, <1>2 DEF Shown, Rising

LEMMA ShownOneMore ==
  ASSUME NEW A, NEW shown \in Seq(A), NEW S, NEW P \in SUBSET Nat, Shown(shown, S, P),
         NEW m \in Nat, \A k \in P : k < m, S[m] \in A
  PROVE  Shown(Append(shown, S[m]), S, P \cup {m})
<1> DEFINE L == Len(shown)
           more == Append(shown, S[m])
<1>1. /\ L \in Nat /\ DOMAIN shown = 1..L /\ DOMAIN more = 1..(L + 1)
      /\ more[L + 1] = S[m] /\ \A i \in 1..L : more[i] = shown[i]
  BY AppendProperties, LenProperties
<1>2. PICK at \in [1..L -> P] : /\ Rising(at) /\ Range(at) = P
                                /\ \A i \in 1..L : shown[i] = S[at[i]]
  BY <1>1 DEF Shown
<1> HIDE DEF L, more
<1>3. PICK longer : OneMore(at, L, P, m, longer)
  <2>1. /\ L \in Nat /\ P \in SUBSET Nat /\ m \in Nat
        /\ at \in [1..L -> P] /\ Rising(at) /\ \A d \in P : d < m
    BY <1>1, <1>2
  <2> QED
    BY <2>1, OneMoreRises
<1>4. \A i \in 1..(L + 1) : i \in 1..L \/ i = L + 1
  BY <1>1
<1>5. \A i \in 1..(L + 1) : more[i] = S[longer[i]]
  BY <1>1, <1>2, <1>3, <1>4 DEF OneMore
<1>6. Shown(more, S, P \cup {m})
  <2>1. /\ longer \in [DOMAIN more -> P \cup {m}] /\ Range(longer) = P \cup {m}
        /\ \A i \in DOMAIN more : more[i] = S[longer[i]]
    BY <1>1, <1>2, <1>3, <1>5 DEF OneMore
  <2>2. Rising(longer)
    BY <1>3 DEF OneMore
  <2> QED
    BY <2>1, <2>2, Zenon DEF Shown
<1> QED
  BY <1>6 DEF more

LEMMA ShownSame ==
  ASSUME NEW shown, NEW S, NEW T, NEW P, Shown(shown, S, P), \A k \in P : T[k] = S[k]
  PROVE  Shown(shown, T, P)
<1>1. PICK at \in [DOMAIN shown -> P] : /\ Rising(at) /\ Range(at) = P
                                        /\ \A i \in DOMAIN shown : shown[i] = S[at[i]]
  BY DEF Shown
<1>2. \A i \in DOMAIN shown : shown[i] = T[at[i]]
  BY <1>1
<1> QED
  BY <1>1, <1>2 DEF Shown

\* The bus takes another run: what a receiver is behind stays where it is.
LEMMA AccountsSent ==
  ASSUME NEW from, NEW r, NEW S, NEW T, NEW F, NEW n \in Nat, r.next \in 1..(n + 1),
         Accounts(from, r, S, F), \A k \in 1..n : T[k] = S[k]
  PROVE  Accounts(from, r, T, F)
<1>0. from \in 1..r.next
  BY DEF Accounts
<1>1. PICK got \in SUBSET (from..(r.next - 1)) :
        /\ r.lost = Cardinality((from..(r.next - 1)) \ got)
        /\ Shown(r.shown, S, {k \in got : S[k].vigy \in F})
  BY DEF Accounts
<1> DEFINE P == {k \in got : S[k].vigy \in F}
<1>2. \A k \in got : k \in 1..n
  BY <1>0, <1>1
<1>3. {k \in got : T[k].vigy \in F} = P
  BY <1>2
<1>4. Shown(r.shown, S, P) /\ \A k \in P : T[k] = S[k]
  BY <1>1, <1>2
<1> HIDE DEF P
<1>5. Shown(r.shown, T, P)
  BY <1>4, ShownSame
<1> QED
  BY <1>0, <1>1, <1>3, <1>5 DEF Accounts

LEMMA AccountsNothing ==
  ASSUME NEW r, r.next \in Nat \ {0}, r.lost = 0, r.shown = <<>>, NEW S, NEW F
  PROVE  Accounts(r.next, r, S, F)
<1> DEFINE from == r.next
<1>1. from \in 1..r.next /\ {} \in SUBSET (from..(r.next - 1))
  OBVIOUS
<1>2. (from..(r.next - 1)) \ {} = {}
  OBVIOUS
<1>3. {k \in {} : S[k].vigy \in F} = {}
  OBVIOUS
<1> HIDE DEF from
<1>4. r.lost = Cardinality((from..(r.next - 1)) \ {})
  BY <1>2, FS_EmptySet
<1>5. Shown(r.shown, S, {k \in {} : S[k].vigy \in F})
  BY <1>3, ShownNothing
<1>6. Accounts(from, r, S, F)
  BY <1>1, <1>4, <1>5 DEF Accounts
<1> QED
  BY <1>6 DEF from

\* A receiver that goes on at a later position has lost what lies between.
LEMMA AccountsLagged ==
  ASSUME NEW from, NEW r, r.next \in Nat \ {0}, NEW S, NEW F, Accounts(from, r, S, F),
         NEW q, q.next \in Nat, r.next <= q.next,
         q.lost = r.lost + (q.next - r.next), q.shown = r.shown
  PROVE  Accounts(from, q, S, F)
<1> DEFINE a == r.next  b == q.next
<1>0. from \in 1..a
  BY DEF Accounts
<1>1. PICK got \in SUBSET (from..(a - 1)) :
        /\ r.lost = Cardinality((from..(a - 1)) \ got)
        /\ Shown(r.shown, S, {k \in got : S[k].vigy \in F})
  BY DEF Accounts
<1>2. a \in Nat /\ b \in Nat /\ 1 <= a /\ a <= b
  OBVIOUS
<1> HIDE DEF a, b
<1> DEFINE old == (from..(a - 1)) \ got
           gap == a..(b - 1)
<1>3. from \in 1..b /\ got \in SUBSET (from..(b - 1))
  BY <1>0, <1>1, <1>2
<1>4. (from..(b - 1)) \ got = old \cup gap /\ old \cap gap = {}
  BY <1>0, <1>1, <1>2
<1>5. IsFiniteSet(old)
  <2>0. from \in Int /\ a - 1 \in Int
    BY <1>0, <1>2
  <2>1. IsFiniteSet(from..(a - 1)) /\ old \in SUBSET (from..(a - 1))
    BY <2>0, FS_Interval
  <2> QED
    BY <2>1, FS_Subset
<1>6. IsFiniteSet(gap) /\ Cardinality(gap) = b - a
  <2>0. a \in Int /\ b - 1 \in Int
    BY <1>2
  <2>1. IsFiniteSet(gap) /\ Cardinality(gap) = IF a > b - 1 THEN 0 ELSE (b - 1) - a + 1
    BY <2>0, FS_Interval
  <2> QED
    BY <1>2, <2>1
<1>7. Cardinality(old \cup gap) = Cardinality(old) + (b - a)
  <2> HIDE DEF old, gap
  <2>1. Cardinality(old \cup gap) = Cardinality(old) + Cardinality(gap) - Cardinality({})
    BY <1>4, <1>5, <1>6, FS_Union
  <2>2. Cardinality({}) = 0 /\ Cardinality(old) \in Nat
    BY <1>5, FS_EmptySet, FS_CardinalityType
  <2> QED
    BY <1>2, <1>6, <2>1, <2>2
<1>8. q.lost = Cardinality((from..(b - 1)) \ got)
  <2> HIDE DEF old, gap
  <2> QED
    BY <1>1, <1>4, <1>7 DEF old, a, b
<1> QED
  BY <1>1, <1>3, <1>8 DEF Accounts, b

\* A receiver that is told of the next run has got it, and shows it or not.
LEMMA AccountsTold ==
  ASSUME NEW A, NEW from, NEW r, r.next \in Nat \ {0}, r.shown \in Seq(A), NEW S, NEW F,
         Accounts(from, r, S, F), S[r.next] \in A,
         NEW q, q.next = r.next + 1, q.lost = r.lost,
         q.shown = IF S[r.next].vigy \in F THEN Append(r.shown, S[r.next]) ELSE r.shown
  PROVE  Accounts(from, q, S, F)
<1> DEFINE a == r.next
<1>0. from \in 1..a
  BY DEF Accounts
<1>1. PICK got \in SUBSET (from..(a - 1)) :
        /\ r.lost = Cardinality((from..(a - 1)) \ got)
        /\ Shown(r.shown, S, {k \in got : S[k].vigy \in F})
  BY DEF Accounts
<1> DEFINE P == {k \in got : S[k].vigy \in F}
           more == got \cup {a}
<1>2. a \in Nat \ {0} /\ q.next = a + 1
  OBVIOUS
<1> HIDE DEF a
<1>3. from \in 1..(a + 1) /\ more \in SUBSET (from..(a + 1 - 1))
  BY <1>0, <1>1, <1>2
<1>4. (from..(a + 1 - 1)) \ more = (from..(a - 1)) \ got
  BY <1>0, <1>1, <1>2
<1>5. P \in SUBSET Nat /\ \A k \in P : k < a
  <2>1. \A k \in got : k \in Nat /\ k < a
    BY <1>0, <1>1, <1>2
  <2> QED
    BY <2>1
<1>6. Shown(q.shown, S, {k \in more : S[k].vigy \in F})
  <2>1. Shown(r.shown, S, P)
    BY <1>1
  <2>2. CASE S[a].vigy \in F
    <3>1. {k \in more : S[k].vigy \in F} = P \cup {a}
      BY <2>2
    <3>2. q.shown = Append(r.shown, S[a])
      BY <2>2 DEF a
    <3>3. S[a] \in A
      BY DEF a
    <3> HIDE DEF P
    <3>4. Shown(Append(r.shown, S[a]), S, P \cup {a})
      BY <1>2, <1>5, <2>1, <3>3, ShownOneMore
    <3> QED
      BY <3>1, <3>2, <3>4, Zenon
  <2>3. CASE S[a].vigy \notin F
    <3>1. {k \in more : S[k].vigy \in F} = P
      BY <2>3
    <3>2. q.shown = r.shown
      BY <2>3 DEF a
    <3> QED
      BY <2>1, <3>1, <3>2
  <2> QED
    BY <2>2, <2>3
<1> HIDE DEF more, P
<1>7. /\ from \in 1..q.next /\ more \in SUBSET (from..(q.next - 1))
      /\ q.lost = Cardinality((from..(q.next - 1)) \ more)
  <2>1. q.lost = r.lost /\ q.next - 1 = a + 1 - 1
    BY <1>2
  <2>2. r.lost = Cardinality((from..(a - 1)) \ got)
    BY <1>1
  <2>3. (from..(q.next - 1)) \ more = (from..(a - 1)) \ got
    BY <1>4, <2>1
  <2>4. from \in 1..q.next /\ more \in SUBSET (from..(q.next - 1))
    BY <1>2, <1>3
  <2> QED
    BY <2>1, <2>2, <2>3, <2>4
<1> QED
  BY <1>6, <1>7, Zenon DEF Accounts

Owed(from, s) == Accounts(from, rx[s], sent, Filter[s])

\* A receiver leaves, joins with the next run, or goes on from where it joined.
Follows(s) ==
  \/ rx'[s] = Off
  \/ ~rx[s].on /\ Accounts(Len(sent) + 1, rx'[s], sent', Filter[s])
  \/ rx'[s].on = rx[s].on /\ \A from \in Nat : Owed(from, s) => Owed(from, s)'

LEMMA TailStep == TypeOK /\ [Next]_vars => \A s \in Subscribers : Follows(s)
<1> SUFFICES ASSUME TypeOK, [Next]_vars, NEW s \in Subscribers PROVE Follows(s)
  OBVIOUS
<1>0. /\ rx[s].next \in 1..(Len(sent) + 1) /\ rx[s].next \in Nat \ {0}
      /\ rx[s].shown \in Seq(Runs) /\ Len(sent) \in Nat
  <2>1. rx[s] \in RxType /\ rx[s].next \in 1..(Len(sent) + 1)
    BY DEF TypeOK, RxType
  <2>2. Len(sent) \in Nat
    BY SentLength
  <2> QED
    BY <2>1, <2>2 DEF RxType
\* A step that makes rx[u] new.
<1>1. ASSUME NEW u \in Subscribers, NEW new, new \in RxType, Writes(u, new)
      PROVE  /\ UNCHANGED sent
             /\ rx'[u] = new
             /\ s # u => rx'[s] = rx[s]
  BY <1>1, OneReceiver DEF Writes
<1>2. ASSUME UNCHANGED <<rx[s], sent>> PROVE Follows(s)
  BY <1>2 DEF Follows, Owed
<1>3. ASSUME NEW u \in Subscribers, NEW new, new \in RxType, Writes(u, new), u # s
      PROVE  Follows(s)
  BY <1>1, <1>2, <1>3
<1>4. ASSUME NEW new, new \in RxType, Writes(s, new), new.on = rx[s].on,
             \A from \in Nat : Accounts(from, rx[s], sent, Filter[s]) =>
                              Accounts(from, new, sent, Filter[s])
      PROVE  Follows(s)
  BY <1>1, <1>4 DEF Follows, Owed
<1>5. ASSUME NEW u \in Subscribers, Subscribe(u) PROVE Follows(s)
  <2>1. Writes(u, JoinedRx) /\ ~rx[u].on
    BY <1>5 DEF Subscribe, JoinedRx, Writes
  <2>2. JoinedRx \in RxType /\ JoinedRx.next = Len(sent) + 1 /\ JoinedRx.next \in Nat \ {0}
    BY <1>0, JoinedIs
  <2>3. CASE u = s
    <3>1. Accounts(Len(sent) + 1, JoinedRx, sent, Filter[s])
      BY <2>2, JoinedIs, AccountsNothing
    <3> QED
      BY <1>1, <2>1, <2>2, <2>3, <3>1 DEF Follows
  <2> QED
    BY <1>3, <2>1, <2>2, <2>3
<1>6. ASSUME NEW u \in Subscribers, Leave(u) PROVE Follows(s)
  <2>1. Writes(u, Off)
    BY <1>6 DEF Leave, Writes
  <2>2. CASE u = s
    BY <1>1, <2>1, <2>2, OffTyped DEF Follows
  <2> QED
    BY <1>3, <2>1, <2>2, OffTyped
<1>7. ASSUME NEW u \in Subscribers, Lag(u) PROVE Follows(s)
  <2>1. Writes(u, LaggedRx(u)) /\ rx[u].next < Oldest
    BY <1>7 DEF Lag, LaggedRx, Writes
  <2>2. /\ LaggedRx(u) \in RxType /\ LaggedRx(u).on = rx[u].on /\ LaggedRx(u).next = Oldest
        /\ LaggedRx(u).lost = rx[u].lost + (Oldest - rx[u].next)
        /\ LaggedRx(u).shown = rx[u].shown
    BY <2>1, LaggedIs
  <2>3. CASE u = s
    <3>1. Oldest \in Nat /\ rx[s].next <= Oldest
      BY <1>0, <2>1, <2>3, SentLength
    <3>2. \A from \in Nat : Accounts(from, rx[s], sent, Filter[s]) =>
                            Accounts(from, LaggedRx(s), sent, Filter[s])
      BY <1>0, <2>2, <2>3, <3>1, AccountsLagged
    <3> QED
      BY <1>4, <2>1, <2>2, <2>3, <3>2
  <2> QED
    BY <1>3, <2>1, <2>2, <2>3
<1>8. ASSUME NEW u \in Subscribers, Recv(u) PROVE Follows(s)
  <2>1. Writes(u, ToldRx(u)) /\ rx[u].next \in Oldest..Len(sent)
    BY <1>8 DEF Recv, ToldRx, Writes
  <2>2. /\ ToldRx(u) \in RxType /\ ToldRx(u).on = rx[u].on /\ ToldRx(u).next = rx[u].next + 1
        /\ ToldRx(u).lost = rx[u].lost /\ sent[rx[u].next] \in Runs
        /\ ToldRx(u).shown = IF sent[rx[u].next].vigy \in Filter[u]
                             THEN Append(rx[u].shown, sent[rx[u].next]) ELSE rx[u].shown
    BY <2>1, ToldIs
  <2>3. CASE u = s
    <3>1. \A from \in Nat : Accounts(from, rx[s], sent, Filter[s]) =>
                            Accounts(from, ToldRx(s), sent, Filter[s])
      BY <1>0, <2>2, <2>3, AccountsTold
    <3> QED
      BY <1>4, <2>1, <2>2, <2>3, <3>1
  <2> QED
    BY <1>3, <2>1, <2>2, <2>3
<1>9. CASE ~\E u \in Subscribers : Subscribe(u) \/ Leave(u) \/ Lag(u) \/ Recv(u)
  <2>1. UNCHANGED rx /\ (UNCHANGED sent \/ \E run \in Runs : Publish(run))
    BY <1>9, OutsideBus
  <2>2. ASSUME NEW run \in Runs, sent' = Append(sent, run) PROVE Follows(s)
    <3>1. sent \in Seq(Runs)
      BY DEF TypeOK
    <3>2. \A k \in 1..Len(sent) : sent'[k] = sent[k]
      BY <1>0, <2>2, <3>1, AppendProperties
    <3>3. \A from \in Nat : Accounts(from, rx[s], sent, Filter[s]) =>
                            Accounts(from, rx[s], sent', Filter[s])
      BY <1>0, <3>2, AccountsSent
    <3> QED
      BY <2>1, <3>3 DEF Follows, Owed
  <2> QED
    BY <1>2, <2>1, <2>2 DEF Publish
<1> QED
  BY <1>5, <1>6, <1>7, <1>8, <1>9

\* A tail accounts for all that is sent from the moment it subscribes: it starts
\* with the next run, and until it leaves no step makes it forget one.
TailsAccount ==
  [][\A s \in Subscribers : rx'[s].on =>
       IF rx[s].on THEN \A from \in Nat : Owed(from, s) => Owed(from, s)'
                   ELSE Accounts(Len(sent) + 1, rx'[s], sent', Filter[s])]_vars

\* `vigy tail` shows the runs of its vigies in the order they were sent, and the
\* numbers it is told with Lagged are exact: what it got and what it lost is all
\* that was sent since it subscribed, however far it falls behind.
THEOREM TailsAccountForAll == Spec => TailsAccount
<1>1. TypeOK /\ [Next]_vars =>
        [\A s \in Subscribers : rx'[s].on =>
           IF rx[s].on THEN \A from \in Nat : Owed(from, s) => Owed(from, s)'
                       ELSE Accounts(Len(sent) + 1, rx'[s], sent', Filter[s])]_vars
  <2> SUFFICES ASSUME TypeOK, [Next]_vars, NEW s \in Subscribers, rx'[s].on
               PROVE  IF rx[s].on THEN \A from \in Nat : Owed(from, s) => Owed(from, s)'
                                  ELSE Accounts(Len(sent) + 1, rx'[s], sent', Filter[s])
    OBVIOUS
  <2>1. Follows(s) /\ rx'[s] # Off
    BY TailStep, OffTyped
  <2> QED
    BY <2>1 DEF Follows
<1> QED
  BY <1>1, TypeCorrect, PTL DEF Spec, TailsAccount

\* Every receiver accounts for all from some position on.
AllAccount == \A s \in Subscribers : \E from \in Nat : Owed(from, s)

LEMMA AccountInvariant == Spec => []AllAccount
<1>0. ASSUME NEW s \in Subscribers, NEW S PROVE Accounts(1, Off, S, Filter[s])
  <2>1. Off.next = 1 /\ Off.next \in Nat \ {0} /\ Off.lost = 0 /\ Off.shown = <<>>
    BY DEF Off
  <2>2. Accounts(Off.next, Off, S, Filter[s])
    BY <2>1, AccountsNothing
  <2> QED
    BY <2>1, <2>2
<1>1. Init => AllAccount
  BY <1>0 DEF Init, AllAccount, Owed
<1>2. TypeOK /\ AllAccount /\ [Next]_vars => AllAccount'
  <2> SUFFICES ASSUME TypeOK, AllAccount, [Next]_vars, NEW s \in Subscribers
               PROVE  \E from \in Nat : Owed(from, s)'
    BY DEF AllAccount
  <2>1. CASE rx'[s] = Off
    BY <1>0, <2>1 DEF Owed
  <2>2. CASE Accounts(Len(sent) + 1, rx'[s], sent', Filter[s])
    <3>1. Len(sent) + 1 \in Nat
      BY SentLength
    <3> QED
      BY <2>2, <3>1 DEF Owed
  <2>3. CASE \A from \in Nat : Owed(from, s) => Owed(from, s)'
    BY <2>3 DEF AllAccount
  <2> QED
    BY <2>1, <2>2, <2>3, TailStep DEF Follows
<1> QED
  BY <1>1, <1>2, TypeCorrect, PTL DEF Spec

\* No tail has shown two runs of one id.
ShownOnce ==
  \A s \in Subscribers : \A i, j \in DOMAIN rx[s].shown :
    rx[s].shown[i].id = rx[s].shown[j].id => i = j

\* And so it shows no run twice, though both a loop and tick_now send.
THEOREM TailsShowOnce == Spec => []ShownOnce
<1>1. AllAccount /\ NumberInv => ShownOnce
  <2> SUFFICES ASSUME AllAccount, NumberInv, NEW s \in Subscribers,
                      NEW i \in DOMAIN rx[s].shown, NEW j \in DOMAIN rx[s].shown,
                      rx[s].shown[i].id = rx[s].shown[j].id
               PROVE  i = j
    BY DEF ShownOnce
  <2>t. TypeOK
    BY DEF NumberInv
  <2>0. PICK from \in Nat : Owed(from, s)
    BY DEF AllAccount
  <2>1. PICK got \in SUBSET (from..(rx[s].next - 1)) :
          Shown(rx[s].shown, sent, {k \in got : sent[k].vigy \in Filter[s]})
    BY <2>0 DEF Owed, Accounts
  <2> DEFINE P == {k \in got : sent[k].vigy \in Filter[s]}
  <2>2. PICK at \in [DOMAIN rx[s].shown -> P] :
          /\ Rising(at) /\ \A n \in DOMAIN rx[s].shown : rx[s].shown[n] = sent[at[n]]
    BY <2>1 DEF Shown
  <2>3. \A k \in got : k \in DOMAIN sent /\ k \in Nat
    <3>1. rx[s].next \in 1..(Len(sent) + 1) /\ Len(sent) \in Nat /\ DOMAIN sent = 1..Len(sent)
      BY <2>t, SentLength DEF TypeOK
    <3>2. from \in 1..rx[s].next
      BY <2>0 DEF Owed, Accounts
    <3> HIDE DEF P
    <3>3. ASSUME NEW k \in got PROVE k \in DOMAIN sent /\ k \in Nat
      <4>1. k \in from..(rx[s].next - 1)
        BY <2>1
      <4> QED
        BY <3>1, <3>2, <4>1
    <3> QED
      BY <3>3
  <2>4. at[i] \in DOMAIN sent /\ at[j] \in DOMAIN sent /\ at[i] \in Nat /\ at[j] \in Nat
    BY <2>2, <2>3
  <2>5. at[i] = at[j]
    BY <2>2, <2>4 DEF NumberInv, SentKnown
  <2>6. DOMAIN rx[s].shown \subseteq Nat
    <3>1. rx[s].shown \in Seq(Runs)
      BY <2>t DEF TypeOK
    <3> QED
      BY <3>1, LenProperties
  <2>7. ~(i < j) /\ ~(j < i)
    BY <2>2, <2>4, <2>5 DEF Rising
  <2> QED
    BY <2>6, <2>7
<1> QED
  BY <1>1, AccountInvariant, NumberInvariant, PTL

==================================================================================
