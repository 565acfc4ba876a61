---------------------------- MODULE LifecycleProofs ----------------------------
(***************************************************************************)
(* What holds of Lifecycle for every set of runtimes, vigies, callers and  *)
(* tasks: its type invariant, that runtimes with disjoint scopes never     *)
(* both tick a vigy, that a runtime whose calls about one vigy come one at *)
(* a time has at most one loop for it, and, alone on its store, has one    *)
(* exactly when the vigy is enabled and in scope.                          *)
(***************************************************************************)
EXTENDS Lifecycle, TLAPS

(***************************************************************************)
(* Typing                                                                  *)
(***************************************************************************)
LEMMA DefaultsTyped ==
  /\ AnyRuntime \in Runtimes
  /\ AnyVigy \in Vigies
  /\ NoPayload \in Row
  /\ Idle.pc = "idle"
  /\ Idle \in CallType
<1>1. AnyRuntime \in Runtimes /\ AnyVigy \in Vigies
  BY SetsAssumption DEF AnyRuntime, AnyVigy
<1>2. NoPayload \in Row
  BY DEF NoPayload, Row, Label
<1> QED
  BY <1>1, <1>2 DEF Idle, CallType, CallPc, Op

LEMMA CancelTaskTyped ==
  ASSUME TypeOK, NEW r \in Runtimes, NEW v \in Vigies
  PROVE  /\ CancelTask(r, v) \in [Slots -> LoopType]
         /\ Unregistered(r, v) \in [Runtimes -> [Vigies -> Slots \cup {NoTask}]]
<1>1. \A s \in Slots : Aborted(loop[s]) \in LoopType
  BY DEF TypeOK, Aborted, LoopType, LoopPc
<1> QED
  BY <1>1 DEF TypeOK, CancelTask, Unregistered, LoopType

\* A call moved to another place, or taken back to idle, keeps its type.
LEMMA CallTyped ==
  ASSUME TypeOK, NEW c \in Callers, NEW pc \in CallPc
  PROVE  /\ Goto(c, pc) => call' \in [Callers -> CallType]
         /\ Return(c) => call' \in [Callers -> CallType]
         /\ pc # "insert" /\ Goto(c, pc) =>
              \A d \in Callers : call'[d].pc = "insert" => call'[d].slot \in Slots
         /\ Return(c) =>
              \A d \in Callers : call'[d].pc = "insert" => call'[d].slot \in Slots
<1>1. call \in [Callers -> CallType]
  BY DEF TypeOK, CallType
<1>2. Idle \in CallType /\ Idle.pc = "idle"
  BY DefaultsTyped DEF CallType
<1>3. Goto(c, pc) => call' \in [Callers -> CallType]
  BY <1>1 DEF Goto, CallType
<1>4. Return(c) => call' \in [Callers -> CallType]
  BY <1>1, <1>2 DEF Return
<1>5. ASSUME Goto(c, pc), pc # "insert", NEW d \in Callers, call'[d].pc = "insert"
      PROVE  call'[d].slot \in Slots
  BY <1>1, <1>5 DEF Goto, TypeOK, CallType
<1>6. ASSUME Return(c), NEW d \in Callers, call'[d].pc = "insert"
      PROVE  call'[d].slot \in Slots
  BY <1>1, <1>2, <1>6 DEF Return, TypeOK
<1> QED
  BY <1>3, <1>4, <1>5, <1>6

LEMMA BeginTyped ==
  ASSUME TypeOK, NEW c \in Callers, NEW r \in Runtimes, NEW v \in Vigies,
         NEW op \in Op, NEW pc \in CallPc \ {"insert"}, NEW want \in Row,
         Begin(c, r, v, op, pc, want)
  PROVE  TypeOK'
<1> DEFINE new == [Idle EXCEPT !.pc = pc, !.op = op, !.rt = r, !.vigy = v, !.want = want]
<1>1. new \in CallType /\ new.pc # "insert"
  BY DefaultsTyped DEF CallType, Idle
<1>2. call' = [call EXCEPT ![c] = new]
  BY DEF Begin
<1> HIDE DEF new
<1>3. call' \in [Callers -> CallType]
  BY <1>1, <1>2 DEF TypeOK, CallType
<1>4. \A d \in Callers : call'[d].pc = "insert" => call'[d].slot \in Slots
  BY <1>1, <1>2 DEF TypeOK
<1> QED
  BY <1>3, <1>4 DEF Begin, TypeOK, CallType

LEMMA TypeInit == Init => TypeOK
<1> SUFFICES ASSUME Init PROVE TypeOK
  OBVIOUS
<1>1. call \in [Callers -> CallType] /\ \A c \in Callers : call[c].pc # "insert"
  BY DefaultsTyped DEF Init, CallType
<1>2. loop \in [Slots -> LoopType]
  BY DefaultsTyped DEF Init, LoopType, LoopPc
<1> QED
  BY <1>1, <1>2 DEF Init, TypeOK, CallType, LoopType

\* A step of a loop moves it to another place, and revives no aborted task.
LEMMA LoopMoves ==
  ASSUME NEW s \in Slots, LoopStep(s) \/ WakeError(s)
  PROVE  /\ UNCHANGED <<row, status, resume, tasks, call>>
         /\ \E pc \in LoopPc : /\ loop' = [loop EXCEPT ![s].pc = pc]
                               /\ pc # "done" => Live(s)
<1>1. CASE Wake(s)
  <2>1. loop' = [loop EXCEPT ![s].pc = "ticking"] \/ loop' = [loop EXCEPT ![s].pc = "done"]
    BY <1>1 DEF Wake
  <2>2. loop[s].pc = "sleep"
    BY <1>1 DEF Wake
  <2> QED
    BY <1>1, <2>1, <2>2, Zenon DEF Wake, LoopPc, Live
<1>2. CASE TickDone(s) \/ Drained(s) \/ WakeError(s)
  <2>1. \/ loop[s].pc = "ticking" /\ loop' = [loop EXCEPT ![s].pc = "sleep"]
        \/ loop' = [loop EXCEPT ![s].pc = "done"]
    BY <1>2 DEF TickDone, Drained, WakeError
  <2> QED
    BY <1>2, <2>1, Zenon DEF TickDone, Drained, WakeError, LoopPc, Live
<1> QED
  BY <1>1, <1>2 DEF LoopStep

LEMMA TypeStep == TypeOK /\ [Next]_vars => TypeOK'
<1> SUFFICES ASSUME TypeOK, [Next]_vars PROVE TypeOK'
  OBVIOUS
<1> USE DEF LoopType, CallType
<1>1. ASSUME NEW c \in Callers, CallArrives(c) PROVE TypeOK'
  <2> PICK r \in Runtimes, v \in Vigies :
        Register(c, r, v) \/ Enable(c, r, v) \/ Disable(c, r, v) \/ Delete(c, r, v)
    BY <1>1 DEF CallArrives
  <2>1. CASE Register(c, r, v)
    <3> PICK e \in BOOLEAN, l \in LabelsOf[v] :
          Begin(c, r, v, "register", "find", [enabled |-> e, host |-> l])
      BY <2>1 DEF Register
    <3>1. [enabled |-> e, host |-> l] \in Row
      BY ConfigAssumption DEF Row
    <3> QED
      BY <3>1, BeginTyped DEF Op, CallPc
  <2>2. CASE Enable(c, r, v)
    BY <2>2, BeginTyped, DefaultsTyped DEF Enable, Op, CallPc
  <2>3. CASE Disable(c, r, v)
    BY <2>3, BeginTyped, DefaultsTyped DEF Disable, Op, CallPc
  <2>4. CASE Delete(c, r, v)
    BY <2>4, BeginTyped, DefaultsTyped DEF Delete, Op, CallPc
  <2> QED
    BY <2>1, <2>2, <2>3, <2>4
<1>2. ASSUME NEW c \in Callers, CallStep(c) PROVE TypeOK'
  <2>0. call[c] \in CallType
    BY DEF TypeOK
  <2>1. CASE Find(c)
    <3>1. CASE call' = [call EXCEPT ![c].pc = "write",
                                    ![c].found = (row[call[c].vigy] # NoRow)]
      BY <2>0, <2>1, <3>1 DEF Find, TypeOK, CallPc
    <3>2. CASE Return(c)
      BY <2>1, <3>2, CallTyped DEF Find, TypeOK, CallPc
    <3> QED
      BY <2>1, <3>1, <3>2 DEF Find
  <2>2. CASE Upsert(c)
    <3>1. row' \in [Vigies -> Row \cup {NoRow}]
      BY <2>0, <2>2 DEF Upsert, TypeOK
    <3>2. Goto(c, "spawn") \/ Goto(c, "cancel") \/ Return(c)
      BY <2>2 DEF Upsert
    <3> QED
      BY <2>2, <3>1, <3>2, CallTyped DEF Upsert, TypeOK, CallPc
  <2>3. CASE SetEnabled(c)
    <3> DEFINE v == call[c].vigy
               on == call[c].op = "enable"
    <3>0. row[v] # NoRow => [row[v] EXCEPT !.enabled = on] \in Row
      <4>1. row[v] # NoRow => row[v] \in Row
        BY <2>0 DEF TypeOK, CallType
      <4>2. on \in BOOLEAN
        OBVIOUS
      <4> HIDE DEF on
      <4> QED
        BY <4>1, <4>2 DEF Row
    <3>1. row' \in [Vigies -> Row \cup {NoRow}]
      <4>1. \/ row' = row
            \/ row[v] # NoRow /\ row' = [row EXCEPT ![v] = [row[v] EXCEPT !.enabled = on]]
        BY <2>3 DEF SetEnabled
      <4> HIDE DEF on
      <4> QED
        BY <2>0, <3>0, <4>1 DEF TypeOK
    <3>2. Goto(c, "get") \/ Goto(c, "cancel") \/ Return(c)
      BY <2>3 DEF SetEnabled
    <3> QED
      BY <2>3, <3>1, <3>2, CallTyped DEF SetEnabled, TypeOK, CallPc
  <2>4. CASE Get(c)
    <3>1. Goto(c, "spawn") \/ Return(c)
      BY <2>4 DEF Get
    <3> QED
      BY <2>4, <3>1, CallTyped DEF Get, TypeOK, CallPc
  <2>5. CASE Spawn(c)
    <3> DEFINE r == call[c].rt  v == call[c].vigy
    <3> PICK s \in Free :
           /\ loop' = [CancelTask(r, v) EXCEPT ![s] = NewLoop(r, v)]
           /\ call' = [call EXCEPT ![c].pc = "insert", ![c].slot = s]
      BY <2>5 DEF Spawn
    <3>1. s \in Slots
      BY DEF Free
    <3>2. loop' \in [Slots -> LoopType] /\ tasks' \in [Runtimes -> [Vigies -> Slots \cup {NoTask}]]
      BY <2>0, <2>5, <3>1, CancelTaskTyped DEF Spawn, NewLoop, LoopPc
    <3>3. call' \in [Callers -> CallType]
      BY <2>0, <3>1 DEF TypeOK, CallPc
    <3>4. \A d \in Callers : call'[d].pc = "insert" => call'[d].slot \in Slots
      BY <2>0, <3>1 DEF TypeOK
    <3> QED
      BY <2>5, <3>2, <3>3, <3>4 DEF Spawn, TypeOK
  <2>6. CASE Insert(c)
    BY <2>0, <2>6, CallTyped DEF Insert, TypeOK, CallPc
  <2>7. CASE Cancel(c)
    <3>1. Goto(c, "erase") \/ Return(c)
      BY <2>7 DEF Cancel
    <3> QED
      BY <2>0, <2>7, <3>1, CallTyped, CancelTaskTyped DEF Cancel, TypeOK, CallPc
  <2>8. CASE Erase(c)
    BY <2>0, <2>8, CallTyped DEF Erase, TypeOK, CallPc
  <2> QED
    BY <1>2, <2>1, <2>2, <2>3, <2>4, <2>5, <2>6, <2>7, <2>8 DEF CallStep
<1>3. ASSUME NEW c \in Callers, Abandon(c) PROVE TypeOK'
  BY <1>3, CallTyped DEF Abandon, TypeOK, CallPc
<1>4. ASSUME NEW s \in Slots, LoopStep(s) \/ WakeError(s) PROVE TypeOK'
  <2>1. PICK pc \in LoopPc : loop' = [loop EXCEPT ![s].pc = pc]
    BY <1>4, LoopMoves
  <2>2. loop' \in [Slots -> LoopType]
    BY <2>1 DEF TypeOK
  <2> QED
    BY <1>4, <2>2, LoopMoves DEF TypeOK
<1>5. ASSUME NEW r \in Runtimes, Open(r) PROVE TypeOK'
  BY <1>5 DEF Open, TypeOK
<1>6. ASSUME NEW r \in Runtimes, Opening(r) PROVE TypeOK'
  <2>1. CASE Ready(r)
    BY <2>1 DEF Ready, TypeOK
  <2>2. ASSUME NEW v \in Vigies, Resume(r, v) PROVE TypeOK'
    BY <2>2 DEF Resume, Free, NewLoop, TypeOK, LoopPc
  <2> QED
    BY <1>6, <2>1, <2>2 DEF Opening
<1>7. ASSUME NEW r \in Runtimes, Exit(r) PROVE TypeOK'
  <2>1. loop' \in [Slots -> LoopType]
    <3>1. ASSUME NEW s \in Slots PROVE [loop[s] EXCEPT !.pc = "done"] \in LoopType
      <4>1. loop[s] \in LoopType
        BY DEF TypeOK
      <4> QED
        BY <4>1 DEF LoopPc
    <3> QED
      BY <1>7, <3>1 DEF Exit, TypeOK
  <2>2. call' \in [Callers -> CallType]
        /\ \A d \in Callers : call'[d].pc = "insert" => call'[d].slot \in Slots
    BY <1>7, DefaultsTyped DEF Exit, TypeOK
  <2> QED
    BY <1>7, <2>1, <2>2 DEF Exit, TypeOK
<1>8. ASSUME NEW r \in Runtimes, Drop(r) PROVE TypeOK'
  BY <1>8 DEF Drop, TypeOK
<1>9. CASE UNCHANGED vars
  BY <1>9 DEF vars, TypeOK
<1> QED
  BY <1>1, <1>2, <1>3, <1>4, <1>5, <1>6, <1>7, <1>8, <1>9 DEF Next

\* Every reachable state is well typed; in particular a caller that is about to
\* insert a handle in the registry (the second half of spawn_task) has one.
THEOREM TypeCorrect == Spec => []TypeOK
BY TypeInit, TypeStep, PTL DEF Spec

(***************************************************************************)
(* Hosts that share a store                                                *)
(***************************************************************************)
\* Runtime r serves v under one of the labels v is ever registered under.
MayServe(r, v) == \E l \in LabelsOf[v] : Serves(r, l)

\* No vigy is ever registered under labels that two runtimes serve: `host=X`
\* names one host, at most one runtime takes the unlabelled ones, and no
\* registration moves a vigy from one runtime to another.
ScopesDisjoint ==
  \A q, r \in Runtimes, v \in Vigies : MayServe(q, v) /\ MayServe(r, v) => q = r

\* A loop, and every promise of one (a call that will spawn, a vigy still to
\* resume), belongs to a runtime that serves the vigy.
LoopServed   == \A s \in Slots : Live(s) => MayServe(loop[s].rt, loop[s].vigy)
CallServed   == \A c \in Callers : call[c].pc \in {"spawn", "insert"} =>
                                     MayServe(call[c].rt, call[c].vigy)
ResumeServed == \A r \in Runtimes : \A v \in resume[r] : MayServe(r, v)
RowLabelled  == \A v \in Vigies : row[v] # NoRow => row[v].host \in LabelsOf[v]
WantLabelled == \A c \in Callers : ~At(c, "idle") /\ call[c].op = "register" =>
                                     call[c].want.host \in LabelsOf[call[c].vigy]

HostInv == TypeOK /\ LoopServed /\ CallServed /\ ResumeServed /\ RowLabelled /\ WantLabelled

LEMMA HostInit == Init => HostInv
BY TypeInit, DefaultsTyped
   DEF Init, HostInv, LoopServed, CallServed, ResumeServed, RowLabelled, WantLabelled, Live, At

\* Aborting a task makes no task live.
LEMMA CancelKillsOnly ==
  ASSUME TypeOK, NEW r \in Runtimes, NEW v \in Vigies, NEW t \in Slots
  PROVE  /\ CancelTask(r, v)[t].rt = loop[t].rt
         /\ CancelTask(r, v)[t].vigy = loop[t].vigy
         /\ CancelTask(r, v)[t].pc \in {"sleep", "ticking"} =>
              /\ CancelTask(r, v)[t] = loop[t]
              /\ t # tasks[r][v]
<1>1. loop[t] \in LoopType
  BY DEF TypeOK
<1> QED
  BY <1>1 DEF CancelTask, Aborted, LoopType

LEMMA HostStep == HostInv /\ [Next]_vars => HostInv'
<1> SUFFICES ASSUME HostInv, [Next]_vars PROVE HostInv'
  OBVIOUS
<1>0. TypeOK /\ TypeOK'
  BY TypeStep DEF HostInv
<1>1. ASSUME NEW c \in Callers, CallArrives(c) PROVE HostInv'
  <2> PICK r \in Runtimes, v \in Vigies :
        Register(c, r, v) \/ Enable(c, r, v) \/ Disable(c, r, v) \/ Delete(c, r, v)
    BY <1>1 DEF CallArrives
  <2>1. UNCHANGED <<row, status, resume, tasks, loop>>
    BY DEF Register, Enable, Disable, Delete, Begin
  <2>2. \E new \in CallType :
           /\ call' = [call EXCEPT ![c] = new]
           /\ new.pc \in {"find", "cancel"}
           /\ new.op = "register" => new.want.host \in LabelsOf[new.vigy]
    <3>1. CASE Register(c, r, v)
      <4> PICK e \in BOOLEAN, l \in LabelsOf[v] :
            Begin(c, r, v, "register", "find", [enabled |-> e, host |-> l])
        BY <3>1 DEF Register
      <4> DEFINE new == [Idle EXCEPT !.pc = "find", !.op = "register", !.rt = r, !.vigy = v,
                                     !.want = [enabled |-> e, host |-> l]]
      <4>1. [enabled |-> e, host |-> l] \in Row
        BY ConfigAssumption DEF Row
      <4>2. new \in CallType /\ new.pc = "find" /\ new.want.host = l /\ new.vigy = v
        BY <4>1, DefaultsTyped DEF CallType, CallPc, Op
      <4>3. call' = [call EXCEPT ![c] = new]
        BY DEF Begin
      <4> HIDE DEF new
      <4> QED
        BY <4>2, <4>3
    <3>2. ASSUME NEW op \in {"enable", "disable", "delete"}, NEW pc \in {"find", "cancel"},
                 Begin(c, r, v, op, pc, NoPayload)
          PROVE  \E new \in CallType :
                    /\ call' = [call EXCEPT ![c] = new]
                    /\ new.pc \in {"find", "cancel"}
                    /\ new.op = "register" => new.want.host \in LabelsOf[new.vigy]
      <4> DEFINE new == [Idle EXCEPT !.pc = pc, !.op = op, !.rt = r, !.vigy = v,
                                     !.want = NoPayload]
      <4>1. new \in CallType /\ new.pc = pc /\ new.op = op
        BY DefaultsTyped DEF CallType, CallPc, Op
      <4>2. call' = [call EXCEPT ![c] = new]
        BY <3>2 DEF Begin
      <4> HIDE DEF new
      <4> QED
        BY <4>1, <4>2
    <3> QED
      BY <3>1, <3>2 DEF Enable, Disable, Delete
  <2> QED
    BY <1>0, <2>1, <2>2
       DEF HostInv, LoopServed, CallServed, ResumeServed, RowLabelled, WantLabelled,
           Live, At, TypeOK, MayServe
<1>2. ASSUME NEW c \in Callers, CallStep(c) \/ Abandon(c) PROVE HostInv'
  <2> DEFINE r == call[c].rt  v == call[c].vigy
  <2>0. r \in Runtimes /\ v \in Vigies /\ call[c] \in CallType
    BY <1>0 DEF TypeOK, CallType
  \* A step of a call changes nothing of it but its place, the slot it holds
  \* and what its SELECT saw, or ends it.
  <2>1. \A d \in Callers :
          \/ d # c /\ call'[d] = call[d]
          \/ call'[d] = Idle
          \/ /\ ~At(d, "idle") /\ d = c
             /\ call'[d].rt = call[d].rt /\ call'[d].vigy = call[d].vigy
             /\ call'[d].op = call[d].op /\ call'[d].want = call[d].want
    BY <1>0, <1>2
       DEF CallStep, Abandon, Find, Upsert, SetEnabled, Get, Spawn, Insert, Cancel, Erase,
           Goto, Return, At, TypeOK, CallType
  <2>2. WantLabelled'
    BY <2>1, DefaultsTyped DEF HostInv, WantLabelled, At, Idle
  <2>3. RowLabelled'
    <3>1. CASE Upsert(c)
      BY <1>0, <2>0, <3>1 DEF Upsert, HostInv, RowLabelled, WantLabelled, At, TypeOK
    <3>2. CASE SetEnabled(c)
      BY <1>0, <2>0, <3>2 DEF SetEnabled, HostInv, RowLabelled, TypeOK, Row
    <3>3. CASE Erase(c)
      BY <1>0, <2>0, <3>3 DEF Erase, HostInv, RowLabelled, TypeOK
    <3>4. CASE UNCHANGED row
      BY <3>4 DEF HostInv, RowLabelled
    <3> QED
      BY <1>2, <3>1, <3>2, <3>3, <3>4
         DEF CallStep, Abandon, Find, Get, Spawn, Insert, Cancel
  <2>4. call'[c].pc \in {"spawn", "insert"} => MayServe(r, v)
    <3>1. CASE Upsert(c)
      <4> SUFFICES ASSUME call'[c].pc \in {"spawn", "insert"} PROVE MayServe(r, v)
        OBVIOUS
      <4>1. call[c].op = "register" /\ call[c].pc = "write"
        BY <3>1 DEF Upsert, At
      <4>2. call[c].want.host \in LabelsOf[v]
        BY <4>1 DEF HostInv, WantLabelled, At
      <4>3. \/ Serves(r, call[c].want.host)
            \/ call' = [call EXCEPT ![c].pc = "cancel"]
            \/ call' = [call EXCEPT ![c] = Idle]
        BY <3>1 DEF Upsert, Goto, Return
      <4>4. Serves(r, call[c].want.host)
        BY <1>0, <2>0, <4>3, DefaultsTyped DEF TypeOK, CallType
      <4> QED
        BY <4>2, <4>4 DEF MayServe
    <3>2. CASE Get(c)
      BY <1>0, <2>0, <3>2, DefaultsTyped
         DEF Get, HostInv, RowLabelled, At, Goto, Return, MayServe, TypeOK
    <3>3. CASE Spawn(c)
      BY <2>0, <3>3 DEF Spawn, HostInv, CallServed, At
    <3>4. CASE Find(c) \/ SetEnabled(c) \/ Insert(c) \/ Cancel(c) \/ Erase(c) \/ Abandon(c)
      BY <1>0, <2>0, <3>4, DefaultsTyped
         DEF Find, SetEnabled, Insert, Cancel, Erase, Abandon, At, Goto, Return, TypeOK, CallType
    <3> QED
      BY <1>2, <3>1, <3>2, <3>3, <3>4 DEF CallStep
  <2>5. CallServed'
    BY <2>1, <2>4, DefaultsTyped DEF HostInv, CallServed, MayServe
  <2>6. LoopServed'
    <3>1. CASE Spawn(c)
      <4> PICK s \in Free : loop' = [CancelTask(r, v) EXCEPT ![s] = NewLoop(r, v)]
        BY <3>1 DEF Spawn
      <4>1. MayServe(r, v)
        BY <3>1 DEF Spawn, HostInv, CallServed, At
      <4>2. ASSUME NEW t \in Slots, loop'[t].pc \in {"sleep", "ticking"}
            PROVE  MayServe(loop'[t].rt, loop'[t].vigy)
        <5>1. CASE t = s
          BY <1>0, <2>0, <4>1, <5>1, CancelTaskTyped DEF NewLoop
        <5>2. CASE t # s
          <6>1. loop'[t] = CancelTask(r, v)[t]
            BY <1>0, <2>0, <5>2, CancelTaskTyped
          <6> QED
            BY <1>0, <2>0, <4>2, <6>1, CancelKillsOnly DEF HostInv, LoopServed, Live
        <5> QED
          BY <5>1, <5>2
      <4> QED
        BY <4>2 DEF LoopServed, Live, MayServe
    <3>2. CASE Cancel(c)
      <4>1. \A t \in Slots : loop'[t].pc \in {"sleep", "ticking"} => loop'[t] = loop[t]
        BY <1>0, <2>0, <3>2, CancelKillsOnly DEF Cancel
      <4> QED
        BY <4>1 DEF HostInv, LoopServed, Live, MayServe
    <3>3. CASE UNCHANGED loop
      BY <3>3 DEF HostInv, LoopServed, Live, MayServe
    <3> QED
      BY <1>2, <3>1, <3>2, <3>3
         DEF CallStep, Abandon, Find, Upsert, SetEnabled, Get, Insert, Erase
  <2>7. ResumeServed'
    <3>1. UNCHANGED resume
      BY <1>2 DEF CallStep, Abandon, Find, Upsert, SetEnabled, Get, Spawn, Insert, Cancel, Erase
    <3> QED
      BY <3>1 DEF HostInv, ResumeServed, MayServe
  <2> QED
    BY <1>0, <2>2, <2>3, <2>5, <2>6, <2>7 DEF HostInv
<1>3. ASSUME NEW s \in Slots, LoopStep(s) \/ WakeError(s) PROVE HostInv'
  <2>1. \A t \in Slots : loop'[t].rt = loop[t].rt /\ loop'[t].vigy = loop[t].vigy
                         /\ (loop'[t].pc \in {"sleep", "ticking"} => Live(t))
    <3>1. PICK pc \in LoopPc : /\ loop' = [loop EXCEPT ![s].pc = pc]
                               /\ pc # "done" => Live(s)
      BY <1>3, LoopMoves
    <3> QED
      BY <1>0, <3>1 DEF TypeOK, LoopType, Live
  <2>2. UNCHANGED <<row, resume, call>>
    BY <1>3, LoopMoves
  <2> QED
    BY <1>0, <2>1, <2>2
       DEF HostInv, LoopServed, CallServed, ResumeServed, RowLabelled, WantLabelled,
           Live, At, MayServe
<1>4. ASSUME NEW r \in Runtimes, Open(r) PROVE HostInv'
  <2>1. ResumeServed'
    BY <1>0, <1>4 DEF Open, Wanted, HostInv, ResumeServed, RowLabelled, MayServe, TypeOK
  <2> QED
    BY <1>0, <1>4, <2>1
       DEF Open, HostInv, LoopServed, CallServed, RowLabelled, WantLabelled, Live, At, MayServe
<1>5. ASSUME NEW r \in Runtimes, Opening(r) PROVE HostInv'
  <2>1. CASE Ready(r)
    BY <1>0, <2>1
       DEF Ready, HostInv, LoopServed, CallServed, ResumeServed, RowLabelled, WantLabelled,
           Live, At, MayServe
  <2>2. ASSUME NEW v \in Vigies, Resume(r, v) PROVE HostInv'
    <3>1. MayServe(r, v)
      BY <2>2 DEF Resume, HostInv, ResumeServed
    <3>2. LoopServed'
      BY <1>0, <2>2, <3>1 DEF Resume, HostInv, LoopServed, Live, NewLoop, MayServe, TypeOK
    <3>3. ResumeServed'
      BY <1>0, <2>2 DEF Resume, HostInv, ResumeServed, MayServe, TypeOK
    <3> QED
      BY <1>0, <2>2, <3>2, <3>3
         DEF Resume, HostInv, CallServed, RowLabelled, WantLabelled, At, MayServe
  <2> QED
    BY <1>5, <2>1, <2>2 DEF Opening
<1>6. ASSUME NEW r \in Runtimes, Exit(r) PROVE HostInv'
  <2>1. LoopServed'
    BY <1>0, <1>6 DEF Exit, HostInv, LoopServed, Live, MayServe, TypeOK, LoopType
  <2>2. \A c \in Callers : call'[c] = call[c] \/ call'[c] = Idle
    BY <1>0, <1>6 DEF Exit, TypeOK
  <2>3. CallServed' /\ WantLabelled'
    BY <2>2, DefaultsTyped DEF HostInv, CallServed, WantLabelled, At, MayServe
  <2>4. ResumeServed'
    BY <1>0, <1>6 DEF Exit, HostInv, ResumeServed, MayServe, TypeOK
  <2> QED
    BY <1>0, <1>6, <2>1, <2>3, <2>4 DEF Exit, HostInv, RowLabelled
<1>7. ASSUME NEW r \in Runtimes, Drop(r) PROVE HostInv'
  <2>1. ResumeServed'
    BY <1>0, <1>7 DEF Drop, HostInv, ResumeServed, MayServe, TypeOK
  <2> QED
    BY <1>0, <1>7, <2>1
       DEF Drop, HostInv, LoopServed, CallServed, RowLabelled, WantLabelled, Live, At, MayServe
<1>8. CASE UNCHANGED vars
  BY <1>0, <1>8
     DEF vars, HostInv, LoopServed, CallServed, ResumeServed, RowLabelled, WantLabelled,
         Live, At, MayServe
<1> QED
  BY <1>1, <1>2, <1>3, <1>4, <1>5, <1>6, <1>7, <1>8 DEF Next

\* Two runtimes over one store never both loop over a vigy (the documentation
\* of open_with_extensions_for), whatever calls overlap, are abandoned or fail
\* and whichever processes come and go: provided no vigy is ever registered
\* under labels that two of them serve.
THEOREM HostTicksAlone ==
  ASSUME ScopesDisjoint
  PROVE  Spec => []OneHostTicks
<1>1. HostInv => OneHostTicks
  BY ScopesDisjoint DEF HostInv, LoopServed, ScopesDisjoint, OneHostTicks, TypeOK, LoopType
<1> QED
  BY <1>1, HostInit, HostStep, PTL DEF Spec

(***************************************************************************)
(* Calls about a vigy that come one at a time                              *)
(***************************************************************************)
\* Nothing in vigy-runtime serialises its callers, any statement of a call may
\* fail, and a handle may be dropped with its loops going on: the theorem below
\* needs all three to be ruled out.
OneCallAtATime == ~Overlap /\ "abandon" \notin Faults /\ "drop" \notin Faults

\* Call c is between the two halves of spawn_task with the handle of task s.
Holds(c, s) == call[c].pc = "insert" /\ call[c].slot = s
                 /\ call[c].rt = loop[s].rt /\ call[c].vigy = loop[s].vigy

\* Every loop can still be cancelled: the registry or a call holds its handle
\* under the vigy it ticks.
LoopHeld == \A s \in Slots : Live(s) =>
              \/ tasks[loop[s].rt][loop[s].vigy] = s
              \/ \E c \in Callers : Holds(c, s)

\* insert displaces no handle.
InsertClear == \A c \in Callers : At(c, "insert") => tasks[call[c].rt][call[c].vigy] = NoTask

\* Calls in flight are about different vigies or in different runtimes, and
\* only a runtime that is up has any.
CallsApart == \A c, d \in Callers :
                ~At(c, "idle") /\ ~At(d, "idle")
                  /\ call[c].rt = call[d].rt /\ call[c].vigy = call[d].vigy => c = d
CallsUp == \A c \in Callers : ~At(c, "idle") => status[call[c].rt] = "up"

\* What with_store has still to resume has no task yet.
ResumeClear == \A r \in Runtimes : \A v \in Vigies :
                 \/ status[r] = "down"
                 \/ status[r] = "opening" /\ v \in resume[r]
                 => tasks[r][v] = NoTask
ResumeOpening == \A r \in Runtimes : resume[r] # {} => status[r] = "opening"

SerialInv == /\ TypeOK
             /\ LoopHeld /\ InsertClear /\ CallsApart /\ CallsUp
             /\ ResumeClear /\ ResumeOpening

LEMMA SerialInit == Init => SerialInv
BY TypeInit, DefaultsTyped
   DEF Init, SerialInv, LoopHeld, InsertClear, CallsApart, CallsUp, ResumeClear, ResumeOpening,
       Live, At

\* Parts that only look at the calls survive a step that moves one call on,
\* ends it or leaves it alone.
LEMMA CallsKept ==
  ASSUME CallsApart, CallsUp, UNCHANGED status,
         \A d \in Callers : \/ call'[d].pc = "idle"
                            \/ ~At(d, "idle") /\ call'[d].rt = call[d].rt
                                              /\ call'[d].vigy = call[d].vigy
  PROVE  CallsApart' /\ CallsUp'
BY DEF CallsApart, CallsUp, At

LEMMA SerialStep ==
  ASSUME OneCallAtATime
  PROVE  SerialInv /\ [Next]_vars => SerialInv'
<1> SUFFICES ASSUME SerialInv, [Next]_vars PROVE SerialInv'
  OBVIOUS
<1>0. TypeOK /\ TypeOK'
  BY TypeStep DEF SerialInv
<1>a. \A s \in Slots : loop[s] \in LoopType
  BY <1>0 DEF TypeOK
<1>b. \A c \in Callers : call[c] \in CallType
  BY <1>0 DEF TypeOK
<1>c. NoTask \notin Slots
  BY SetsAssumption
<1>1. ASSUME NEW c \in Callers, CallArrives(c) PROVE SerialInv'
  <2> PICK r \in Runtimes, v \in Vigies, op \in Op, pc \in {"find", "cancel"}, want \in Row :
        Begin(c, r, v, op, pc, want)
    <3> PICK r \in Runtimes, v \in Vigies :
          Register(c, r, v) \/ Enable(c, r, v) \/ Disable(c, r, v) \/ Delete(c, r, v)
      BY <1>1 DEF CallArrives
    <3>1. CASE Register(c, r, v)
      BY <3>1, ConfigAssumption DEF Register, Row, Op
    <3> QED
      BY <3>1, DefaultsTyped DEF Enable, Disable, Delete, Op
  <2> DEFINE new == [Idle EXCEPT !.pc = pc, !.op = op, !.rt = r, !.vigy = v, !.want = want]
  <2>1. new.pc = pc /\ new.rt = r /\ new.vigy = v
    BY DefaultsTyped DEF CallType
  <2>2. /\ call' = [call EXCEPT ![c] = new]
        /\ At(c, "idle") /\ status[r] = "up"
        /\ \A d \in Callers : At(d, "idle") \/ call[d].rt # r \/ call[d].vigy # v
        /\ UNCHANGED <<row, status, resume, tasks, loop>>
    BY DEF Begin, OneCallAtATime
  <2> HIDE DEF new
  <2>3. call'[c] = new /\ \A d \in Callers : d # c => call'[d] = call[d]
    BY <1>0, <2>2 DEF TypeOK
  <2>4. LoopHeld' /\ InsertClear'
    BY <2>1, <2>2, <2>3 DEF SerialInv, LoopHeld, InsertClear, Live, Holds, At
  <2>5. CallsApart' /\ CallsUp'
    BY <2>1, <2>2, <2>3 DEF SerialInv, CallsApart, CallsUp, At
  <2> QED
    BY <1>0, <2>2, <2>4, <2>5 DEF SerialInv, ResumeClear, ResumeOpening
<1>2. ASSUME NEW c \in Callers, CallStep(c) PROVE SerialInv'
  <2> DEFINE r == call[c].rt  v == call[c].vigy
  <2>0. r \in Runtimes /\ v \in Vigies
    BY <1>b DEF CallType
  <2>1. /\ UNCHANGED <<status, resume>>
        /\ ~At(c, "idle")
        /\ \A d \in Callers : d # c => call'[d] = call[d]
        /\ \/ call'[c] = Idle
           \/ call'[c].rt = r /\ call'[c].vigy = v
    BY <1>0, <1>b, <1>2
       DEF CallStep, Find, Upsert, SetEnabled, Get, Spawn, Insert, Cancel, Erase,
           Goto, Return, At, TypeOK, CallType
  <2>2. CallsApart' /\ CallsUp'
    <3>1. \A d \in Callers : \/ call'[d].pc = "idle"
                             \/ ~At(d, "idle") /\ call'[d].rt = call[d].rt
                                               /\ call'[d].vigy = call[d].vigy
      BY <2>1, DefaultsTyped DEF At
    <3> QED
      BY <2>1, <3>1, CallsKept DEF SerialInv
  <2>3. status[r] = "up"
    BY <2>1 DEF SerialInv, CallsUp
  \* Only this call works on r's registry entry for v, and r has nothing to resume.
  <2>4. ASSUME \A q \in Runtimes, w \in Vigies : q # r \/ w # v => tasks'[q][w] = tasks[q][w]
        PROVE  ResumeClear' /\ ResumeOpening'
    BY <2>1, <2>3, <2>4 DEF SerialInv, ResumeClear, ResumeOpening
  <2>5. \A d \in Callers : d # c /\ ~At(d, "idle") => call[d].rt # r \/ call[d].vigy # v
    BY <2>1 DEF SerialInv, CallsApart
  <2>6. CASE Spawn(c)
    <3> PICK s \in Free : /\ loop' = [CancelTask(r, v) EXCEPT ![s] = NewLoop(r, v)]
                          /\ call' = [call EXCEPT ![c].pc = "insert", ![c].slot = s]
      BY <2>6 DEF Spawn
    <3>1. s \in Slots /\ loop[s].pc = "done"
      BY DEF Free
    <3>2. tasks' = [tasks EXCEPT ![r][v] = NoTask]
      BY <2>6 DEF Spawn, Unregistered
    <3>3. \A q \in Runtimes, w \in Vigies :
            tasks'[q][w] = IF q = r /\ w = v THEN NoTask ELSE tasks[q][w]
      BY <1>0, <2>0, <3>2 DEF TypeOK
    <3>4. /\ call'[c].pc = "insert" /\ call'[c].slot = s
          /\ call'[c].rt = r /\ call'[c].vigy = v
      BY <1>0, <1>b, <3>1 DEF TypeOK, CallType
    <3>5. loop'[s] = NewLoop(r, v) /\ \A t \in Slots : t # s => loop'[t] = CancelTask(r, v)[t]
      BY <1>0, <2>0, <3>1, CancelTaskTyped
    <3>6. ASSUME NEW t \in Slots, loop'[t].pc \in {"sleep", "ticking"}
          PROVE  \/ tasks'[loop'[t].rt][loop'[t].vigy] = t
                 \/ \E d \in Callers : Holds(d, t)'
      <4>1. CASE t = s
        <5>1. loop'[s].rt = r /\ loop'[s].vigy = v
          BY <3>5 DEF NewLoop
        <5>2. Holds(c, s)'
          BY <3>4, <5>1 DEF Holds
        <5> QED
          BY <4>1, <5>2
      <4>2. CASE t # s
        <5>1. loop'[t] = loop[t] /\ t # tasks[r][v] /\ Live(t)
          BY <1>0, <2>0, <3>5, <3>6, <4>2, CancelKillsOnly DEF Live
        <5>2. CASE \E d \in Callers : Holds(d, t)
          <6> PICK d \in Callers : Holds(d, t)
            BY <5>2
          <6>1. d # c
            BY <2>6 DEF Spawn, Holds, At
          <6> QED
            BY <2>1, <5>1, <6>1 DEF Holds
        <5>3. CASE tasks[loop[t].rt][loop[t].vigy] = t
          BY <1>a, <3>3, <5>1, <5>3 DEF LoopType
        <5> QED
          BY <5>1, <5>2, <5>3 DEF SerialInv, LoopHeld
      <4> QED
        BY <4>1, <4>2
    <3>7. InsertClear'
      <4> SUFFICES ASSUME NEW d \in Callers, call'[d].pc = "insert"
                   PROVE  tasks'[call'[d].rt][call'[d].vigy] = NoTask
        BY DEF InsertClear, At
      <4>1. CASE d = c
        BY <2>0, <3>3, <3>4, <4>1
      <4>2. CASE d # c
        <5>1. call'[d] = call[d] /\ At(d, "insert")
          BY <2>1, <4>2 DEF At
        <5>2. tasks[call[d].rt][call[d].vigy] = NoTask
          BY <5>1 DEF SerialInv, InsertClear
        <5>3. call[d].rt \in Runtimes /\ call[d].vigy \in Vigies
          BY <1>b DEF CallType
        <5> QED
          BY <3>3, <5>1, <5>2, <5>3
      <4> QED
        BY <4>1, <4>2
    <3>8. LoopHeld'
      BY <3>6 DEF LoopHeld, Live
    <3> QED
      BY <1>0, <2>2, <2>4, <3>3, <3>7, <3>8 DEF SerialInv
  <2>7. CASE Insert(c)
    <3>1. At(c, "insert") /\ UNCHANGED loop /\ call'[c] = Idle
      BY <1>0, <2>7 DEF Insert, Return, TypeOK
    <3>2. \A q \in Runtimes, w \in Vigies :
            tasks'[q][w] = IF q = r /\ w = v THEN call[c].slot ELSE tasks[q][w]
      BY <1>0, <2>0, <2>7 DEF Insert, TypeOK
    <3>3. ASSUME NEW t \in Slots, Live(t)
          PROVE  \/ tasks'[loop[t].rt][loop[t].vigy] = t
                 \/ \E d \in Callers : Holds(d, t)'
      <4>1. CASE \E d \in Callers : Holds(d, t)
        <5> PICK d \in Callers : Holds(d, t)
          BY <4>1
        <5>1. CASE d = c
          BY <2>0, <3>2, <5>1 DEF Holds
        <5>2. CASE d # c
          BY <2>1, <3>1, <5>2 DEF Holds
        <5> QED
          BY <5>1, <5>2
      <4>2. CASE tasks[loop[t].rt][loop[t].vigy] = t
        \* The entry this call overwrites was empty.
        <5>1. tasks[r][v] = NoTask
          BY <3>1 DEF SerialInv, InsertClear
        <5> QED
          BY <1>a, <1>c, <3>2, <4>2, <5>1 DEF LoopType
      <4> QED
        BY <3>3, <4>1, <4>2 DEF SerialInv, LoopHeld
    <3>4. LoopHeld'
      BY <3>1, <3>3 DEF LoopHeld, Live
    <3>5. InsertClear'
      BY <1>b, <2>1, <2>5, <3>1, <3>2, DefaultsTyped DEF SerialInv, InsertClear, At, CallType
    <3> QED
      BY <1>0, <2>2, <2>4, <3>2, <3>4, <3>5 DEF SerialInv
  <2>8. CASE Cancel(c)
    <3>1. At(c, "cancel") /\ loop' = CancelTask(r, v) /\ call'[c].pc # "insert"
      BY <1>0, <1>b, <2>8, DefaultsTyped DEF Cancel, Goto, Return, At, TypeOK, CallType
    <3>2. \A q \in Runtimes, w \in Vigies :
            tasks'[q][w] = IF q = r /\ w = v THEN NoTask ELSE tasks[q][w]
      BY <1>0, <2>0, <2>8 DEF Cancel, Unregistered, TypeOK
    <3>3. ASSUME NEW t \in Slots, loop'[t].pc \in {"sleep", "ticking"}
          PROVE  \/ tasks'[loop'[t].rt][loop'[t].vigy] = t
                 \/ \E d \in Callers : Holds(d, t)'
      <4>1. loop'[t] = loop[t] /\ t # tasks[r][v] /\ Live(t)
        BY <1>0, <2>0, <3>1, <3>3, CancelKillsOnly DEF Live
      <4>2. CASE \E d \in Callers : Holds(d, t)
        BY <2>1, <3>1, <4>1, <4>2 DEF Holds, At
      <4>3. CASE tasks[loop[t].rt][loop[t].vigy] = t
        BY <1>a, <3>2, <4>1, <4>3 DEF LoopType
      <4> QED
        BY <4>1, <4>2, <4>3 DEF SerialInv, LoopHeld
    <3>4. LoopHeld'
      BY <3>3 DEF LoopHeld, Live
    <3>5. InsertClear'
      BY <1>b, <2>1, <2>5, <3>1, <3>2 DEF SerialInv, InsertClear, At, CallType
    <3> QED
      BY <1>0, <2>2, <2>4, <3>2, <3>4, <3>5 DEF SerialInv
  <2>9. CASE Find(c) \/ Upsert(c) \/ SetEnabled(c) \/ Get(c) \/ Erase(c)
    <3>1. UNCHANGED <<tasks, loop>> /\ ~At(c, "insert") /\ call'[c].pc # "insert"
      BY <1>0, <1>b, <2>9, DefaultsTyped
         DEF Find, Upsert, SetEnabled, Get, Erase, Goto, Return, At, TypeOK, CallType
    <3>2. LoopHeld'
      BY <2>1, <3>1 DEF SerialInv, LoopHeld, Live, Holds, At
    <3>3. InsertClear'
      BY <2>1, <3>1 DEF SerialInv, InsertClear, At
    <3> QED
      BY <1>0, <2>2, <2>4, <3>1, <3>2, <3>3 DEF SerialInv
  <2> QED
    BY <1>2, <2>6, <2>7, <2>8, <2>9 DEF CallStep
<1>3. ASSUME NEW c \in Callers, Abandon(c) PROVE SerialInv'
  BY <1>3 DEF Abandon, OneCallAtATime
<1>4. ASSUME NEW s \in Slots, LoopStep(s) \/ WakeError(s) PROVE SerialInv'
  <2>1. /\ UNCHANGED <<row, status, resume, tasks, call>>
        /\ \A t \in Slots : loop'[t].rt = loop[t].rt /\ loop'[t].vigy = loop[t].vigy
                            /\ (loop'[t].pc \in {"sleep", "ticking"} => Live(t))
    <3>1. PICK pc \in LoopPc : /\ loop' = [loop EXCEPT ![s].pc = pc]
                               /\ pc # "done" => Live(s)
      BY <1>4, LoopMoves
    <3> QED
      BY <1>0, <1>a, <1>4, <3>1, LoopMoves DEF TypeOK, LoopType, Live
  <2>2. LoopHeld'
    BY <2>1 DEF SerialInv, LoopHeld, Live, Holds
  <2> QED
    BY <1>0, <2>1, <2>2
       DEF SerialInv, InsertClear, CallsApart, CallsUp, ResumeClear, ResumeOpening, At
<1>5. ASSUME NEW r \in Runtimes, Open(r) PROVE SerialInv'
  <2>1. /\ UNCHANGED <<tasks, loop, call>>
        /\ status[r] = "down" /\ status'[r] = "opening"
        /\ \A q \in Runtimes : q # r => status'[q] = status[q] /\ resume'[q] = resume[q]
    BY <1>0, <1>5 DEF Open, TypeOK
  <2>2. CallsUp'
    BY <2>1, <1>b DEF SerialInv, CallsUp, At, CallType
  <2>3. ResumeClear' /\ ResumeOpening'
    BY <2>1 DEF SerialInv, ResumeClear, ResumeOpening
  <2>4. LoopHeld'
    BY <2>1 DEF SerialInv, LoopHeld, Live, Holds
  <2> QED
    BY <1>0, <2>1, <2>2, <2>3, <2>4 DEF SerialInv, InsertClear, CallsApart, At
<1>6. ASSUME NEW r \in Runtimes, Opening(r) PROVE SerialInv'
  <2>0. \A c \in Callers : ~At(c, "idle") => call[c].rt # r
    BY <1>6 DEF SerialInv, CallsUp, Opening, Ready, Resume
  <2>1. CASE Ready(r)
    <3>1. /\ UNCHANGED <<resume, tasks, loop, call>>
          /\ resume[r] = {} /\ status'[r] = "up"
          /\ \A q \in Runtimes : q # r => status'[q] = status[q]
      BY <1>0, <2>1 DEF Ready, TypeOK
    <3>2. LoopHeld'
      BY <3>1 DEF SerialInv, LoopHeld, Live, Holds
    <3>3. CallsUp' /\ ResumeClear' /\ ResumeOpening'
      BY <1>b, <2>0, <3>1 DEF SerialInv, CallsUp, ResumeClear, ResumeOpening, At, CallType
    <3> QED
      BY <1>0, <3>1, <3>2, <3>3 DEF SerialInv, InsertClear, CallsApart, At
  <2>2. ASSUME NEW v \in Vigies, Resume(r, v) PROVE SerialInv'
    <3> PICK s \in Free : /\ loop' = [loop EXCEPT ![s] = NewLoop(r, v)]
                          /\ tasks' = [tasks EXCEPT ![r][v] = s]
      BY <2>2 DEF Resume
    <3>1. s \in Slots /\ loop[s].pc = "done"
      BY DEF Free
    <3>2. \A q \in Runtimes, w \in Vigies :
            tasks'[q][w] = IF q = r /\ w = v THEN s ELSE tasks[q][w]
      BY <1>0 DEF TypeOK
    <3>3. loop'[s] = NewLoop(r, v) /\ \A t \in Slots : t # s => loop'[t] = loop[t]
      BY <1>0, <3>1 DEF TypeOK
    <3>4. UNCHANGED <<status, call>> /\ status[r] = "opening" /\ v \in resume[r]
      BY <2>2 DEF Resume
    <3>5. tasks[r][v] = NoTask
      BY <3>4 DEF SerialInv, ResumeClear
    <3>6. ASSUME NEW t \in Slots, loop'[t].pc \in {"sleep", "ticking"}
          PROVE  \/ tasks'[loop'[t].rt][loop'[t].vigy] = t
                 \/ \E d \in Callers : Holds(d, t)'
      <4>1. CASE t = s
        BY <3>2, <3>3, <4>1 DEF NewLoop
      <4>2. CASE t # s
        <5>1. loop'[t] = loop[t] /\ Live(t)
          BY <3>3, <3>6, <4>2 DEF Live
        <5>2. CASE \E d \in Callers : Holds(d, t)
          BY <3>4, <5>1, <5>2 DEF Holds
        <5>3. CASE tasks[loop[t].rt][loop[t].vigy] = t
          BY <1>a, <1>c, <3>2, <3>5, <5>1, <5>3 DEF LoopType
        <5> QED
          BY <5>1, <5>2, <5>3 DEF SerialInv, LoopHeld
      <4> QED
        BY <4>1, <4>2
    <3>7. LoopHeld'
      BY <3>6 DEF LoopHeld, Live
    <3>8. InsertClear'
      BY <1>b, <2>0, <3>2, <3>4 DEF SerialInv, InsertClear, At, CallType
    <3>9. ResumeClear' /\ ResumeOpening'
      <4>1. resume'[r] = resume[r] \ {v} /\ \A q \in Runtimes : q # r => resume'[q] = resume[q]
        BY <1>0, <2>2 DEF Resume, TypeOK
      <4> QED
        BY <3>2, <3>4, <4>1 DEF SerialInv, ResumeClear, ResumeOpening
    <3> QED
      BY <1>0, <3>4, <3>7, <3>8, <3>9 DEF SerialInv, CallsApart, CallsUp, At
  <2> QED
    BY <1>6, <2>1, <2>2 DEF Opening
<1>7. ASSUME NEW r \in Runtimes, Exit(r) PROVE SerialInv'
  <2>1. \A c \in Callers : \/ call[c].rt = r /\ call'[c] = Idle
                           \/ call[c].rt # r /\ call'[c] = call[c]
    BY <1>0, <1>7 DEF Exit, TypeOK
  <2>2. \A s \in Slots : /\ loop[s].rt = r => loop'[s].pc = "done"
                         /\ loop[s].rt # r => loop'[s] = loop[s]
    BY <1>0, <1>a, <1>7 DEF Exit, TypeOK, LoopType
  <2>3. /\ status'[r] = "down" /\ resume'[r] = {} /\ \A v \in Vigies : tasks'[r][v] = NoTask
        /\ \A q \in Runtimes : q # r => /\ status'[q] = status[q]
                                        /\ resume'[q] = resume[q]
                                        /\ tasks'[q] = tasks[q]
    BY <1>0, <1>7 DEF Exit, TypeOK
  <2>4. LoopHeld'
    BY <1>a, <2>1, <2>2, <2>3 DEF SerialInv, LoopHeld, Live, Holds, LoopType
  <2>5. InsertClear' /\ CallsUp' /\ CallsApart'
    BY <1>b, <2>1, <2>3, DefaultsTyped
       DEF SerialInv, InsertClear, CallsUp, CallsApart, At, CallType
  <2>6. ResumeClear' /\ ResumeOpening'
    BY <2>3 DEF SerialInv, ResumeClear, ResumeOpening
  <2> QED
    BY <1>0, <2>4, <2>5, <2>6 DEF SerialInv
<1>8. ASSUME NEW r \in Runtimes, Drop(r) PROVE SerialInv'
  BY <1>8 DEF Drop, OneCallAtATime
<1>9. CASE UNCHANGED vars
  BY <1>0, <1>9
     DEF vars, SerialInv, LoopHeld, InsertClear, CallsApart, CallsUp, ResumeClear, ResumeOpening,
         Live, Holds, At
<1> QED
  BY <1>1, <1>2, <1>3, <1>4, <1>5, <1>6, <1>7, <1>8, <1>9 DEF Next

\* A runtime has at most one loop for a vigy ("One task per vigy" in the module
\* documentation of vigy-runtime), across exits, restarts, failed re-reads and
\* other runtimes, as long as its callers take turns about that vigy, every call
\* runs to its end and no process outlives its handle.
THEOREM OneTaskPerVigy ==
  ASSUME OneCallAtATime
  PROVE  Spec => []OneLoopPerVigy
<1>1. SerialInv => OneLoopPerVigy
  <2> SUFFICES ASSUME SerialInv, NEW r \in Runtimes, NEW v \in Vigies,
                      NEW s \in LoopsOf(r, v), NEW t \in LoopsOf(r, v)
               PROVE  s = t
    BY DEF OneLoopPerVigy, LoopsOf
  <2>1. ASSUME NEW u \in LoopsOf(r, v)
        PROVE  \/ tasks[r][v] = u
               \/ \E c \in Callers : At(c, "insert") /\ call[c].slot = u
                                     /\ call[c].rt = r /\ call[c].vigy = v
    BY DEF LoopsOf, SerialInv, LoopHeld, Holds, At
  <2>2. \A c, d \in Callers :
          At(c, "insert") /\ At(d, "insert") /\ call[c].rt = r /\ call[d].rt = r
            /\ call[c].vigy = v /\ call[d].vigy = v => c = d
    BY DEF SerialInv, CallsApart, At
  <2>3. \A c \in Callers :
          At(c, "insert") /\ call[c].rt = r /\ call[c].vigy = v => tasks[r][v] = NoTask
    BY DEF SerialInv, InsertClear
  <2>4. s # NoTask /\ t # NoTask
    BY SetsAssumption DEF LoopsOf
  <2> QED
    BY <2>1, <2>2, <2>3, <2>4
<1> QED
  BY <1>1, SerialInit, SerialStep, PTL DEF Spec

(***************************************************************************)
(* What a runtime alone on its store ticks                                 *)
(***************************************************************************)
OneRuntime == \A q, r \in Runtimes : q = r
StoreAnswers == "dbread" \notin Faults

Running(r, v) == \E s \in Slots : Live(s) /\ loop[s].rt = r /\ loop[s].vigy = v

\* A handle is of a task of the vigy it is kept under.
HandlesRight ==
  /\ \A r \in Runtimes, v \in Vigies :
       tasks[r][v] \in Slots => loop[tasks[r][v]].rt = r /\ loop[tasks[r][v]].vigy = v
  /\ \A c \in Callers : At(c, "insert") => Holds(c, call[c].slot)

\* What a call has done of its work: a loop runs that should, none that should
\* not, or the call is about to see to it.
CallAgrees(c) ==
  LET r == call[c].rt  v == call[c].vigy IN
  /\ At(c, "get") =>
       row[v] # NoRow /\ row[v].enabled /\ (Running(r, v) => Wanted(r, v))
  /\ At(c, "spawn") => Wanted(r, v)
  /\ At(c, "insert") => Wanted(r, v) /\ (StoreAnswers => Running(r, v))
  /\ At(c, "cancel") /\ call[c].op # "delete" => ~Wanted(r, v)
  /\ At(c, "erase") => ~Running(r, v)

\* No call has changed anything of v and not yet returned.
Settled(v) ==
  \A c \in Callers : call[c].vigy = v => call[c].pc \in {"idle", "find", "write"}

VigyAgrees(r, v) ==
  /\ status[r] = "up" /\ Settled(v) =>
       /\ Running(r, v) => Wanted(r, v)
       /\ StoreAnswers /\ Wanted(r, v) => Running(r, v)
  /\ status[r] = "opening" =>
       /\ Running(r, v) \/ v \in resume[r] => Wanted(r, v)
       /\ StoreAnswers /\ Wanted(r, v) => Running(r, v) \/ v \in resume[r]

AgreeInv ==
  /\ HandlesRight
  /\ \A c \in Callers : CallAgrees(c)
  /\ \A r \in Runtimes, v \in Vigies : VigyAgrees(r, v)


LEMMA AgreeInit == Init => AgreeInv
<1> SUFFICES ASSUME Init PROVE AgreeInv
  OBVIOUS
<1>1. /\ \A r \in Runtimes : status[r] = "down"
      /\ \A r \in Runtimes, v \in Vigies : tasks[r][v] \notin Slots
      /\ \A c \in Callers : call[c].pc = "idle"
  BY DefaultsTyped, SetsAssumption DEF Init
<1> QED
  BY <1>1 DEF AgreeInv, HandlesRight, CallAgrees, VigyAgrees, At

(***************************************************************************)
(* Calls                                                                   *)
(***************************************************************************)
\* The call c about v is the only one.
LEMMA OnlyCall ==
  ASSUME SerialInv, OneRuntime, NEW c \in Callers, ~At(c, "idle")
  PROVE  /\ \A d \in Callers : d # c /\ ~At(d, "idle") => call[d].vigy # call[c].vigy
         /\ Settled(call[c].vigy) <=> call[c].pc \in {"find", "write"}
<1>1. ASSUME NEW d \in Callers, d # c, ~At(d, "idle") PROVE call[d].vigy # call[c].vigy
  <2>1. call[d].rt = call[c].rt
    BY DEF SerialInv, TypeOK, CallType, OneRuntime
  <2> QED
    BY <1>1, <2>1 DEF SerialInv, CallsApart
<1> QED
  BY <1>1 DEF Settled, At

\* A call c about v changes nothing about other vigies.
LEMMA CallFrame ==
  ASSUME SerialInv, AgreeInv, OneRuntime,
         NEW c \in Callers, NEW r \in Runtimes, NEW v \in Vigies,
         call[c].rt = r, call[c].vigy = v, ~At(c, "idle"),
         UNCHANGED <<status, resume>>,
         \A d \in Callers \ {c} : call'[d] = call[d],
         \A w \in Vigies \ {v} : row'[w] = row[w] /\ (Running(r, w)' <=> Running(r, w)),
         HandlesRight', CallAgrees(c)', VigyAgrees(r, v)'
  PROVE  AgreeInv'
<1>1. \A w \in Vigies \ {v} : Wanted(r, w)' <=> Wanted(r, w)
  BY DEF Wanted
<1>2. ASSUME NEW d \in Callers \ {c} PROVE CallAgrees(d)'
  <2>1. CASE At(d, "idle")
    BY <2>1 DEF CallAgrees, At
  <2>2. CASE ~At(d, "idle")
    <3>1. call[d].rt = r /\ call[d].vigy \in Vigies \ {v}
      BY <2>2, OnlyCall DEF SerialInv, TypeOK, CallType, OneRuntime
    <3> DEFINE w == call[d].vigy
    <3>2. CallAgrees(d)
      BY DEF AgreeInv
    <3>3. /\ Wanted(r, call[d].vigy)' <=> Wanted(r, call[d].vigy)
          /\ Running(r, call[d].vigy)' <=> Running(r, call[d].vigy)
          /\ row'[call[d].vigy] = row[call[d].vigy]
      <4>1. PICK u \in Vigies \ {v} : u = call[d].vigy
        BY <3>1
      <4>2. call'[d] = call[d]
        OBVIOUS
      <4> QED
        BY <1>1, <4>1, <4>2
    <3> QED
      BY <3>1, <3>2, <3>3 DEF CallAgrees, At
  <2> QED
    BY <2>1, <2>2
<1>3. ASSUME NEW w \in Vigies \ {v} PROVE VigyAgrees(r, w)'
  <2>1. Settled(w)' => Settled(w)
    BY DEF Settled
  <2>2. VigyAgrees(r, w)
    BY DEF AgreeInv
  <2> QED
    BY <1>1, <2>1, <2>2 DEF VigyAgrees
<1>4. \A q \in Runtimes : q = r
  BY DEF OneRuntime
<1> QED
  BY <1>2, <1>3, <1>4 DEF AgreeInv

\* Aborting the task in the registry reaches the only loop a runtime has for v,
\* and no loop of another vigy.
LEMMA CancelReaches ==
  ASSUME SerialInv, AgreeInv, NEW c \in Callers, NEW r \in Runtimes, NEW v \in Vigies,
         call[c].rt = r, call[c].vigy = v, call[c].pc \in {"spawn", "cancel"},
         NEW s \in Slots
  PROVE  /\ loop[s].vigy # v => CancelTask(r, v)[s] = loop[s]
         /\ loop[s].rt = r /\ loop[s].vigy = v
              => CancelTask(r, v)[s].pc \notin {"sleep", "ticking"}
<1>1. ASSUME loop[s].vigy # v PROVE CancelTask(r, v)[s] = loop[s]
  BY <1>1 DEF CancelTask, AgreeInv, HandlesRight
<1>2. ASSUME loop[s].rt = r, loop[s].vigy = v, CancelTask(r, v)[s].pc \in {"sleep", "ticking"}
      PROVE  FALSE
  <2>1. Live(s) /\ s # tasks[r][v]
    BY <1>2, CancelKillsOnly DEF SerialInv, Live
  <2>2. PICK d \in Callers : Holds(d, s)
    BY <1>2, <2>1 DEF SerialInv, LoopHeld
  <2>3. d = c
    BY <1>2, <2>2 DEF SerialInv, CallsApart, Holds, At
  <2> QED
    BY <2>2, <2>3 DEF Holds
<1> QED
  BY <1>1, <1>2

LEMMA SpawnAgrees ==
  ASSUME SerialInv, AgreeInv, OneRuntime, NEW c \in Callers, Spawn(c)
  PROVE  AgreeInv'
<1>0. TypeOK /\ At(c, "spawn") /\ ~At(c, "idle") /\ call[c] \in CallType
  BY DEF SerialInv, Spawn, At, TypeOK
<1> PICK r \in Runtimes, v \in Vigies : call[c].rt = r /\ call[c].vigy = v
  BY <1>0 DEF CallType
<1> PICK s \in Free : /\ loop' = [CancelTask(r, v) EXCEPT ![s] = NewLoop(r, v)]
                      /\ call' = [call EXCEPT ![c].pc = "insert", ![c].slot = s]
  BY DEF Spawn
<1>1. s \in Slots /\ loop[s].pc = "done" /\ ~Held(s)
  BY DEF Free
<1>2. tasks' = [tasks EXCEPT ![r][v] = NoTask] /\ UNCHANGED <<row, status, resume>>
  BY DEF Spawn, Unregistered
<1>3. \A q \in Runtimes, w \in Vigies :
        tasks'[q][w] = IF q = r /\ w = v THEN NoTask ELSE tasks[q][w]
  BY <1>0, <1>2 DEF TypeOK
<1>4. /\ call'[c].pc = "insert" /\ call'[c].slot = s
      /\ call'[c].rt = r /\ call'[c].vigy = v
      /\ \A d \in Callers \ {c} : call'[d] = call[d]
  BY <1>0, <1>1 DEF TypeOK, CallType
<1>5. /\ loop'[s] = NewLoop(r, v)
      /\ \A t \in Slots \ {s} : loop'[t] = CancelTask(r, v)[t]
  BY <1>0, <1>1, CancelTaskTyped
<1>6. \A t \in Slots \ {s} : /\ loop'[t].rt = loop[t].rt /\ loop'[t].vigy = loop[t].vigy
                             /\ loop[t].vigy # v => loop'[t] = loop[t]
  BY <1>0, <1>5, CancelKillsOnly, CancelReaches DEF At
<1>7. NewLoop(r, v).pc = "sleep" /\ NewLoop(r, v).rt = r /\ NewLoop(r, v).vigy = v
  BY DEF NewLoop
<1>8. HandlesRight'
  <2>1. ASSUME NEW q \in Runtimes, NEW w \in Vigies, tasks'[q][w] \in Slots
        PROVE  loop'[tasks'[q][w]].rt = q /\ loop'[tasks'[q][w]].vigy = w
    <3>1. tasks'[q][w] = tasks[q][w]
      BY <1>3, <2>1, SetsAssumption
    <3>2. tasks[q][w] # s
      BY <1>1 DEF Held
    <3> QED
      BY <1>6, <2>1, <3>1, <3>2 DEF AgreeInv, HandlesRight
  <2>2. ASSUME NEW d \in Callers, call'[d].pc = "insert"
        PROVE  /\ call'[d].rt = loop'[call'[d].slot].rt
               /\ call'[d].vigy = loop'[call'[d].slot].vigy
    <3>1. CASE d = c
      BY <1>4, <1>5, <1>7, <3>1
    <3>2. CASE d # c
      <4>1. At(d, "insert") /\ call'[d] = call[d] /\ call[d].slot \in Slots
        BY <1>0, <1>4, <2>2, <3>2 DEF At, TypeOK
      <4>2. call[d].slot # s
        BY <1>1, <4>1 DEF Held, At
      <4>3. /\ loop'[call[d].slot].rt = loop[call[d].slot].rt
            /\ loop'[call[d].slot].vigy = loop[call[d].slot].vigy
        BY <1>6, <4>1, <4>2
      <4>4. /\ call[d].rt = loop[call[d].slot].rt
            /\ call[d].vigy = loop[call[d].slot].vigy
        BY <4>1 DEF AgreeInv, HandlesRight, Holds
      <4> QED
        BY <4>1, <4>3, <4>4
    <3> QED
      BY <3>1, <3>2
  <2> QED
    BY <2>1, <2>2 DEF HandlesRight, Holds, At
<1>9. Running(r, v)' /\ (Wanted(r, v)' <=> Wanted(r, v))
  BY <1>1, <1>2, <1>5, <1>7 DEF Running, Live, Wanted
<1>10. Wanted(r, v)
  BY <1>0 DEF AgreeInv, CallAgrees
<1>11. CallAgrees(c)'
  BY <1>4, <1>9, <1>10 DEF CallAgrees, At
<1>12. VigyAgrees(r, v)'
  <2>1. status'[r] = "up" /\ ~Settled(v)'
    BY <1>0, <1>2, <1>4 DEF SerialInv, CallsUp, Settled
  <2> QED
    BY <2>1 DEF VigyAgrees
<1>13. \A w \in Vigies \ {v} : Running(r, w)' <=> Running(r, w)
  <2> SUFFICES ASSUME NEW w \in Vigies \ {v} PROVE Running(r, w)' <=> Running(r, w)
    OBVIOUS
  <2>1. \A t \in Slots : /\ loop[t].vigy = w /\ t # s => loop'[t] = loop[t]
                         /\ loop'[t].vigy = w => t # s /\ loop[t].vigy = w
    BY <1>5, <1>6, <1>7
  <2>2. ~Live(s)
    BY <1>1 DEF Live
  <2> QED
    BY <2>1, <2>2 DEF Running, Live
<1> QED
  BY <1>0, <1>2, <1>4, <1>8, <1>11, <1>12, <1>13, CallFrame

LEMMA CancelAgrees ==
  ASSUME SerialInv, AgreeInv, OneRuntime, NEW c \in Callers, Cancel(c)
  PROVE  AgreeInv'
<1>0. TypeOK /\ At(c, "cancel") /\ ~At(c, "idle") /\ call[c] \in CallType
  BY DEF SerialInv, Cancel, At, TypeOK
<1> PICK r \in Runtimes, v \in Vigies : call[c].rt = r /\ call[c].vigy = v
  BY <1>0 DEF CallType
<1>1. loop' = CancelTask(r, v) /\ UNCHANGED <<row, status, resume>>
  BY DEF Cancel
<1>2. \A q \in Runtimes, w \in Vigies :
        tasks'[q][w] = IF q = r /\ w = v THEN NoTask ELSE tasks[q][w]
  BY <1>0 DEF TypeOK, Cancel, Unregistered
<1>3. /\ \A d \in Callers \ {c} : call'[d] = call[d]
      /\ \/ call[c].op = "delete" /\ call'[c] = [call[c] EXCEPT !.pc = "erase"]
         \/ call[c].op # "delete" /\ call'[c] = Idle
  BY <1>0 DEF Cancel, Goto, Return, TypeOK
<1>4. \/ /\ call[c].op = "delete" /\ call'[c].pc = "erase"
         /\ call'[c].rt = r /\ call'[c].vigy = v
      \/ call[c].op # "delete" /\ call'[c].pc = "idle"
  BY <1>0, <1>3, DefaultsTyped DEF CallType
<1>5. \A t \in Slots : /\ loop'[t].rt = loop[t].rt /\ loop'[t].vigy = loop[t].vigy
                       /\ loop[t].vigy # v => loop'[t] = loop[t]
  BY <1>0, <1>1, CancelKillsOnly, CancelReaches DEF At
<1>6. HandlesRight'
  <2>1. ASSUME NEW q \in Runtimes, NEW w \in Vigies, tasks'[q][w] \in Slots
        PROVE  loop'[tasks'[q][w]].rt = q /\ loop'[tasks'[q][w]].vigy = w
    BY <1>2, <1>5, <2>1, SetsAssumption DEF AgreeInv, HandlesRight
  <2>2. ASSUME NEW d \in Callers, call'[d].pc = "insert"
        PROVE  /\ call'[d].rt = loop'[call'[d].slot].rt
               /\ call'[d].vigy = loop'[call'[d].slot].vigy
    <3>1. At(d, "insert") /\ call'[d] = call[d] /\ call[d].slot \in Slots
      BY <1>0, <1>3, <1>4, <2>2 DEF At, TypeOK
    <3> QED
      BY <1>5, <3>1 DEF AgreeInv, HandlesRight, Holds
  <2> QED
    BY <2>1, <2>2 DEF HandlesRight, Holds, At
<1>7. ~Running(r, v)'
  BY <1>0, <1>1, <1>5, CancelReaches DEF Running, Live, At
<1>8. Wanted(r, v)' <=> Wanted(r, v)
  BY <1>1 DEF Wanted
<1>9. call[c].op # "delete" => ~Wanted(r, v)
  BY <1>0 DEF AgreeInv, CallAgrees
<1>10. CallAgrees(c)'
  BY <1>4, <1>7 DEF CallAgrees, At
<1>11. VigyAgrees(r, v)'
  <2>1. status'[r] = "up"
    BY <1>0, <1>1 DEF SerialInv, CallsUp
  <2>2. call[c].op = "delete" => ~Settled(v)'
    BY <1>4 DEF Settled
  <2> QED
    BY <1>7, <1>8, <1>9, <2>1, <2>2 DEF VigyAgrees
<1>12. \A w \in Vigies \ {v} : Running(r, w)' <=> Running(r, w)
  BY <1>5 DEF Running, Live
<1> QED
  BY <1>0, <1>1, <1>3, <1>6, <1>10, <1>11, <1>12, CallFrame

\* A step of c that touches no loop and no registry.
LEMMA RowStepAgrees ==
  ASSUME SerialInv, AgreeInv, OneRuntime, NEW c \in Callers,
         Find(c) \/ Upsert(c) \/ SetEnabled(c) \/ Get(c) \/ Erase(c)
  PROVE  AgreeInv'
<1>0. TypeOK /\ ~At(c, "idle") /\ ~At(c, "insert") /\ call[c] \in CallType
  BY DEF SerialInv, Find, Upsert, SetEnabled, Get, Erase, At, TypeOK
<1> PICK r \in Runtimes, v \in Vigies : call[c].rt = r /\ call[c].vigy = v
  BY <1>0 DEF CallType
<1>1. UNCHANGED <<status, resume, tasks, loop>>
  BY DEF Find, Upsert, SetEnabled, Get, Erase
<1>2. /\ \A d \in Callers \ {c} : call'[d] = call[d]
      /\ \/ call'[c].pc = "idle"
         \/ /\ call'[c].pc \in {"write", "get", "spawn", "cancel"}
            /\ call'[c].rt = r /\ call'[c].vigy = v /\ call'[c].op = call[c].op
  BY <1>0, DefaultsTyped DEF Find, Upsert, SetEnabled, Get, Erase, Goto, Return, TypeOK, CallType
<1>3. \A w \in Vigies \ {v} : row'[w] = row[w]
  BY <1>0 DEF Find, Upsert, SetEnabled, Get, Erase, TypeOK
<1>4. \A w \in Vigies : Running(r, w)' <=> Running(r, w)
  BY <1>1 DEF Running, Live
<1>5. HandlesRight'
  BY <1>1, <1>2 DEF AgreeInv, HandlesRight, Holds, At
<1>6. status'[r] = "up"
  BY <1>0, <1>1 DEF SerialInv, CallsUp
<1>7. Settled(v) <=> call[c].pc \in {"find", "write"}
  BY <1>0, OnlyCall
<1>8. call[c].pc \in {"find", "write"} =>
        /\ Running(r, v) => Wanted(r, v)
        /\ StoreAnswers /\ Wanted(r, v) => Running(r, v)
  BY <1>1, <1>6, <1>7 DEF AgreeInv, VigyAgrees
<1>9. CallAgrees(c)
  BY DEF AgreeInv
<1>10. call'[c].pc \in {"get", "spawn", "cancel"} => ~Settled(v)'
  BY <1>2 DEF Settled
<1>a. NoRow \notin Row
  BY ConfigAssumption DEF Row
<1>11. CASE UNCHANGED row /\ call'[c].pc \in {"idle", "write"} /\ call[c].pc \in {"find", "write"}
  <2>1. Wanted(r, v)' <=> Wanted(r, v)
    BY <1>11 DEF Wanted
  <2>2. CallAgrees(c)'
    BY <1>11 DEF CallAgrees, At
  <2>3. VigyAgrees(r, v)'
    BY <1>4, <1>6, <1>8, <1>11, <2>1 DEF VigyAgrees
  <2> QED
    BY <1>0, <1>1, <1>2, <1>3, <1>4, <1>5, <2>2, <2>3, CallFrame
<1>12. ASSUME call'[c].pc \in {"get", "spawn", "cancel"}, CallAgrees(c)' PROVE AgreeInv'
  <2>1. VigyAgrees(r, v)'
    BY <1>6, <1>10, <1>12 DEF VigyAgrees
  <2> QED
    BY <1>0, <1>1, <1>2, <1>3, <1>4, <1>5, <1>12, <2>1, CallFrame
<1>13. CASE Find(c)
  <2>1. UNCHANGED row /\ call'[c].pc \in {"idle", "write"} /\ call[c].pc = "find"
    BY <1>0, <1>13, DefaultsTyped DEF Find, Return, At, TypeOK, CallType
  <2> QED
    BY <1>11, <2>1
<1>14. CASE Upsert(c)
  <2> DEFINE w == call[c].want
  <2>1. call[c].pc = "write" /\ call[c].op = "register" /\ w \in Row
    BY <1>0, <1>14 DEF Upsert, At, CallType
  <2>2. CASE call[c].found = (row[v] # NoRow)
    <3>1. /\ row'[v] = w
          /\ call'[c].pc = IF w.enabled /\ Serves(r, w.host) THEN "spawn" ELSE "cancel"
      BY <1>0, <1>14, <2>2 DEF Upsert, Goto, TypeOK, CallType
    <3>2. Wanted(r, v)' <=> w.enabled /\ Serves(r, w.host)
      BY <1>a, <2>1, <3>1 DEF Wanted
    <3>3. call'[c].rt = r /\ call'[c].vigy = v
      BY <1>2, <3>1
    <3>4. CallAgrees(c)'
      BY <3>1, <3>2, <3>3 DEF CallAgrees, At
    <3> QED
      BY <1>12, <3>1, <3>4
  <2>3. CASE call[c].found # (row[v] # NoRow)
    <3>1. UNCHANGED row /\ call'[c].pc = "idle"
      BY <1>0, <1>14, <2>3, DefaultsTyped DEF Upsert, Return, TypeOK
    <3> QED
      BY <1>11, <2>1, <3>1
  <2> QED
    BY <2>2, <2>3
<1>15. CASE SetEnabled(c)
  <2>1. call[c].pc = "write"
    BY <1>15 DEF SetEnabled, At
  <2>2. CASE row[v] # NoRow
    <3>1. /\ row'[v] = [row[v] EXCEPT !.enabled = (call[c].op = "enable")]
          /\ call'[c].pc = IF call[c].op = "enable" THEN "get" ELSE "cancel"
      BY <1>0, <1>15, <2>2 DEF SetEnabled, Goto, TypeOK, CallType
    <3>2. row[v] \in Row
      BY <1>0, <2>2 DEF TypeOK
    <3>3. /\ row'[v] # NoRow /\ row'[v].enabled = (call[c].op = "enable")
          /\ row'[v].host = row[v].host
      BY <1>a, <3>1, <3>2 DEF Row
    <3>4. call'[c].rt = r /\ call'[c].vigy = v
      BY <1>2, <3>1
    <3>5. Wanted(r, v)' <=> call[c].op = "enable" /\ Serves(r, row[v].host)
      BY <3>3 DEF Wanted
    <3>6. Running(r, v) => Serves(r, row[v].host)
      BY <1>8, <2>1 DEF Wanted
    <3>7. CallAgrees(c)'
      <4>1. CASE call[c].op = "enable"
        <5>1. At(c, "get")' /\ row'[v].enabled /\ (Running(r, v)' => Wanted(r, v)')
          BY <1>4, <3>1, <3>3, <3>5, <3>6, <4>1 DEF At
        <5> QED
          BY <3>3, <3>4, <5>1 DEF CallAgrees, At
      <4>2. CASE call[c].op # "enable"
        BY <3>1, <3>4, <3>5, <4>2 DEF CallAgrees, At
      <4> QED
        BY <4>1, <4>2
    <3> QED
      BY <1>12, <3>1, <3>7
  <2>3. CASE row[v] = NoRow
    <3>1. UNCHANGED row /\ call'[c].pc = "idle"
      BY <1>0, <1>15, <2>3, DefaultsTyped DEF SetEnabled, Return, TypeOK
    <3> QED
      BY <1>11, <2>1, <3>1
  <2> QED
    BY <2>2, <2>3
<1>16. CASE Get(c)
  <2>1. UNCHANGED row /\ row[v] # NoRow /\ row[v].enabled /\ (Running(r, v) => Wanted(r, v))
    BY <1>9, <1>16 DEF Get, CallAgrees
  <2>2. call'[c].pc = IF Serves(r, row[v].host) THEN "spawn" ELSE "idle"
    BY <1>0, <1>16, <2>1, DefaultsTyped DEF Get, Goto, Return, TypeOK, CallType
  <2>3. (Wanted(r, v)' <=> Wanted(r, v)) /\ (Wanted(r, v) <=> Serves(r, row[v].host))
    BY <2>1 DEF Wanted
  <2>4. CASE Serves(r, row[v].host)
    <3>1. CallAgrees(c)'
      BY <1>2, <2>2, <2>3, <2>4 DEF CallAgrees, At
    <3> QED
      BY <1>12, <2>2, <2>4, <3>1
  <2>5. CASE ~Serves(r, row[v].host)
    <3>1. CallAgrees(c)'
      BY <2>2, <2>5 DEF CallAgrees, At
    <3>2. VigyAgrees(r, v)'
      BY <1>4, <1>6, <2>1, <2>3, <2>5 DEF VigyAgrees
    <3> QED
      BY <1>0, <1>1, <1>2, <1>3, <1>4, <1>5, <3>1, <3>2, CallFrame
  <2> QED
    BY <2>4, <2>5
<1>17. CASE Erase(c)
  <2>1. row'[v] = NoRow /\ call'[c].pc = "idle" /\ ~Running(r, v)
    BY <1>0, <1>9, <1>17, DefaultsTyped DEF Erase, Return, CallAgrees, TypeOK
  <2>2. ~Wanted(r, v)'
    BY <2>1 DEF Wanted
  <2>3. CallAgrees(c)'
    BY <2>1 DEF CallAgrees, At
  <2>4. VigyAgrees(r, v)'
    BY <1>4, <1>6, <2>1, <2>2 DEF VigyAgrees
  <2> QED
    BY <1>0, <1>1, <1>2, <1>3, <1>4, <1>5, <2>3, <2>4, CallFrame
<1> QED
  BY <1>13, <1>14, <1>15, <1>16, <1>17

LEMMA InsertAgrees ==
  ASSUME SerialInv, AgreeInv, OneRuntime, NEW c \in Callers, Insert(c)
  PROVE  AgreeInv'
<1>0. TypeOK /\ At(c, "insert") /\ ~At(c, "idle") /\ call[c] \in CallType
  BY DEF SerialInv, Insert, At, TypeOK
<1> PICK r \in Runtimes, v \in Vigies : call[c].rt = r /\ call[c].vigy = v
  BY <1>0 DEF CallType
<1>1. UNCHANGED <<row, status, resume, loop>>
  BY DEF Insert
<1>2. call'[c].pc = "idle" /\ \A d \in Callers \ {c} : call'[d] = call[d]
  BY <1>0, DefaultsTyped DEF Insert, Return, TypeOK
<1>3. \A q \in Runtimes, w \in Vigies :
        tasks'[q][w] = IF q = r /\ w = v THEN call[c].slot ELSE tasks[q][w]
  BY <1>0 DEF Insert, TypeOK
<1>4. loop[call[c].slot].rt = r /\ loop[call[c].slot].vigy = v
  BY <1>0 DEF AgreeInv, HandlesRight, Holds
<1>5. HandlesRight'
  <2>1. \A q \in Runtimes, w \in Vigies :
          tasks'[q][w] \in Slots => loop'[tasks'[q][w]].rt = q /\ loop'[tasks'[q][w]].vigy = w
    BY <1>1, <1>3, <1>4 DEF AgreeInv, HandlesRight
  <2> QED
    BY <1>1, <1>2, <2>1 DEF AgreeInv, HandlesRight, Holds, At
<1>6. \A w \in Vigies : (Running(r, w)' <=> Running(r, w)) /\ (Wanted(r, w)' <=> Wanted(r, w))
  BY <1>1 DEF Running, Live, Wanted
<1>7. Wanted(r, v) /\ (StoreAnswers => Running(r, v))
  BY <1>0 DEF AgreeInv, CallAgrees
<1>8. CallAgrees(c)'
  BY <1>2 DEF CallAgrees, At
<1>9. VigyAgrees(r, v)'
  <2>1. status'[r] = "up"
    BY <1>0, <1>1 DEF SerialInv, CallsUp
  <2> QED
    BY <1>6, <1>7, <2>1 DEF VigyAgrees
<1> QED
  BY <1>0, <1>1, <1>2, <1>5, <1>6, <1>8, <1>9, CallFrame

(***************************************************************************)
(* Every step                                                              *)
(***************************************************************************)
LEMMA AgreeStep ==
  ASSUME OneCallAtATime, OneRuntime
  PROVE  SerialInv /\ AgreeInv /\ [Next]_vars => AgreeInv'
<1> SUFFICES ASSUME SerialInv, AgreeInv, [Next]_vars PROVE AgreeInv'
  OBVIOUS
<1>0. TypeOK
  BY DEF SerialInv
<1>1. ASSUME NEW c \in Callers, CallArrives(c) PROVE AgreeInv'
  <2> PICK r \in Runtimes, v \in Vigies, op \in Op, pc \in {"find", "cancel"}, want \in Row :
        Begin(c, r, v, op, pc, want) /\ (pc = "cancel" => op = "delete")
    <3> PICK r \in Runtimes, v \in Vigies :
          Register(c, r, v) \/ Enable(c, r, v) \/ Disable(c, r, v) \/ Delete(c, r, v)
      BY <1>1 DEF CallArrives
    <3>1. CASE Register(c, r, v)
      BY <3>1, ConfigAssumption DEF Register, Row, Op
    <3> QED
      BY <3>1, DefaultsTyped DEF Enable, Disable, Delete, Op
  <2> DEFINE new == [Idle EXCEPT !.pc = pc, !.op = op, !.rt = r, !.vigy = v, !.want = want]
  <2>1. new.pc = pc /\ new.op = op
    BY DefaultsTyped DEF CallType
  <2>2. /\ call' = [call EXCEPT ![c] = new] /\ At(c, "idle")
        /\ UNCHANGED <<row, status, resume, tasks, loop>>
    BY DEF Begin
  <2> HIDE DEF new
  <2>3. call'[c] = new /\ \A d \in Callers \ {c} : call'[d] = call[d]
    BY <1>0, <2>2 DEF TypeOK
  <2>4. \A q \in Runtimes, w \in Vigies :
          (Running(q, w)' <=> Running(q, w)) /\ (Wanted(q, w)' <=> Wanted(q, w))
    BY <2>2 DEF Running, Live, Wanted
  <2>5. HandlesRight'
    BY <2>1, <2>2, <2>3 DEF AgreeInv, HandlesRight, Holds, At
  <2>6. ASSUME NEW d \in Callers PROVE CallAgrees(d)'
    <3>1. CASE d = c
      BY <2>1, <2>3, <3>1 DEF CallAgrees, At
    <3>2. CASE d # c
      <4>1. call'[d] = call[d] /\ call[d].rt \in Runtimes /\ call[d].vigy \in Vigies
        BY <1>0, <2>3, <3>2 DEF TypeOK, CallType
      <4>2. PICK q \in Runtimes, w \in Vigies : call[d].rt = q /\ call[d].vigy = w
        BY <4>1
      <4> QED
        BY <2>2, <2>4, <4>1, <4>2 DEF AgreeInv, CallAgrees, At
    <3> QED
      BY <3>1, <3>2
  <2>7. ASSUME NEW q \in Runtimes, NEW w \in Vigies PROVE VigyAgrees(q, w)'
    <3>1. Settled(w)' => Settled(w)
      BY <2>2, <2>3 DEF Settled, At
    <3> QED
      BY <2>2, <2>4, <3>1 DEF AgreeInv, VigyAgrees
  <2> QED
    BY <2>5, <2>6, <2>7 DEF AgreeInv
<1>2. ASSUME NEW c \in Callers, CallStep(c) PROVE AgreeInv'
  BY <1>2, RowStepAgrees, SpawnAgrees, InsertAgrees, CancelAgrees DEF CallStep
<1>3. ASSUME NEW c \in Callers, Abandon(c) PROVE AgreeInv'
  BY <1>3 DEF Abandon, OneCallAtATime
<1>4. ASSUME NEW s \in Slots, LoopStep(s) \/ WakeError(s) PROVE AgreeInv'
  <2>1. /\ UNCHANGED <<row, status, resume, tasks, call>>
        /\ \A t \in Slots : loop'[t].rt = loop[t].rt /\ loop'[t].vigy = loop[t].vigy
                            /\ (loop'[t].pc \in {"sleep", "ticking"} => Live(t))
    <3>1. PICK pc \in LoopPc : /\ loop' = [loop EXCEPT ![s].pc = pc]
                               /\ pc # "done" => Live(s)
      BY <1>4, LoopMoves
    <3> QED
      BY <1>0, <1>4, <3>1, LoopMoves DEF TypeOK, LoopType, Live
  <2>2. ASSUME StoreAnswers, NEW t \in Slots, Live(t),
               Wanted(loop[t].rt, loop[t].vigy)
        PROVE  loop'[t].pc \in {"sleep", "ticking"}
    <3>1. row[loop[t].vigy] # NoRow /\ row[loop[t].vigy].enabled
      BY <2>2 DEF Wanted
    <3>2. CASE t = s
      BY <1>0, <1>4, <2>2, <3>1, <3>2
         DEF LoopStep, Wake, WakeError, TickDone, Drained, StoreAnswers, Live, TypeOK, LoopType
    <3>3. CASE t # s
      BY <1>0, <1>4, <2>2, <3>3
         DEF LoopStep, Wake, WakeError, TickDone, Drained, Live, TypeOK
    <3> QED
      BY <3>2, <3>3
  <2>3. \A q \in Runtimes, w \in Vigies :
          /\ Wanted(q, w)' <=> Wanted(q, w)
          /\ Running(q, w)' => Running(q, w)
          /\ StoreAnswers /\ Wanted(q, w) /\ Running(q, w) => Running(q, w)'
    BY <2>1, <2>2 DEF Running, Wanted, Live
  <2>4. HandlesRight'
    BY <1>0, <2>1 DEF AgreeInv, HandlesRight, Holds, At, TypeOK
  <2>5. ASSUME NEW d \in Callers PROVE CallAgrees(d)'
    <3>1. call'[d] = call[d] /\ call[d].rt \in Runtimes /\ call[d].vigy \in Vigies
      BY <1>0, <2>1 DEF TypeOK, CallType
    <3>2. PICK q \in Runtimes, w \in Vigies : call[d].rt = q /\ call[d].vigy = w
      BY <3>1
    <3> QED
      BY <2>1, <2>3, <3>1, <3>2 DEF AgreeInv, CallAgrees, At
  <2>6. ASSUME NEW q \in Runtimes, NEW w \in Vigies PROVE VigyAgrees(q, w)'
    <3>1. Settled(w)' <=> Settled(w)
      BY <2>1 DEF Settled
    <3> QED
      BY <2>1, <2>3, <3>1 DEF AgreeInv, VigyAgrees
  <2> QED
    BY <2>4, <2>5, <2>6 DEF AgreeInv
\* A runtime that is not up has no call, and before it opens no loop.
<1>a. ASSUME NEW r \in Runtimes, status[r] # "up" PROVE \A c \in Callers : At(c, "idle")
  BY <1>0, <1>a DEF SerialInv, CallsUp, TypeOK, CallType, OneRuntime
<1>5. ASSUME NEW r \in Runtimes, Open(r) PROVE AgreeInv'
  <2>1. /\ UNCHANGED <<row, tasks, loop, call>> /\ status[r] = "down" /\ status'[r] = "opening"
        /\ resume'[r] = {v \in Vigies : Wanted(r, v)}
    BY <1>0, <1>5 DEF Open, TypeOK
  <2>2. ASSUME NEW v \in Vigies PROVE ~Running(r, v)
    <3>1. tasks[r][v] = NoTask /\ \A c \in Callers : ~At(c, "insert")
      BY <1>a, <2>1 DEF SerialInv, ResumeClear, At
    <3> QED
      BY <3>1, SetsAssumption DEF Running, SerialInv, LoopHeld, Holds, At
  <2>3. \A v \in Vigies : (Running(r, v)' <=> Running(r, v)) /\ (Wanted(r, v)' <=> Wanted(r, v))
    BY <2>1 DEF Running, Live, Wanted
  <2>4. HandlesRight'
    BY <2>1 DEF AgreeInv, HandlesRight, Holds, At
  <2>5. \A c \in Callers : CallAgrees(c)'
    BY <1>a, <2>1 DEF CallAgrees, At
  <2>6. \A v \in Vigies : VigyAgrees(r, v)'
    BY <2>1, <2>2, <2>3 DEF VigyAgrees
  <2> QED
    BY <2>4, <2>5, <2>6 DEF AgreeInv, OneRuntime
<1>6. ASSUME NEW r \in Runtimes, Ready(r) PROVE AgreeInv'
  <2>1. /\ UNCHANGED <<row, tasks, loop, call>> /\ status[r] = "opening" /\ status'[r] = "up"
        /\ resume[r] = {}
    BY <1>0, <1>6 DEF Ready, TypeOK
  <2>2. \A v \in Vigies : (Running(r, v)' <=> Running(r, v)) /\ (Wanted(r, v)' <=> Wanted(r, v))
    BY <2>1 DEF Running, Live, Wanted
  <2>3. HandlesRight'
    BY <2>1 DEF AgreeInv, HandlesRight, Holds, At
  <2>4. \A c \in Callers : CallAgrees(c)'
    BY <1>a, <2>1 DEF CallAgrees, At
  <2>5. \A v \in Vigies : VigyAgrees(r, v)'
    BY <2>1, <2>2 DEF AgreeInv, VigyAgrees
  <2> QED
    BY <2>3, <2>4, <2>5 DEF AgreeInv, OneRuntime
<1>7. ASSUME NEW r \in Runtimes, NEW v \in Vigies, Resume(r, v) PROVE AgreeInv'
  <2> PICK s \in Free : /\ loop' = [loop EXCEPT ![s] = NewLoop(r, v)]
                        /\ tasks' = [tasks EXCEPT ![r][v] = s]
    BY <1>7 DEF Resume
  <2>1. s \in Slots /\ loop[s].pc = "done" /\ ~Held(s)
    BY DEF Free
  <2>2. \A q \in Runtimes, w \in Vigies :
          tasks'[q][w] = IF q = r /\ w = v THEN s ELSE tasks[q][w]
    BY <1>0 DEF TypeOK
  <2>3. loop'[s] = NewLoop(r, v) /\ \A t \in Slots \ {s} : loop'[t] = loop[t]
    BY <1>0, <2>1 DEF TypeOK
  <2>4. /\ UNCHANGED <<row, status, call>> /\ status[r] = "opening" /\ v \in resume[r]
        /\ resume'[r] = resume[r] \ {v}
    BY <1>0, <1>7 DEF Resume, TypeOK
  <2>5. NewLoop(r, v).pc = "sleep" /\ NewLoop(r, v).rt = r /\ NewLoop(r, v).vigy = v
    BY DEF NewLoop
  <2>6. HandlesRight'
    <3>1. ASSUME NEW q \in Runtimes, NEW w \in Vigies, tasks'[q][w] \in Slots
          PROVE  loop'[tasks'[q][w]].rt = q /\ loop'[tasks'[q][w]].vigy = w
      <4>1. CASE q = r /\ w = v
        BY <2>2, <2>3, <2>5, <4>1
      <4>2. CASE ~(q = r /\ w = v)
        <5>1. tasks'[q][w] = tasks[q][w] /\ tasks[q][w] # s
          BY <2>1, <2>2, <4>2 DEF Held
        <5> QED
          BY <2>3, <3>1, <5>1 DEF AgreeInv, HandlesRight
      <4> QED
        BY <4>1, <4>2
    <3>2. \A c \in Callers : ~At(c, "insert")'
      BY <1>a, <2>4 DEF At
    <3> QED
      BY <3>1, <3>2 DEF HandlesRight
  <2>7. \A c \in Callers : CallAgrees(c)'
    BY <1>a, <2>4 DEF CallAgrees, At
  <2>8. \A w \in Vigies : Wanted(r, w)' <=> Wanted(r, w)
    BY <2>4 DEF Wanted
  <2>9. Running(r, v)' /\ \A w \in Vigies \ {v} : Running(r, w)' <=> Running(r, w)
    <3>1. Running(r, v)'
      BY <2>1, <2>3, <2>5 DEF Running, Live
    <3>2. ASSUME NEW w \in Vigies \ {v} PROVE Running(r, w)' <=> Running(r, w)
      <4>1. ~Live(s) /\ loop'[s].vigy # w
        BY <2>1, <2>3, <2>5 DEF Live
      <4> QED
        BY <2>3, <4>1 DEF Running, Live
    <3> QED
      BY <3>1, <3>2
  <2>10. ASSUME NEW w \in Vigies PROVE VigyAgrees(r, w)'
    <3>1. VigyAgrees(r, w) /\ status'[r] = "opening"
      BY <2>4 DEF AgreeInv
    <3>2. CASE w = v
      BY <2>4, <2>8, <2>9, <3>1, <3>2 DEF VigyAgrees
    <3>3. CASE w # v
      BY <2>4, <2>8, <2>9, <3>1, <3>3 DEF VigyAgrees
    <3> QED
      BY <3>2, <3>3
  <2> QED
    BY <2>6, <2>7, <2>10 DEF AgreeInv, OneRuntime
<1>8. ASSUME NEW r \in Runtimes, Exit(r) PROVE AgreeInv'
  <2>1. \A c \in Callers : call'[c].pc = "idle"
    BY <1>0, <1>8, DefaultsTyped DEF Exit, TypeOK, CallType, OneRuntime
  <2>2. \A q \in Runtimes : status'[q] = "down" /\ \A v \in Vigies : tasks'[q][v] \notin Slots
    BY <1>0, <1>8, SetsAssumption DEF Exit, TypeOK, OneRuntime
  <2> QED
    BY <2>1, <2>2 DEF AgreeInv, HandlesRight, CallAgrees, VigyAgrees, At
<1>9. ASSUME NEW r \in Runtimes, Drop(r) PROVE AgreeInv'
  BY <1>9 DEF Drop, OneCallAtATime
<1>10. CASE UNCHANGED vars
  <2>1. UNCHANGED <<row, status, resume, tasks, loop, call>>
    BY <1>10 DEF vars
  <2> QED
    BY <2>1 DEF AgreeInv, HandlesRight, CallAgrees, VigyAgrees, Settled, Running, Live, Wanted,
                Holds, At
<1> QED
  BY <1>1, <1>2, <1>3, <1>4, <1>5, <1>6, <1>7, <1>8, <1>9, <1>10 DEF Next, Opening

LEMMA AgreeInvariant ==
  ASSUME OneCallAtATime, OneRuntime
  PROVE  Spec => [](SerialInv /\ AgreeInv)
BY SerialInit, SerialStep, AgreeInit, AgreeStep, PTL DEF Spec

\* Always on: whenever no call about a vigy is in flight, a runtime alone on its
\* store has a loop for it if it is enabled and in scope, through exits and
\* reopens, as long as the store answers the loops' reads.
THEOREM EnabledIsOn ==
  ASSUME OneCallAtATime, OneRuntime, StoreAnswers
  PROVE  Spec => []AlwaysOn
<1>1. SerialInv /\ AgreeInv => AlwaysOn
  BY DEF AlwaysOn, AgreeInv, VigyAgrees, Settled, Quiet, Running, LoopsOf, StoreAnswers
<1> QED
  BY <1>1, AgreeInvariant, PTL

\* And no loop for any other, whether the store answers or not: when disable,
\* delete or a registration under another label returns, the loop is cancelled.
THEOREM OthersAreOff ==
  ASSUME OneCallAtATime, OneRuntime
  PROVE  Spec => []NoStrayLoop
<1>1. SerialInv /\ AgreeInv => NoStrayLoop
  BY DEF NoStrayLoop, AgreeInv, VigyAgrees, Settled, Quiet, Running, LoopsOf
<1> QED
  BY <1>1, AgreeInvariant, PTL

================================================================================
