------------------------------- MODULE Lifecycle -------------------------------
(***************************************************************************)
(* The scheduling core of vigy-runtime: RuntimeHandle's registration and   *)
(* lifecycle calls, the registry of tick tasks each runtime keeps          *)
(* (Inner.tasks) and the tick_loop tasks themselves, over one store that   *)
(* several runtimes (processes) may share.                                 *)
(*                                                                         *)
(* Granularity: an action is the code between two awaits, or one SQL       *)
(* statement together with the code that follows it up to the next await.  *)
(* The rows of the vigies table are reduced to the two columns that        *)
(* scheduling reads: `enabled` and the `host` label.  What a tick computes *)
(* and records is outside this module: it touches neither rows nor         *)
(* registry.                                                               *)
(***************************************************************************)
EXTENDS Naturals, FiniteSets

CONSTANTS
  Runtimes,   \* processes that open the store
  Vigies,     \* vigy ids
  Callers,    \* concurrent callers of the runtimes' handles: bounds calls in flight
  Slots,      \* tick_loop tasks: bounds how many exist at once
  Hosts,      \* values of the `host` label
  NoHost,     \* a vigy without that label
  NoRow,      \* no row in the vigies table
  NoTask,     \* no handle in the registry
  Scope,      \* Scope[r]: the Scope runtime r was opened with
  LabelsOf,   \* LabelsOf[v]: the host labels v is ever registered under
  Overlap,    \* may two calls about one vigy be in flight in one runtime?
  Faults      \* which of "abandon", "dbread", "exit", "drop" may happen

Label == Hosts \cup {NoHost}
ScopeKind == {"Unlabelled", "Host", "HostAndUnlabelled"}

ASSUME SetsAssumption ==
  /\ Runtimes # {} /\ Vigies # {}
  /\ NoHost \notin Hosts /\ NoTask \notin Slots

ASSUME ConfigAssumption ==
  /\ Scope \in [Runtimes -> [kind : ScopeKind, host : Label]]
  /\ LabelsOf \in [Vigies -> SUBSET Label]
  /\ Overlap \in BOOLEAN
  /\ Faults \subseteq {"abandon", "dbread", "exit", "drop"}
  /\ NoRow \notin [enabled : BOOLEAN, host : Label]

VARIABLES
  row,      \* the vigies table
  status,   \* status[r]: whether process r runs, and whether open has returned
  resume,   \* resume[r]: the vigies with_store has still to spawn
  tasks,    \* tasks[r][v]: the handle in r's registry
  loop,     \* loop[s]: the tick_loop task in slot s
  call      \* call[c]: the call that caller c has in flight

vars == <<row, status, resume, tasks, loop, call>>

Row      == [enabled : BOOLEAN, host : Label]
LoopPc   == {"sleep", "ticking", "draining", "done"}
CallPc   == {"idle", "find", "write", "get", "spawn", "insert", "cancel", "erase"}
Op       == {"register", "enable", "disable", "delete"}

LoopType == [pc : LoopPc, rt : Runtimes, vigy : Vigies]
CallType == [pc : CallPc, op : Op, rt : Runtimes, vigy : Vigies,
             want : Row, found : BOOLEAN, slot : Slots \cup {NoTask}]

AnyRuntime == CHOOSE r \in Runtimes : TRUE
AnyVigy    == CHOOSE v \in Vigies : TRUE

\* The payload of a call that carries none.
NoPayload == [enabled |-> FALSE, host |-> NoHost]

Idle == [pc |-> "idle", op |-> "delete", rt |-> AnyRuntime, vigy |-> AnyVigy,
         want |-> NoPayload, found |-> FALSE, slot |-> NoTask]

\* Every component of the state has its type, and a call about to register a
\* handle has one.
TypeOK ==
  /\ row \in [Vigies -> Row \cup {NoRow}]
  /\ status \in [Runtimes -> {"down", "opening", "up"}]
  /\ resume \in [Runtimes -> SUBSET Vigies]
  /\ tasks \in [Runtimes -> [Vigies -> Slots \cup {NoTask}]]
  /\ loop \in [Slots -> LoopType]
  /\ call \in [Callers -> CallType]
  /\ \A c \in Callers : call[c].pc = "insert" => call[c].slot \in Slots

(***************************************************************************)
(* Which vigies a runtime schedules                                        *)
(***************************************************************************)
Serves(r, label) ==
  \/ /\ Scope[r].kind \in {"Unlabelled", "HostAndUnlabelled"}
     /\ label = NoHost
  \/ /\ Scope[r].kind \in {"Host", "HostAndUnlabelled"}
     /\ label # NoHost
     /\ Scope[r].host = label

\* Enabled in the store and in r's scope: what r ought to be ticking.
Wanted(r, v) ==
  /\ row[v] # NoRow
  /\ row[v].enabled
  /\ Serves(r, row[v].host)

(***************************************************************************)
(* Tasks and handles                                                       *)
(***************************************************************************)
\* The task exists and has not been aborted: it will go on ticking.
Live(s) == loop[s].pc \in {"sleep", "ticking"}

LoopsOf(r, v) == {s \in Slots : Live(s) /\ loop[s].rt = r /\ loop[s].vigy = v}

\* Somebody still holds this task's JoinHandle.
Held(s) ==
  \/ \E r \in Runtimes, v \in Vigies : tasks[r][v] = s
  \/ \E c \in Callers : call[c].pc = "insert" /\ call[c].slot = s

Free == {s \in Slots : loop[s].pc = "done" /\ ~Held(s)}

NewLoop(r, v) == [pc |-> "sleep", rt |-> r, vigy |-> v]

\* JoinHandle::abort drops the task at the await it is parked on.  A program
\* evaluation is on a blocking thread by then and runs to its end.
Aborted(l) ==
  [l EXCEPT !.pc = IF l.pc \in {"ticking", "draining"} THEN "draining" ELSE "done"]

\* The task table once the handle under tasks[r][v], if any, was aborted.
M_CancelTask(r, v) == loop
CancelTask(r, v) ==
  [s \in Slots |-> IF s = tasks[r][v] THEN Aborted(loop[s]) ELSE loop[s]]

Unregistered(r, v) == [tasks EXCEPT ![r][v] = NoTask]

(***************************************************************************)
(* Calls                                                                   *)
(***************************************************************************)
Quiet(v) == \A c \in Callers : call[c].pc # "idle" => call[c].vigy # v

At(c, pc) == call[c].pc = pc
Goto(c, pc) == call' = [call EXCEPT ![c].pc = pc]
Return(c) == call' = [call EXCEPT ![c] = Idle]

Begin(c, r, v, op, pc, want) ==
  /\ status[r] = "up"
  /\ At(c, "idle")
  /\ Overlap \/ \A d \in Callers :
                  At(d, "idle") \/ call[d].rt # r \/ call[d].vigy # v
  /\ call' = [call EXCEPT ![c] = [Idle EXCEPT !.pc = pc, !.op = op, !.rt = r,
                                              !.vigy = v, !.want = want]]
  /\ UNCHANGED <<row, status, resume, tasks, loop>>

\* register_or_update, enable, disable, delete: the call arrives.
Register(c, r, v) ==
  \E e \in BOOLEAN, l \in LabelsOf[v] :
    Begin(c, r, v, "register", "find", [enabled |-> e, host |-> l])
Enable(c, r, v)  == Begin(c, r, v, "enable", "find", NoPayload)
Disable(c, r, v) == Begin(c, r, v, "disable", "find", NoPayload)
Delete(c, r, v)  == Begin(c, r, v, "delete", "cancel", NoPayload)

\* The SELECT that upsert_vigy and set_enabled start with.  Without a row
\* set_enabled returns NotFound, and with it the call.
Find(c) ==
  LET exists == row[call[c].vigy] # NoRow IN
  /\ At(c, "find")
  /\ IF call[c].op = "register" \/ exists
     THEN call' = [call EXCEPT ![c].pc = "write", ![c].found = exists]
     ELSE Return(c)
  /\ UNCHANGED <<row, status, resume, tasks, loop>>

\* upsert_vigy's UPDATE or INSERT, by what its SELECT saw, then the branch of
\* register_or_update.  If the row came or went since the SELECT, the
\* statement fails and the call returns the error.
M_Upsert(c) ==
  LET v == call[c].vigy
      w == call[c].want IN
  /\ At(c, "write") /\ call[c].op = "register"
  /\ IF call[c].found = (row[v] # NoRow)
     THEN /\ row' = [row EXCEPT ![v] = w]
          /\ IF w.enabled /\ Serves(call[c].rt, w.host) THEN Goto(c, "spawn")
                                                        ELSE Return(c)
     ELSE UNCHANGED row /\ Return(c)
  /\ UNCHANGED <<status, resume, tasks, loop>>

Upsert(c) ==
  LET v == call[c].vigy
      w == call[c].want IN
  /\ At(c, "write") /\ call[c].op = "register"
  /\ IF call[c].found = (row[v] # NoRow)
     THEN /\ row' = [row EXCEPT ![v] = w]
          /\ Goto(c, IF w.enabled /\ Serves(call[c].rt, w.host)
                     THEN "spawn" ELSE "cancel")
     ELSE UNCHANGED row /\ Return(c)
  /\ UNCHANGED <<status, resume, tasks, loop>>

\* set_enabled's UPDATE; a row deleted since the SELECT makes it fail.
SetEnabled(c) ==
  LET v  == call[c].vigy
      on == call[c].op = "enable" IN
  /\ At(c, "write") /\ call[c].op \in {"enable", "disable"}
  /\ IF row[v] # NoRow
     THEN /\ row' = [row EXCEPT ![v].enabled = on]
          /\ Goto(c, IF on THEN "get" ELSE "cancel")
     ELSE UNCHANGED row /\ Return(c)
  /\ UNCHANGED <<status, resume, tasks, loop>>

\* enable's get_vigy and the scope check on what it returned.
M_Get(c) ==
  LET v == call[c].vigy IN
  /\ At(c, "get")
  /\ IF row[v] # NoRow THEN Goto(c, "spawn") ELSE Return(c)
  /\ UNCHANGED <<row, status, resume, tasks, loop>>

Get(c) ==
  LET v == call[c].vigy IN
  /\ At(c, "get")
  /\ IF row[v] # NoRow /\ Serves(call[c].rt, row[v].host)
     THEN Goto(c, "spawn") ELSE Return(c)
  /\ UNCHANGED <<row, status, resume, tasks, loop>>

\* spawn_task up to its second lock: cancel_task, then tokio::spawn.
M_Spawn(c) ==
  LET r == call[c].rt  v == call[c].vigy IN
  /\ At(c, "spawn")
  /\ \E s \in Free :
       /\ loop' = [CancelTask(r, v) EXCEPT ![s] = NewLoop(r, v)]
       /\ Goto(c, "insert")
  /\ tasks' = Unregistered(r, v)
  /\ UNCHANGED <<row, status, resume>>

Spawn(c) ==
  LET r == call[c].rt  v == call[c].vigy IN
  /\ At(c, "spawn")
  /\ \E s \in Free :
       /\ loop' = [CancelTask(r, v) EXCEPT ![s] = NewLoop(r, v)]
       /\ call' = [call EXCEPT ![c].pc = "insert", ![c].slot = s]
  /\ tasks' = Unregistered(r, v)
  /\ UNCHANGED <<row, status, resume>>

\* The registry written first, cancel_task called after it.
M_Insert(c) ==
  /\ At(c, "insert")
  /\ loop' = [loop EXCEPT ![call[c].slot] = Aborted(@)]
  /\ Return(c)
  /\ UNCHANGED <<row, status, resume, tasks>>

\* The rest of spawn_task.  HashMap::insert drops whatever handle it
\* displaces, and dropping a JoinHandle leaves its task running.
Insert(c) ==
  /\ At(c, "insert")
  /\ tasks' = [tasks EXCEPT ![call[c].rt][call[c].vigy] = call[c].slot]
  /\ Return(c)
  /\ UNCHANGED <<row, status, resume, loop>>

\* cancel_task as register_or_update, disable and delete call it.
Cancel(c) ==
  LET r == call[c].rt  v == call[c].vigy IN
  /\ At(c, "cancel")
  /\ loop' = CancelTask(r, v)
  /\ tasks' = Unregistered(r, v)
  /\ IF call[c].op = "delete" THEN Goto(c, "erase") ELSE Return(c)
  /\ UNCHANGED <<row, status, resume>>

\* delete's DELETE statement.
Erase(c) ==
  /\ At(c, "erase")
  /\ row' = [row EXCEPT ![call[c].vigy] = NoRow]
  /\ Return(c)
  /\ UNCHANGED <<status, resume, tasks, loop>>

\* A statement of the call fails and `?` returns, or the caller's future is
\* dropped at an await (its HTTP client went away): what was done stays done.
Abandon(c) ==
  /\ "abandon" \in Faults
  /\ ~At(c, "idle")
  /\ Return(c)
  /\ UNCHANGED <<row, status, resume, tasks, loop>>

CallStep(c) ==
  \/ Find(c) \/ Upsert(c) \/ SetEnabled(c) \/ Get(c)
  \/ Spawn(c) \/ Insert(c) \/ Cancel(c) \/ Erase(c)

(***************************************************************************)
(* tick_loop                                                               *)
(***************************************************************************)
\* The sleep is over: re-read the vigy, and tick or leave the loop.
M_Wake(s) ==
  /\ loop[s].pc = "sleep"
  /\ loop' = [loop EXCEPT ![s].pc =
                IF row[loop[s].vigy] # NoRow THEN "ticking" ELSE "done"]
  /\ UNCHANGED <<row, status, resume, tasks, call>>

Wake(s) ==
  LET current == row[loop[s].vigy] IN
  /\ loop[s].pc = "sleep"
  /\ loop' = [loop EXCEPT ![s].pc =
                IF current # NoRow /\ current.enabled THEN "ticking" ELSE "done"]
  /\ UNCHANGED <<row, status, resume, tasks, call>>

\* get_vigy fails for a reason other than a missing row: the loop leaves too.
WakeError(s) ==
  /\ "dbread" \in Faults
  /\ loop[s].pc = "sleep"
  /\ loop' = [loop EXCEPT ![s].pc = "done"]
  /\ UNCHANGED <<row, status, resume, tasks, call>>

\* The tick, its record, its broadcast and any backoff are behind the loop.
M_TickDone(s) ==
  /\ loop[s].pc = "ticking"
  /\ loop' = [loop EXCEPT ![s].pc = "done"]
  /\ UNCHANGED <<row, status, resume, tasks, call>>

TickDone(s) ==
  /\ loop[s].pc = "ticking"
  /\ loop' = [loop EXCEPT ![s].pc = "sleep"]
  /\ UNCHANGED <<row, status, resume, tasks, call>>

\* The evaluation an aborted tick left on a blocking thread comes to its end.
Drained(s) ==
  /\ loop[s].pc = "draining"
  /\ loop' = [loop EXCEPT ![s].pc = "done"]
  /\ UNCHANGED <<row, status, resume, tasks, call>>

LoopStep(s) == Wake(s) \/ TickDone(s) \/ Drained(s)

(***************************************************************************)
(* Opening and losing a runtime                                            *)
(***************************************************************************)
\* with_store lists the vigies it is to resume.
Open(r) ==
  /\ status[r] = "down"
  /\ status' = [status EXCEPT ![r] = "opening"]
  /\ resume' = [resume EXCEPT ![r] = {v \in Vigies : Wanted(r, v)}]
  /\ UNCHANGED <<row, tasks, loop, call>>

\* One turn of with_store's loop.  Nobody else has the handle yet, so this
\* spawn_task meets no other access to the registry.
Resume(r, v) ==
  /\ status[r] = "opening"
  /\ v \in resume[r]
  /\ \E s \in Free :
       /\ loop' = [loop EXCEPT ![s] = NewLoop(r, v)]
       /\ tasks' = [tasks EXCEPT ![r][v] = s]
  /\ resume' = [resume EXCEPT ![r] = @ \ {v}]
  /\ UNCHANGED <<row, status, call>>

Ready(r) ==
  /\ status[r] = "opening"
  /\ resume[r] = {}
  /\ status' = [status EXCEPT ![r] = "up"]
  /\ UNCHANGED <<row, resume, tasks, loop, call>>

\* The process ends, by itself or not: only the store is left of it.
Exit(r) ==
  /\ "exit" \in Faults
  /\ status[r] # "down"
  /\ status' = [status EXCEPT ![r] = "down"]
  /\ resume' = [resume EXCEPT ![r] = {}]
  /\ tasks' = [tasks EXCEPT ![r] = [v \in Vigies |-> NoTask]]
  /\ loop' = [s \in Slots |-> IF loop[s].rt = r THEN [loop[s] EXCEPT !.pc = "done"]
                                                ELSE loop[s]]
  /\ call' = [c \in Callers |-> IF call[c].rt = r THEN Idle ELSE call[c]]
  /\ UNCHANGED row

\* The last RuntimeHandle is dropped and its process goes on, maybe to open
\* the store again.  Every tick_loop has an Arc<Inner> of its own, so neither
\* Inner nor any loop goes with the handle; only the registry is out of reach.
Drop(r) ==
  /\ "drop" \in Faults
  /\ status[r] # "down"
  /\ \A c \in Callers : At(c, "idle") \/ call[c].rt # r
  /\ status' = [status EXCEPT ![r] = "down"]
  /\ resume' = [resume EXCEPT ![r] = {}]
  /\ tasks' = [tasks EXCEPT ![r] = [v \in Vigies |-> NoTask]]
  /\ UNCHANGED <<row, loop, call>>

(***************************************************************************)
(* Specification                                                           *)
(***************************************************************************)
Init ==
  /\ row = [v \in Vigies |-> NoRow]
  /\ status = [r \in Runtimes |-> "down"]
  /\ resume = [r \in Runtimes |-> {}]
  /\ tasks = [r \in Runtimes |-> [v \in Vigies |-> NoTask]]
  /\ loop = [s \in Slots |-> [pc |-> "done", rt |-> AnyRuntime, vigy |-> AnyVigy]]
  /\ call = [c \in Callers |-> Idle]

CallArrives(c) ==
  \E r \in Runtimes, v \in Vigies :
    Register(c, r, v) \/ Enable(c, r, v) \/ Disable(c, r, v) \/ Delete(c, r, v)

Opening(r) == Ready(r) \/ \E v \in Vigies : Resume(r, v)

Next ==
  \/ \E c \in Callers : CallArrives(c) \/ CallStep(c) \/ Abandon(c)
  \/ \E s \in Slots : LoopStep(s) \/ WakeError(s)
  \/ \E r \in Runtimes : Open(r) \/ Opening(r) \/ Exit(r) \/ Drop(r)

Spec == Init /\ [][Next]_vars

\* tokio polls every task that is ready, timers fire, and SQLite answers: a
\* loop, a call and an open that can go on do go on.  Nothing obliges a caller
\* to call, a process to start or a fault to happen.
Fairness ==
  /\ \A s \in Slots : WF_vars(LoopStep(s))
  /\ \A c \in Callers : WF_vars(CallStep(c))
  /\ \A r \in Runtimes : WF_vars(Opening(r))

FairSpec == Spec /\ Fairness

(***************************************************************************)
(* Properties                                                              *)
(***************************************************************************)
\* A runtime never has two tick loops going for one vigy: what the module
\* documentation of vigy-runtime calls "One task per vigy".
OneLoopPerVigy ==
  \A r \in Runtimes, v \in Vigies, s, t \in Slots :
    s \in LoopsOf(r, v) /\ t \in LoopsOf(r, v) => s = t

\* Once the calls about a vigy have returned, a runtime that is up has a loop
\* for it if the store says enabled and the vigy is in its scope.
AlwaysOn ==
  \A r \in Runtimes, v \in Vigies :
    status[r] = "up" /\ Quiet(v) /\ Wanted(r, v) => LoopsOf(r, v) # {}

\* And it has none if the vigy is disabled, deleted or out of its scope: disable,
\* delete and a relabelling registration have cancelled it when they return.
NoStrayLoop ==
  \A r \in Runtimes, v \in Vigies :
    status[r] = "up" /\ Quiet(v) /\ ~Wanted(r, v) => LoopsOf(r, v) = {}

\* No two evaluations of one vigy's program overlap inside a runtime's loops,
\* the ones that aborted ticks left behind included.
NoConcurrentTicks ==
  \A s, t \in Slots :
    /\ loop[s].pc \in {"ticking", "draining"} /\ loop[t].pc \in {"ticking", "draining"}
    /\ loop[s].rt = loop[t].rt /\ loop[s].vigy = loop[t].vigy
    => s = t

\* Two runtimes that share a store never both loop over one vigy.
OneHostTicks ==
  \A s, t \in Slots :
    Live(s) /\ Live(t) /\ loop[s].vigy = loop[t].vigy => loop[s].rt = loop[t].rt

\* A vigy that stays disabled or deleted is in the end ticked by no loop, the
\* loops whose handle a registry lost or took with it included: the re-read in
\* tick_loop.
DisabledStops ==
  \A v \in Vigies :
    <>[](row[v] = NoRow \/ ~row[v].enabled)
      => <>[](\A r \in Runtimes : LoopsOf(r, v) = {})

\* A vigy that stays enabled and in scope, and that nobody calls about, is
\* ticked again and again.
TicksForever ==
  \A r \in Runtimes, v \in Vigies :
    <>[](status[r] = "up" /\ Wanted(r, v) /\ Quiet(v))
      => []<>(\E s \in LoopsOf(r, v) : loop[s].pc = "ticking")

================================================================================
