-------------------------------- MODULE RunFeed --------------------------------
(***************************************************************************)
(* From the end of a tick to those who learn of it: the run is completed,  *)
(* recorded in vigy_runs and sent on the runtime's event bus, by the loop  *)
(* of its vigy or by a tick_now; receivers of the bus, `vigy tail` among   *)
(* them, take it from there, and recent_runs reads it from the store.      *)
(*                                                                         *)
(* One runtime, and the rows other processes record.  insert_run is one    *)
(* step here, but may fail after its INSERT; RunLog has its statements,    *)
(* Lifecycle those of registration, Ticks the tick.                        *)
(***************************************************************************)
EXTENDS Verbs, Retention, FiniteSetsExt

CONSTANTS
  Vigies,
  Scheduled,    \* the vigies this runtime's scope serves
  Callers,      \* calls of tick_now
  Subscribers,
  Filter,       \* Filter[s]: the vigies whose runs s shows
  Capacity,     \* EVENT_BUS_CAPACITY
  Does,         \* Does[v]: what the program of v may do in a tick
  Started,      \* Started[i]: when run i started, in hundredths of a second
  Faults        \* {"insert"} if insert_run may fail

ASSUME RunFeedAssumption ==
  /\ IsFiniteSet(RunIds) /\ RunIds = 1..Cardinality(RunIds)
  /\ Started \in [RunIds -> Nat]
  /\ Capacity \in Nat \ {0}
  /\ Filter \in [Subscribers -> SUBSET Vigies]
  /\ Vigies \cap Callers = {}
  /\ Scheduled \subseteq Vigies
  /\ DOMAIN Does = Vigies
  /\ \A v \in Vigies : \A p \in Does[v] : p \in Seq(Range(p))

VARIABLES
  vigies,     \* the vigies registered, all enabled
  task,       \* task[t]: the loop of vigy t, or the call t of tick_now
  minted,     \* the run ids minted so far are 1..minted
  rows,       \* vigy_runs
  sent,       \* everything the bus has taken
  rx,         \* rx[s]: the receiver of s
  fate,       \* history: what insert_run said of each run
  answered    \* history: the runs tick_now answered with Ok

vars == <<vigies, task, minted, rows, sent, rx, fate, answered>>

Tasks == Vigies \cup Callers
Programs == UNION Range(Does)

NoRun == [id |-> 0]
Task(pc, run) == [pc |-> pc, run |-> run]
NoTask == Task("none", NoRun)
Off == [on |-> FALSE, next |-> 1, lost |-> 0, shown |-> <<>>]

At(t, pc) == task[t].pc = pc
Becomes(t, pc, run) == task' = [task EXCEPT ![t] = Task(pc, run)]

(***************************************************************************)
(* Registration                                                            *)
(***************************************************************************)
\* register_or_update, enable: an old loop is aborted, and a new one sleeps if
\* this runtime schedules the vigy.
Register(v) ==
  /\ vigies' = vigies \cup {v}
  /\ Becomes(v, IF v \in Scheduled THEN "rest" ELSE "none", NoRun)
  /\ UNCHANGED <<minted, rows, sent, rx, fate, answered>>

\* M_: an operation gone wrong, as the mutants have it.
M_Delete(v) ==
  /\ vigies' = vigies \ {v}
  /\ Becomes(v, "none", NoRun)
  /\ rows' = {r \in rows : r.vigy # v}
  /\ UNCHANGED <<minted, sent, rx, fate, answered>>

\* delete: the row of vigies goes, the loop is aborted.
Delete(v) ==
  /\ vigies' = vigies \ {v}
  /\ Becomes(v, "none", NoRun)
  /\ UNCHANGED <<minted, rows, sent, rx, fate, answered>>

\* A call's future is dropped at one of its awaits.
Abandon(c) ==
  /\ ~At(c, "none") /\ Becomes(c, "none", NoRun)
  /\ UNCHANGED <<vigies, minted, rows, sent, rx, fate, answered>>

(***************************************************************************)
(* A tick                                                                  *)
(***************************************************************************)
\* VigyRun::started.  The clocks of all processes agree here.
Start(t, v) ==
  /\ minted + 1 \in RunIds /\ minted' = minted + 1
  /\ Becomes(t, "tick", [id |-> minted', vigy |-> v])
  /\ UNCHANGED <<vigies, rows, sent, rx, fate, answered>>

\* tick_loop finds the vigy after its sleep; tick_now finds it, or leaves.
LoopStart(v) == At(v, "rest") /\ v \in vigies /\ Start(v, v)
CallStart(c, v) == At(c, "none") /\ v \in vigies /\ Start(c, v)

\* complete_ok or complete_failed, as the program ended.
Completed(run, p) ==
  [id |-> run.id, vigy |-> run.vigy, of |-> p,
   result |-> Outcome(p).result, actions |-> Outcome(p).actions]

\* A run's row reads back as the run, but for a payload of JSON null.
Row(run) == [run EXCEPT !.actions = [i \in DOMAIN @ |-> Reread(@[i])]]

OfVigy(S, v) == {r \in S : r.vigy = v}
Ids(S) == {r.id : r \in S}

\* S after the trim for v.
Trimmed(S, v) == {r \in S : r.vigy = v => r.id \in Newest(Ids(OfVigy(S, v)))}

\* The program has done p, the run is completed; insert_run goes through, fails
\* before its INSERT or fails after it.
Insert(t, p) ==
  LET run == Completed(task[t].run, p)
      added == rows \cup {Row(run)} IN
  /\ At(t, "tick") /\ p \in Does[run.vigy]
  /\ \/ rows' = Trimmed(added, run.vigy) /\ fate' = [fate EXCEPT ![run.id] = "kept"]
     \/ /\ "insert" \in Faults
        /\ rows' \in {rows, added} /\ fate' = [fate EXCEPT ![run.id] = "error"]
  /\ Becomes(t, "send", run)
  /\ UNCHANGED <<vigies, minted, sent, rx, answered>>

\* A tick of another process: its run is recorded, and sent on another bus.
Elsewhere(v, p) ==
  LET run == Completed([id |-> minted + 1, vigy |-> v], p) IN
  /\ minted + 1 \in RunIds /\ minted' = minted + 1
  /\ rows' = Trimmed(rows \cup {Row(run)}, v)
  /\ fate' = [fate EXCEPT ![run.id] = "kept"]
  /\ UNCHANGED <<vigies, task, sent, rx, answered>>

\* bus.send: nothing is kept for a bus without receivers.
Publish(run) ==
  sent' = IF \E s \in Subscribers : rx[s].on THEN Append(sent, run) ELSE sent

M_LoopSend(v) ==
  /\ At(v, "tick") /\ \E p \in Does[v] : Publish(Completed(task[v].run, p))
  /\ Becomes(v, "rest", NoRun)
  /\ UNCHANGED <<vigies, minted, rows, rx, fate, answered>>

\* tick_loop sends whether or not the run was recorded.
LoopSend(v) ==
  /\ At(v, "send") /\ Publish(task[v].run) /\ Becomes(v, "rest", NoRun)
  /\ UNCHANGED <<vigies, minted, rows, rx, fate, answered>>

M_CallSend(c) ==
  LET run == task[c].run IN
  /\ At(c, "send") /\ Becomes(c, "none", NoRun)
  /\ Publish(run) /\ answered' = answered \cup {run}
  /\ UNCHANGED <<vigies, minted, rows, rx, fate>>

\* tick_now leaves with the error of insert_run, or sends and answers.
CallSend(c) ==
  LET run == task[c].run IN
  /\ At(c, "send") /\ Becomes(c, "none", NoRun)
  /\ IF fate[run.id] = "kept"
     THEN Publish(run) /\ answered' = answered \cup {run}
     ELSE UNCHANGED <<sent, answered>>
  /\ UNCHANGED <<vigies, minted, rows, rx, fate>>

(***************************************************************************)
(* Receivers                                                               *)
(***************************************************************************)
M_Subscribe(s) ==
  /\ ~rx[s].on
  /\ rx' = [rx EXCEPT ![s] = [Off EXCEPT !.on = TRUE, !.next = Len(sent) + 2]]
  /\ UNCHANGED <<vigies, task, minted, rows, sent, fate, answered>>

\* A receiver starts behind what has been sent.
Subscribe(s) ==
  /\ ~rx[s].on
  /\ rx' = [rx EXCEPT ![s] = [Off EXCEPT !.on = TRUE, !.next = Len(sent) + 1]]
  /\ UNCHANGED <<vigies, task, minted, rows, sent, fate, answered>>

Leave(s) ==
  /\ rx[s].on /\ rx' = [rx EXCEPT ![s] = Off]
  /\ UNCHANGED <<vigies, task, minted, rows, sent, fate, answered>>

\* The oldest run the bus still has.
Oldest == IF Len(sent) > Capacity THEN Len(sent) - Capacity + 1 ELSE 1

M_Lag(s) ==
  /\ rx[s].on /\ rx[s].next < Oldest
  /\ rx' = [rx EXCEPT ![s].lost = @ + 1, ![s].next = Oldest]
  /\ UNCHANGED <<vigies, task, minted, rows, sent, fate, answered>>

\* recv answers Lagged(n): the receiver goes on with the oldest.
Lag(s) ==
  /\ rx[s].on /\ rx[s].next < Oldest
  /\ rx' = [rx EXCEPT ![s].lost = @ + (Oldest - rx[s].next), ![s].next = Oldest]
  /\ UNCHANGED <<vigies, task, minted, rows, sent, fate, answered>>

M_Recv(s) ==
  LET run == sent[rx[s].next] IN
  /\ rx[s].on /\ rx[s].next \in Oldest..Len(sent)
  /\ run.vigy \in Filter[s]
  /\ rx' = [rx EXCEPT ![s].next = @ + 1, ![s].shown = Append(@, run)]
  /\ UNCHANGED <<vigies, task, minted, rows, sent, fate, answered>>

\* recv answers a run; `vigy tail <id>` skips the other vigies'.
Recv(s) ==
  LET run == sent[rx[s].next] IN
  /\ rx[s].on /\ rx[s].next \in Oldest..Len(sent)
  /\ rx' = [rx EXCEPT ![s].next = @ + 1,
                      ![s].shown = IF run.vigy \in Filter[s] THEN Append(@, run) ELSE @]
  /\ UNCHANGED <<vigies, task, minted, rows, sent, fate, answered>>

(***************************************************************************)
(* recent_runs                                                             *)
(***************************************************************************)
M_TextRank(time) == time % 100

\* RFC 3339 drops a fraction's last zeros, and `Z` sorts above digits and the
\* point: how a time's text sorts.
TextRank(time) ==
  LET fraction == time % 100
      tens == fraction \div 10
      units == fraction % 10
  IN  111 * (time \div 100)
        + IF fraction = 0 THEN 110 ELSE 11 * tens + (IF units = 0 THEN 10 ELSE units)

\* ORDER BY started_at DESC LIMIT n.
Recent(v, n) ==
  LET S == OfVigy(rows, v)
      After(r) == {q \in S : TextRank(Started[q.id]) > TextRank(Started[r.id])}
  IN  {r \in S : Cardinality(After(r)) < n}

(***************************************************************************)
(* Specification                                                           *)
(***************************************************************************)
Init ==
  /\ vigies = {} /\ minted = 0 /\ rows = {} /\ sent = <<>> /\ answered = {}
  /\ task = [t \in Tasks |-> NoTask]
  /\ rx = [s \in Subscribers |-> Off]
  /\ fate = [i \in RunIds |-> "none"]

Next ==
  \/ \E v \in Vigies :
       \/ Register(v) \/ Delete(v) \/ LoopStart(v) \/ LoopSend(v)
       \/ \E c \in Callers : CallStart(c, v)
       \/ \E p \in Does[v] : Elsewhere(v, p)
  \/ \E c \in Callers : Abandon(c) \/ CallSend(c)
  \/ \E t \in Tasks : \E p \in Programs : Insert(t, p)
  \/ \E s \in Subscribers : Subscribe(s) \/ Leave(s) \/ Lag(s) \/ Recv(s)

Spec == Init /\ [][Next]_vars

\* A receiver goes on receiving.
FairSpec == Spec /\ \A s \in Subscribers : WF_vars(Lag(s) \/ Recv(s))

(***************************************************************************)
(* Properties                                                              *)
(***************************************************************************)
Runs == [id : RunIds, vigy : Vigies, of : Programs, result : {"ok", "failed"},
         actions : UNION {{Outcome(p).actions, Row(Completed([id |-> 1, vigy |-> 1], p)).actions}
                            : p \in Programs}]

Hand == [id : RunIds, vigy : Vigies]

\* Every component of the state has its type, and a receiver is somewhere in or
\* right behind what was sent.
TypeOK ==
  /\ vigies \subseteq Vigies
  /\ minted \in RunIds \cup {0}
  /\ task \in [Tasks -> [pc : {"none", "rest", "tick", "send"}, run : {NoRun} \cup Hand \cup Runs]]
  /\ \A t \in Tasks :
       /\ At(t, "tick") => task[t].run \in Hand
       /\ At(t, "send") => task[t].run \in Runs
  /\ rows \subseteq Runs /\ sent \in Seq(Runs)
  /\ rx \in [Subscribers -> [on : BOOLEAN, next : Nat, lost : Nat, shown : Seq(Runs)]]
  /\ \A s \in Subscribers : rx[s].next \in 1..(Len(sent) + 1)
  /\ fate \in [RunIds -> {"none", "kept", "error"}]
  /\ answered \subseteq Runs

\* The kind an emitting call names.
Named(c) ==
  CASE c.verb = "emit" -> c.args[1].has
    [] c.verb = "delete-action" -> "delete"
    [] OTHER -> c.verb

\* Calls of r's program, in the order it made them, and just those that emit.
EmittingCalls(r, calls) ==
  /\ \A i, j \in DOMAIN calls : i < j => calls[i] < calls[j]
  /\ Range(calls) = {n \in DOMAIN r.of : Emits(r.of[n])}

\* r has the action of each call that emits, and no other; if it failed, none.
Whole(r) ==
  IF r.result = "ok"
  THEN \E calls \in [DOMAIN r.actions -> DOMAIN r.of] :
         /\ EmittingCalls(r, calls)
         /\ \A i \in DOMAIN calls : r.actions[i].kind = Named(r.of[calls[i]])
  ELSE r.actions = <<>>

\* A run that is recorded or sent has all its program's actions in the order of
\* the calls, or none and the word that it failed: hosts act on these.
WholeOrNothing == \A r \in rows \cup Range(sent) : Whole(r)

\* A run is on the bus only after insert_run has had its say, at most once, and
\* a subscriber that asks the store for it finds it as it was sent, but for
\* payloads of JSON null, or not at all.
HeardIsKept ==
  \A i \in DOMAIN sent :
    /\ fate[sent[i].id] # "none"
    /\ \A r \in rows : r.id = sent[i].id => r = Row(sent[i])
    /\ \A j \in DOMAIN sent : sent[j].id = sent[i].id => i = j

\* A run that tick_now answered with is recorded as answered, or was trimmed for
\* Keep later ones of its vigy, whoever else records, deletes or registers.
AnswersKept ==
  \A run \in answered :
    \/ Row(run) \in rows
    \/ Limited /\ Cardinality(Later(Ids(OfVigy(rows, run.vigy)), run.id)) >= Keep

\* What was recorded of a vigy stays for audit, through its deletion and new
\* registration: a row goes only when Keep later ones of its vigy are there.
AuditKept ==
  [][\A r \in rows \ rows' :
       Limited /\ Cardinality(Later(Ids(OfVigy(rows', r.vigy)), r.id)) >= Keep]_vars

\* recent_runs leaves out no run that began in a later second than one it
\* gives: its order by text is that of time, but for runs of one second.
RecentAcrossSeconds ==
  \A v \in Vigies, n \in 1..Cardinality(RunIds) :
    \A r \in Recent(v, n), q \in OfVigy(rows, v) \ Recent(v, n) :
      Started[q.id] \div 100 <= Started[r.id] \div 100

\* Whatever a program keeps with vigy-set, plain values, and lists and maps of
\* them under string keys, come back with vigy-get as they were; any other has
\* changed once it is written and never changes again.  (Of every value, and so
\* of no state in particular: looked at before the first run.)
ValuesSettle == minted = 0 => Settles

\* What a subscriber receives is a queue of what was sent since it subscribed,
\* from whose head only what exceeds the bus's capacity is lost, and counted.
Tag(run) == [id |-> run.id, vigy |-> run.vigy]
Tags(runs) == [i \in DOMAIN runs |-> Tag(runs[i])]
Due(s) == [i \in 1..(Len(sent) + 1 - rx[s].next) |-> Tag(sent[rx[s].next + i - 1])]

Open == {s \in Subscribers : rx[s].on}
Waiting == [s \in Subscribers |-> IF rx[s].on THEN Due(s) ELSE <<>>]
Seen == [s \in Subscribers |-> Tags(rx[s].shown)]
Missed == [s \in Subscribers |-> rx[s].lost]

Bus == INSTANCE Feed WITH
  Items <- Hand,
  Shows <- [s \in Subscribers |-> {i \in Hand : i.vigy \in Filter[s]}],
  open  <- Open,
  due   <- Waiting,
  shown <- Seen,
  lost  <- Missed
FeedIsQueue == Bus!Spec

\* A subscriber that stays is told of every run sent: it receives it or learns
\* that runs were lost, whatever its filter.
EventuallyTold ==
  \A s \in Subscribers, i \in 1..Cardinality(RunIds) :
    (rx[s].on /\ i <= Len(sent)) ~> (~rx[s].on \/ rx[s].next > i)

================================================================================
