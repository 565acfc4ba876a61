--------------------------------- MODULE Pacing ---------------------------------
(***************************************************************************)
(* When one vigy is ticked: the sleeps of its tick_loop.  The loop sleeps  *)
(* the interval it was spawned with, ticks, and after a failed tick sleeps *)
(* a backoff before it sleeps the interval again.  Registering or enabling *)
(* the vigy anew replaces the loop; the calls that do may overlap, be      *)
(* dropped between their steps, and another process may rewrite the row.   *)
(*                                                                         *)
(* The loop is the one spawned last.  That an overlap can leave an older   *)
(* one running without a handle is the subject of Lifecycle.               *)
(*                                                                         *)
(* Time is counted in whole seconds.  A timer fires no more than Jitter    *)
(* after it is due; a tick may take any time.                              *)
(***************************************************************************)
EXTENDS Integers

CONSTANTS
  Callers,       \* who may register or enable the vigy at a time, in one runtime
  Intervals,     \* the tick intervals the vigy is registered with
  MaxBackoff,    \* MAX_BACKOFF
  MaxFailures,   \* u32::MAX, where the counter of failures saturates
  Jitter         \* how late a timer fires

ASSUME PacingAssumption ==
  /\ Intervals \subseteq Nat \ {0} /\ Intervals # {}
  /\ MaxBackoff \in Nat /\ Jitter \in Nat
  /\ MaxFailures \in Nat \ {0}

VARIABLES
  stored,     \* tick_interval in the vigy's row
  loop,       \* the vigy's tick_loop, the one spawned last
  call,       \* what each caller is doing, and the interval of the vigy it holds
  passed,     \* history: a write of the row that no spawn was to follow
  silent,     \* history: time since the loop's last tick, or since its start
  streak      \* history: the loop's failed ticks in a row, at most MaxFailures

vars == <<stored, loop, call, passed, silent, streak>>

LowerOf(a, b) == IF a <= b THEN a ELSE b

M_SaturatingInc(n) == n + 1
SaturatingInc(n) == LowerOf(n + 1, MaxFailures)

\* 1 << min(failures - 1, 5) seconds, and no more than MAX_BACKOFF.
M_BackoffFor(failures) == 2 ^ LowerOf(failures - 1, 5)
BackoffFor(failures) == LowerOf(2 ^ LowerOf(failures - 1, 5), MaxBackoff)

Sleeping(interval, failures) ==
  [pc |-> "sleep", interval |-> interval, failures |-> failures, left |-> interval]

\* A call of register_or_update that has written the row, or of enable that has
\* yet to read it ("get") or has read it; overtaken is history: the row was
\* written since the call wrote or read it.
CallType == [pc : {"idle", "get", "registering", "enabling"},
             interval : Intervals \cup {0}, overtaken : BOOLEAN]

Idle == [pc |-> "idle", interval |-> 0, overtaken |-> FALSE]

Holds(pc, i) == [pc |-> pc, interval |-> i, overtaken |-> FALSE]

\* The calls once somebody else has written the row.
Overtaken == [c \in Callers |->
  IF call[c].pc \in {"registering", "enabling"}
  THEN [call[c] EXCEPT !.overtaken = TRUE] ELSE call[c]]

\* Every component of the state has its type.
TypeOK ==
  /\ stored \in Intervals
  /\ loop \in [pc : {"sleep", "tick", "backoff"}, interval : Intervals,
               failures : 0..MaxFailures, left : Int]
  /\ loop.left >= -Jitter
  /\ call \in [Callers -> CallType]
  /\ passed \in BOOLEAN
  /\ silent \in Nat
  /\ streak \in 0..MaxFailures

(***************************************************************************)
(* tick_loop                                                               *)
(***************************************************************************)
Wake ==
  /\ loop.pc = "sleep" /\ loop.left <= 0
  /\ loop' = [loop EXCEPT !.pc = "tick"]
  /\ UNCHANGED <<stored, call, passed, silent, streak>>

M_TickOk ==
  /\ loop.pc = "tick"
  /\ loop' = Sleeping(loop.interval, loop.failures)
  /\ silent' = 0 /\ streak' = 0
  /\ UNCHANGED <<stored, call, passed>>

TickOk ==
  /\ loop.pc = "tick"
  /\ loop' = Sleeping(loop.interval, 0)
  /\ silent' = 0 /\ streak' = 0
  /\ UNCHANGED <<stored, call, passed>>

TickFailed ==
  LET failures == SaturatingInc(loop.failures) IN
  /\ loop.pc = "tick"
  /\ loop' = [loop EXCEPT !.pc = "backoff", !.failures = failures,
                          !.left = BackoffFor(failures)]
  /\ silent' = 0 /\ streak' = SaturatingInc(streak)
  /\ UNCHANGED <<stored, call, passed>>

M_BackoffOver ==
  /\ loop.pc = "backoff" /\ loop.left <= 0 /\ loop.failures < MaxFailures
  /\ loop' = Sleeping(loop.interval, loop.failures)
  /\ UNCHANGED <<stored, call, passed, silent, streak>>

BackoffOver ==
  /\ loop.pc = "backoff" /\ loop.left <= 0
  /\ loop' = Sleeping(loop.interval, loop.failures)
  /\ UNCHANGED <<stored, call, passed, silent, streak>>

\* A second passes.  What passes while a tick runs is not counted.
Elapse ==
  /\ loop.pc # "tick" /\ loop.left > -Jitter
  /\ loop' = [loop EXCEPT !.left = @ - 1]
  /\ silent' = silent + 1
  /\ UNCHANGED <<stored, call, passed, streak>>

(***************************************************************************)
(* Registering or enabling the vigy again.  No lock is held from one step  *)
(* of a call to the next.                                                  *)
(***************************************************************************)
\* register_or_update in the loop's runtime: the row.
Upsert(c, i) ==
  /\ call[c].pc = "idle"
  /\ stored' = i
  /\ call' = [Overtaken EXCEPT ![c] = Holds("registering", i)]
  /\ UNCHANGED <<loop, passed, silent, streak>>

\* enable: set_enabled leaves the interval alone.
Enable(c) ==
  /\ call[c].pc = "idle"
  /\ call' = [call EXCEPT ![c] = Holds("get", 0)]
  /\ UNCHANGED <<stored, loop, passed, silent, streak>>

\* enable: the row as get_vigy returns it.
Get(c) ==
  /\ call[c].pc = "get"
  /\ call' = [call EXCEPT ![c] = Holds("enabling", stored)]
  /\ UNCHANGED <<stored, loop, passed, silent, streak>>

M_Respawn(c) ==
  /\ call[c].pc \in {"registering", "enabling"}
  /\ loop' = Sleeping(loop.interval, 0)
  /\ call' = [call EXCEPT ![c] = Idle]
  /\ passed' = call[c].overtaken
  /\ silent' = 0 /\ streak' = 0
  /\ UNCHANGED stored

\* spawn_task, with the vigy the call holds.
Respawn(c) ==
  /\ call[c].pc \in {"registering", "enabling"}
  /\ loop' = Sleeping(call[c].interval, 0)
  /\ call' = [call EXCEPT ![c] = Idle]
  /\ passed' = call[c].overtaken
  /\ silent' = 0 /\ streak' = 0
  /\ UNCHANGED stored

\* The call is dropped where it waits, or get_vigy fails.
Abandon(c) ==
  /\ call[c].pc # "idle"
  /\ call' = [call EXCEPT ![c] = Idle]
  /\ passed' = (passed \/ (call[c].pc = "registering" /\ ~call[c].overtaken))
  /\ UNCHANGED <<stored, loop, silent, streak>>

\* upsert_vigy by a runtime that does not schedule the vigy.
UpsertElsewhere(i) ==
  /\ stored' = i /\ passed' = TRUE
  /\ call' = Overtaken
  /\ UNCHANGED <<loop, silent, streak>>

(***************************************************************************)
(* Specification                                                           *)
(***************************************************************************)
Init ==
  /\ stored \in Intervals
  /\ loop = Sleeping(stored, 0)
  /\ call = [c \in Callers |-> Idle]
  /\ passed = FALSE /\ silent = 0 /\ streak = 0

LoopStep == Wake \/ TickOk \/ TickFailed \/ BackoffOver \/ Elapse

Next ==
  \/ LoopStep
  \/ \E c \in Callers :
       \/ Enable(c) \/ Get(c) \/ Respawn(c) \/ Abandon(c)
       \/ \E i \in Intervals : Upsert(c, i)
  \/ \E i \in Intervals : UpsertElsewhere(i)

Spec == Init /\ [][Next]_vars

\* Time passes, due timers fire, ticks end: tokio's part.  Nobody has to call.
FairSpec == Spec /\ WF_vars(LoopStep)

(***************************************************************************)
(* Properties                                                              *)
(***************************************************************************)
\* What the comment in backoff_for says of the pauses.
PauseAfter(n) ==
  CASE n = 0 -> 0
    [] n = 1 -> 1
    [] n = 2 -> 2
    [] n = 3 -> 4
    [] n = 4 -> 8
    [] n = 5 -> 16
    [] OTHER -> 30

\* Between two ticks of a loop lie its interval and, after n failures in a row,
\* the pause for n: no less, and no more than two late timers add.
Paced ==
  [][loop.pc = "sleep" /\ loop'.pc = "tick" =>
       silent - (loop.interval + PauseAfter(streak)) \in 0..(2 * Jitter)]_vars

Quiet == \A c \in Callers : call[c].pc = "idle"

\* Once the calls are through, in whatever order their steps came, the loop
\* spawned last sleeps the interval its row says: the call that spawns last is
\* the one whose interval is stored.  There are three exceptions, and no others: another
\* process was the last to write the row, a registration was dropped before
\* its spawn, or the row was written between the spawning call's own look at
\* it and its spawn.
PacedAsStored == Quiet /\ ~passed => loop.interval = stored

\* Failing as often as it may, a vigy that is not registered over and over is
\* ticked again.
NeverGivesUp == <>[]Quiet => []<>(loop.pc = "tick")

================================================================================
