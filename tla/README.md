# vigy in TLA+

vigy is an always-on reconciler runtime: a *vigy* is a named program with a tick
interval, and the runtime evaluates it again and again, keeps what it wrote in a
per-vigy key-value table, and records every run. This directory holds TLA+ modules of
the parts where interleaving, failure and order decide whether that is true, TLC
configurations that check them, and TLAPS proofs of their main properties. Source paths
below are relative to `src/`; `crates/vigy-runtime/src/lib.rs` is called `lib.rs`.

## 1. Inventory

| Component | State | Operations | Interacts by |
|---|---|---|---|
| Runtime: registration and lifecycle (`lib.rs` 213-330) | `Inner.tasks`: vigy id to `JoinHandle`, behind an async mutex; the `vigies` rows | `register_or_update`, `enable`, `disable`, `delete`, `with_store` (resume), `spawn_task`, `cancel_task` | calls from concurrent request handlers; the shared store; `abort` of tasks |
| Runtime: `tick_loop` (`lib.rs` 333-377) | one task per vigy: interval, failure counter | sleep, re-read the row, tick, record, publish, back off | reads the store, is aborted by the registry |
| Runtime: one tick (`lib.rs` 402-492) | the tick's `VigyHost` | load keys, evaluate, save dirty and deleted keys, complete the run | `vigy_kv` rows shared with every other tick of the vigy |
| Host verbs (`vigy-eval/src/lib.rs`) | `kv`, `kv_dirty`, `kv_deleted`; buffers of actions, state entries and diagnostics | `vigy-set`, `-incr`, `-del`, `-once`, `-mark-converged`, `-rate-limited?`; `vigy-noop`, `-defer`, `-emit`, `-pull`, ...; `vigy-desired`, `-condition`, `-log`, ...; conversions between JSON and Lisp values | called by the program, on a blocking thread |
| Run history (`vigy-store`) | `vigy_runs` rows | `insert_run` with retention, `recent_runs` | called by loops and by `tick_now`, of any process |
| Event bus (`lib.rs` 136, 292, 307, 314, 366) | a broadcast channel of 1024 runs | publish, subscribe, receive, lag | loops and `tick_now` publish, `vigy tail` and embedders receive |
| Schema migrations (`vigy-store/src/migrator.rs`, `store.rs` 50-60) | tables, indexes, columns, `seaql_migrations` | `open` runs `Migrator::up` | processes that open one file at once |
| Store (`vigy-store/src/store.rs`, `inmemory.rs`) | SQLite rows, or maps behind a lock | CRUD, selectors, text forms of rows | shared by processes through one file |
| Types (`vigy-types`) | none | ids from name and program, labels and selectors, interval bounds | used everywhere |
| Surfaces (REST, GraphQL, MCP, CLI; gRPC is a stub) | none | one runtime call each | handlers run concurrently; a handler's future is dropped when its client leaves; each CLI command opens a runtime of its own |

What makes each correct:

- *Lifecycle.* An enabled vigy in the runtime's scope has exactly one loop, any other has
  none; two hosts on one store never both loop over a vigy; a disabled vigy stops; an
  enabled one is ticked for ever.
- *Tick.* What a program writes is what the next tick reads, all of it or, if the program
  fails, none; ticks are counted; `vigy-once` is once; rate limits hold.
- *History.* The newest `keep` runs of each vigy, no more and no less, whoever inserts; the
  answer of `tick_now` is recorded; a deleted vigy's runs stay; `recent_runs` is recent.
- *Verbs.* A run has all its program's actions in order, or none; values settle.
- *Schema.* An opened store has all the code needs, however many opened it at once.
- *Pacing.* The documented pauses, no tick early, no loop that gives up.
- *Rows and surfaces.* Every row a surface lets in reads back; a registration takes effect
  once and whole; what a surface reports was true of the table while it looked.
- *Bus.* Receivers see finished runs in the order sent, each once and as the store has it; a
  lagging one knows what it lost.

The hard behaviours are the ones `PROJECT.json` lists as hazards, each at its line: calls
that hold the registry lock twice, an `abort` that does not reach a blocking thread,
statements of several tasks between the statements of one, calls dropped half way,
processes that end and reopen, rows that another process has changed, reads and saves
that fail.

## 2. Modules

| Module | Models | Role |
|---|---|---|
| `Lifecycle` | the registry, the loops' control, calls in flight, several processes, the rows' `enabled` and `host` | detailed specification |
| `MCLifecycle` | scopes and label sets for TLC | instance |
| `LifecycleProofs` | `TypeCorrect`, `HostTicksAlone`, `OneTaskPerVigy`, `EnabledIsOn`, `OthersAreOff` | proofs |
| `VigyHost` | the key-value verbs and the bookkeeping of a tick's working copy | operators |
| `TickTxn` | a tick as a transaction: begin, write, commit or discard | abstract specification |
| `Ticks` | `run_once_with`, `load_kv`, `save_kv`, statement by statement, several tickers | detailed specification, implements `TickTxn` |
| `MCTicks`, `TicksProofs` | | instance, proofs |
| `Retention`, `RetentionProofs` | which runs a limit keeps | operators, lemmas |
| `RunHistory` | one atomic `insert_run` (`InMemoryStore`) | abstract specification |
| `RunLog` | `SeaormStore::insert_run` in three statements, several writers that may stop | detailed specification, implements `RunHistory` |
| `MCRunLog`, `RunLogProofs` | | instance, proofs |
| `Pacing`, `PacingProofs` | the sleeps of one loop, `backoff_for`, overlapping calls that respawn it | detailed specification, proofs |
| `Values` | `lisp_to_json`, `json_to_lisp` | operators, checked over bounded values |
| `Verbs` | the verbs that emit, which calls are refused, what a program leaves | operators |
| `Feed` | one queue per subscriber, with counted losses | abstract specification |
| `RunFeed` | from a tick's end to `vigy_runs`, the bus, its receivers and `recent_runs`; deletion and registration anew | composes `Verbs` and `Retention`, implements `Feed` |
| `MCRunFeed`, `RunFeedProofs` | | instance, proofs |
| `Schema` | a schema that goes up one whole migration at a time | abstract specification |
| `Migrations`, `MigrationsProofs` | `open` by several processes, statement by statement, cut anywhere | detailed specification, implements `Schema`; proofs |
| `Registry` | `InMemoryStore`'s map of vigies, each operation at one instant | abstract specification |
| `Surfaces` | REST, GraphQL, MCP and CLI requests over `SeaormStore`'s vigies table, several clients | detailed specification, implements `Registry` |
| `MCSurfaces`, `SurfacesProofs` | | instance, proofs |

An action is the code between two awaits, or one SQL statement together with the code up
to the next await: that is the finest interleaving tokio and SQLite produce. Operators
whose names start with `M_` are altered copies of the definition that follows them; no
specification uses them. They show that each property notices a plausible slip in the code.

**Lifecycle.** `row`, `status`, `resume`, `tasks`, `loop`, `call` are the `vigies` table,
each process's progress through `with_store`, the vigies it has still to resume, its
registry, the tokio tasks and the calls in flight. `Register`, `Enable`, `Disable`,
`Delete` start a call; `Find`, `Upsert`, `SetEnabled`, `Get`, `Spawn`, `Insert`,
`Cancel`, `Erase` are its steps, each guarded by the call's program counter; `Abandon` is a
statement that fails or a future that is dropped. `Wake`, `WakeError`, `TickDone`,
`Drained` are a loop; a loop aborted in a tick is `draining` until the evaluation on the
blocking thread ends. `Open`, `Resume`, `Ready`, `Exit` are a process;
`Drop` drops its handle, which ends no loop. A slot of `loop`
stands for a tokio task; it is reused only when the task is done and no handle names it.

**VigyHost, Ticks.** A host is `kv`, `dirty`, `deleted`. `Start`, `Load` (or `LoadError`),
the verbs, `EvalOk` or `EvalFail`, `SaveFind`, `SaveWrite`, `SaveDelete`, `SaveError`,
`Finish`, and `Abort` at any await. A key is a prefix and a name, so that a program may
also address a sentinel by its full name; a value is an integer or `Text`, any JSON value
that `as_i64` does not read. `save_kv` writes keys in the map's order; the model writes
them in any order.

**Retention, RunLog.** A run id is a natural number: uuid v7 ids order by the clock that
minted them, and the clocks of two processes differ, so `Begin` mints any unused id.
`Insert`, `FindFloor`, `Trim` are the three statements, `Stop` an error or an abort at any
of them. `recorded` and `cut` are history: what was ever inserted, and whether a writer
left its trim undone.

**Pacing.** Time passes in seconds (`Elapse`); a timer fires at most `Jitter` late.
`call` is what each caller of the runtime is doing: `Upsert` writes the row for
`register_or_update`, `Enable` and `Get` are the two statements of `enable`, and either call goes on to
`Respawn` with the vigy it holds. Nothing keeps the calls apart, and `Abandon` drops one anywhere.
`loop` is the tick_loop spawned last; the older one that an overlap can leave without a handle is
`Lifecycle`'s subject. `silent` and `streak` are history: the time since the last tick and the
failures since the last success. So are `overtaken`, the row was written since the call wrote or read it,
and `passed`: the loop comes from a call that was overtaken, a registration was dropped before its
spawn, or another process wrote the row.

**Values, Verbs.** A value is its type and its text; lists and maps hold scalars, since the code
maps itself over what is nested. A map's keys become strings, of which two may meet: the hash
map's order decides which value stays, so `JsonsOf` gives every outcome. A program is the calls
it makes; the first call that `Legal` refuses ends it. `Outcome` is what `run_once_with` makes
of it: the actions emitted, pushed one by one into `Buffer`, or the failure and no action. `Reread` is what `insert_run` and
`recent_runs` make of an action.

**Feed, RunFeed.** `task` is a loop or a call of `tick_now` at its tick or between `insert_run` and
`bus.send`; `rows` is `vigy_runs`, `sent` all the bus has taken, `rx` the receivers. `Insert`
runs the program and `insert_run`, which may fail before or after its INSERT; `LoopSend` sends in
any case, `CallSend` only if it went through. `Elsewhere` is a tick of another process. `Lag` and
`Recv` are the two answers of `recv`: tokio's channel is a ring read by position, and
external. `Delete` and `Register` leave rows and runs in hand. `Recent` is `recent_runs` with
the order of RFC 3339 text, `TextRank`. The refinement mapping (`Open`, `Waiting`, `Seen`,
`Missed`) turns positions into queues. `fate` and `answered` are history.

**Schema, Migrations.** `schema` is the file's tables, indexes and columns, `recorded` the rows of
`seaql_migrations`, `proc` each open. `Pending` reads once what is recorded; `Apply` is one
statement, which passes unless it makes what is there without IF NOT EXISTS or lacks its table;
`Record` follows a migration's last. `Refused` is a statement that does not pass, `Cut` a process
that ends or a statement that fails for another reason. That SQLite gets no transaction around a migration is
sea-orm-migration's doing (1.1) and external. `halfway` is history: some open stopped after
a statement that cannot be repeated, before the record.

**Registry, Surfaces.** `row` is the `vigies` table, `call` the requests in flight. A request
arrives by `Register`, `Request` (the operations by id, `OpsOf` says which surface has
which), `BadId` or `List`, and goes on by the statements of its runtime call: `Find`,
`Upsert`, `SetEnabled`, `Read`, `Runs`, `Record`, `Erase`. `Break` is a statement that fails,
`Abandon` a client that goes away. `Takes` is what a surface checks of a payload: REST, unlike MCP and
the CLI, does not validate label keys. An interval is a `u64` in a signed column (`Encoded`,
`Decoded`), and a row below the minimum does not decode. An upsert fails when the row came
or went after its SELECT; `set_enabled` writes `enabled` and leaves the other columns as they
are by then. `dto` says that the answer goes through GraphQL's `VigyDto`, which casts the interval `as i64`
(`ShownBy`); the other surfaces show the `u64`. `seen` is history: what the table has said of the vigy since the request came,
or since its own write. The registry of loops is left to `Lifecycle`, the tick behind
`Record` to `Ticks`. `ReadBack` and `UnderWay` are the refinement mapping.

## 3. Runs

| Run | Checks | Shows |
|---|---|---|
| `LifecycleSerial` | `OneLoopPerVigy` `AlwaysOn` `NoStrayLoop` `TicksForever` | while calls about one vigy do not overlap, store and loops agree whenever no call is in flight, across exits and reopens and changes of label |
| `LifecycleShared` | `TypeOK` `OneHostTicks` `DisabledStops` | two hosts, overlapping and abandoned calls, failing reads, exits, dropped handles: no two hosts loop over one vigy, and a vigy that stays disabled stops, even a loop whose handle was lost |
| `LifecycleTwoCallers` | `OneLoopPerVigy` fails | two overlapping registrations leave two loops |
| `LifecycleReplace` | `NoConcurrentTicks` fails | a replaced loop's evaluation overlaps the new loop's |
| `TicksSerial` | `CountsOkTicks` `SavedOnTickEnd` `TickIsTransaction` `OnceUnlessFailed` `RateSpaced` | a tick is a transaction, counted once; sentinels and limits hold while no tick has failed |
| `TicksConcurrent` | `TypeOK` `SentinelsStay` | two tickers, every fault: a stored sentinel stays |
| `TicksOnceFails` | `OnceAtMostOnce` fails | a failed tick forgets that `vigy-once` answered true |
| `RunLog` | `TypeOK` `NewestKept` `OthersGone` `TrimsUnseen` | three writers that stop anywhere: the newest runs stay, the next complete insert removes what a stopped one left, and the newest runs change as in the atomic store |
| `Pacing` | `TypeOK` `PacedAsStored` `Paced` `NeverGivesUp` | pauses as documented in `backoff_for`, up to the saturated counter; two overlapping calls, a foreign writer: the loop sleeps what the row says unless a write overtook the call that spawned it |
| `Surfaces` | `TypeOK` `RowsReadable` `AnswersWereTrue` `OneMap` | requests of two clients through every surface: rows stay readable, answers were true (GraphQL's up to the sign of the interval), the table is one map |
| `Migrations` | `TypeOK` `OpenIsReady` `OneWinner` `UpgradesInOrder` `EveryoneGetsIn` | three processes race to open a file, new or of an older release, and end anywhere: an open store is complete, one racer wins and the losers get in when they try again |
| `RunFeed` | `TypeOK` `WholeOrNothing` `HeardIsKept` `AnswersKept` `RecentAcrossSeconds` `ValuesSettle` `AuditKept` `FeedIsQueue` `EventuallyTold` | a loop, a `tick_now` that may be dropped, another process and failing inserts: what is heard, answered, kept and listed agrees; the bus is a queue per receiver and every run sent is told or counted lost |

`RunLog`, `TicksSerial`, `TicksConcurrent` and `TicksOnceFails` set `CHECK_DEADLOCK FALSE`:
their bounded supply of run ids or ticks runs out. All others check deadlock.

**Bounds.** One vigy, because nothing in `Lifecycle` couples two vigies but the registry's
map, which is indexed by id, and two for `RunLog`, whose trim could reach another vigy's rows. Two callers: each hazard
is a pair of calls. `Slots` bounds the loops that exist at once: three for one runtime (a
registered loop, an orphaned one and one being spawned), two where two hosts are explored
with every fault. `RunLog` has five ids, three writers and a limit of two, so that a floor
exists, moves and is stale. `MaxVerbs`, `MaxTicks`, `MaxTime` bound `Ticks`: two verbs
in each of three ticks reach set-then-delete, once-then-fail-then-once and a limit passed
twice; `MaxInt = 2` makes `vigy-incr` saturate. `MaxFailures = 8` lets `Pacing` pass the
cap at six and saturate; its two callers and two intervals let one call overtake another either way. `Surfaces` has two clients on one vigy; `Half = 2` gives words 0 to 3,
of which 0 is below the minimum, 1 is stored as it is and 3 as a negative number; payloads
differ in all they carry, so that a column from one write beside a column from another shows.
`Migrations` has three processes, so that two can race while a third comes late, and starts
from each of the four versions a release can have left. `RunFeed` has three runs and a limit of two, so
that one is trimmed; a capacity of one, so that a receiver can lag by one and by two and go on; start times
0.20 s, 0.23 s and 1.00 s, whose texts differ from their order within a second; two programs, one that
emits three times, one that fails after it has emitted. `Values` is checked over two words, two numbers,
NaN, every scalar, pairs of them and maps of two keys.

**Fairness.** `Lifecycle` assumes weak fairness of each loop's, each call's and each
opening process's next step: tokio polls every ready task, timers fire, SQLite answers.
Nothing is assumed of callers, of processes that may open or exit, or of faults.
`Pacing` assumes that time and the loop go on.
`Migrations` assumes that an open goes on (not that anyone opens or closes), `RunFeed` that a
receiver does.
`EveryoneGetsIn` has as premise that nothing is halfway, that from some time on opens end by
themselves only, and that the process tries again and again.
`TicksForever` and `NeverGivesUp` have as premise that the vigy stays enabled, in scope and
in the end is left alone, since every registration starts the sleep anew.

## 4. What disagrees with the documentation

`PROJECT.json` lists them as findings, each with the line quoted. Three have a run of their
own: `LifecycleTwoCallers`, `LifecycleReplace`, `TicksOnceFails`.

Some show up when a passing run's configuration or a premise is loosened:

- `Faults = {"dbread"}` in `LifecycleSerial.cfg` violates `AlwaysOn`: one failed read ends a
  loop for good.
- `Faults = {"exit", "drop"}` there violates `OneLoopPerVigy`: loops outlive their handle.
- `LabelsOf <- AnyLabel` in `LifecycleShared.cfg` violates `OneHostTicks`: a vigy registered anew
  through another host is ticked by both, since a loop re-reads `enabled` only.
- `Tickers = {t1, t2}` in `TicksSerial.cfg` violates `CountsOkTicks`: `tick_now` beside the loop
  loses a count, and an increment.
- `Raw <- Key` there violates `SavedOnTickEnd`: a sentinel deleted by its full name and set
  again in one tick is lost.
- `PacedAsStored` with `passed' = FALSE` in `Respawn` fails, without another process or a dropped call too:
  `enable` reads an interval, a registration writes another and spawns its loop, `enable` spawns a loop
  with the first. Every call is through and the loop sleeps what the row no longer says. Two
  registrations do the same when the one that writes first spawns last.
- `AnswersWereTrue` with `k.body \in k.seen` in place of `TellsTruth(k)` fails: `vigy`, `enableVigy` and
  `disableVigy` (and `vigies`, whose answers the model does not keep) show an interval of 2^63 ms and more
  2^64 lower, where the other surfaces show it as registered.
- `EveryoneGetsIn` without `[]~halfway` fails: a process that ends after CREATE INDEX or ADD
  COLUMN and before its migration is recorded leaves a file no later open gets past.
- `RecentAcrossSeconds` with times in place of seconds fails: within one second `recent_runs`
  may leave the newest run out.

The others are plain from the code:

- A lookup that failed is reported as "not found"; `VigyId::parse` takes upper case.
- `tick_now` leaves with `insert_run`'s error before `bus.send`, so a subscriber does not get
  every finished run; `tail` prints oldest first and only its own runtime's runs.
- What a program says with `vigy-desired`, `vigy-observed` and `vigy-condition` is dropped with
  the host; `condition` gives the first entry of a name where the doc says the latest.
- The doc's `vigy-delete` is `vigy-delete-action`. Keywords, symbols, NaN and maps with
  other than string keys do not come back as they went; `ValuesSettle` says which values do.

`Paced` holds with the pauses of the comment in `backoff_for`, not with "Three failing
ticks in a row → cap at 30s" of the module documentation.

## 5. Proofs

All for every value of the constants, under the assumptions named in the modules.

- `LifecycleProofs!TypeCorrect`: `Spec => []TypeOK`, one step per action.
- `HostTicksAlone`: `Spec => []OneHostTicks`, if no label a vigy is ever registered under
  is in two runtimes' scopes (`ScopesDisjoint`). The invariant `HostInv` adds to `OneHostTicks`
  what leads to a loop: a call about to spawn, a vigy still to resume, and the row itself
  carry a label the runtime serves. It holds with overlapping calls and every fault.
- `OneTaskPerVigy`: `Spec => []OneLoopPerVigy` if calls about one vigy do not overlap and are
  not abandoned, and no handle is dropped while its process goes on (`OneCallAtATime`). `SerialInv` says that every live loop's handle is in the registry or
  in the hands of the one call about its vigy, and that while such a call holds a handle
  the registry has none: the loop `Spawn` replaces is the one `CancelTask` reached.
- `EnabledIsOn`, `OthersAreOff`: `Spec => []AlwaysOn` and `Spec => []NoStrayLoop` for one runtime
  under `OneCallAtATime` (the first also with reads that do not fail). `AgreeInv` says what a call
  has done of its work at each of its steps (`CallAgrees`), so that row and loop agree as
  soon as nobody is between the write and the return, and while a reopened process resumes every
  wanted vigy has its loop or is still to come.
- `TicksProofs!TypeCorrect`, and for one ticker whose store answers, whose program may fail
  and keeps off the sentinels' full names and the system keys (`Orderly`): `EveryOkTickCounted`, `WritesReachTheRows` and
  `TickImplementsTransaction` (`Spec => TickIsTransaction`). `TxnInv` says that the host
  agrees with the rows on every key it has not touched (`Coherent`), and during a save that what is
  still to be written is what still differs. The refinement maps the moment the program ends to
  the commit: from then on the abstract keys are the rows with the pending save applied.
- `OnceIsOnce`, `PassesAreSpaced`, under `Orderly` too: `FreshInv` adds to `TxnInv` that while every tick
  begun has ended Ok or is under way, what the verbs answered (`onceTrue`, `passed`) is in the keys as
  the ticker holds them (`Promised`).
- `SentinelsSurvive`: `Spec => SentinelsStay` for any number of tickers and every fault, from
  `OwnKeysOnly` alone: no tick has a sentinel among what it will delete (`Spares`).
- `NothingIsInvented`: `Spec => []NothingInvented`, from `OwnKeysOnly` and with overlapping ticks, failed loads
  and aborts: the stored count is at most the ticks begun, and the stored times (`__sys::prev_tick_ms`, the rate
  limits) are not ahead of the clock. Two tickers may lose a count (section 4): the stored one can be too low, never too high. `GenuineInv` bounds the rows and every working copy by the ticks
  begun less those that have still to load (`Loaders`): a tick that loads adds one to a count that
  left room for it, and what a save leaves is row by row an old value, the ticker's or nothing (`MixedGenuine`).
- `RunLogProofs!TypeCorrect`, `NewestSurvive`, `NothingElseStays`, `RunLogImplementsHistory`. `KeptInv`
  says that a floor in a writer's hands has at least `Keep - 1` later runs among all ever recorded, so
  deleting below it costs nothing, and that stays true as ids arrive in any order.
  `TrimComing` says that rows beyond the limit are some writer's to trim, or that one stopped.
  The lemmas on `Newest`, `Later` and cardinalities are in `RetentionProofs`, which
  `RunFeedProofs` uses as well.
- `RunFeedProofs!TypeCorrect`, `HeardRunsAreKept`, `AnswersAreKept`, `RunsStayForAudit`, `RecentBySecond`,
  `BusIsQueues`, `RunsAreWhole`, `TailsAccountForAll`, `TailsShowOnce`, for any programs, vigies, calls, receivers, limit, capacity and faults. `NumberInv` says that a run is in
  one hand at a time and that its number is on the bus and in the rows only as its holder left it. `AnswerInv`
  says of a run answered or about to be that it is recorded or has `Keep` later ones (`Safe`,
  `Beyond`), which no later insert or trim undoes. `RecentBySecond` needs only that rows are finite
  and that a later second's text sorts later. `BusIsQueues` (`Spec => FeedIsQueue`) writes a receiver's queue as
  `Cut(sent, next)` and shows that appending, taking the head and skipping to the oldest are what the
  abstract actions do.
- `RunsAreWhole`: `Spec => []WholeOrNothing`, for programs of any length. What `Buffer` has after n calls is
  one action per emitting call among them, in order (`EmittedBy`, by the least n for which it
  would fail). `WholeInv` adds that a run still to be sent is whole; `insert_run` and reading back change payloads only.
- `TailsAccountForAll` (`Spec => TailsAccount`): a tail that joins starts with the next run sent, and each step
  until it leaves keeps `Accounts`: of all positions from there to its own, those it got and a number of others
  equal to what it counts lost, and shown is what it got of its vigies, by a rising map of positions. `TailsShowOnce` follows
  with `NumberInv`. `FeedIsQueue` relates bus and queues step by step; this is what it adds up to for a reader of `vigy tail`.
- `WhatIsWrittenStays`, and from it `ValuesComeBack` (`Spec => []ValuesSettle`): about `Values` alone, for any words
  and numbers, lists of any length and maps of any keys, each over scalars. A map is written as one of `ObjectsOf`, which has
  under each string the value of one of the keys that meet in it, and what is read of it has strings for keys that
  no longer meet (`ReadMap`). Its proof found a `CASE` in the model with two arms for NaN.
- `PacingProofs!TypeCorrect`, `LoopFollowsRow` (`Spec => []PacedAsStored`), `TicksArePaced` (`Spec => Paced` for
  the cap of 30 s), for any number of callers whose calls overlap and are dropped anywhere. `HeldIsStored` says that an
  interval nobody wrote over since is the row's, in whatever call's hands; `LoopOrWriter` that unless `passed` the loop
  has the row's interval or the row's last writer is yet to spawn, so the last of the spawns
  settles it. `Slept` bounds at every moment the time since the last tick plus what is left to sleep.
- `MigrationsProofs!TypeCorrect`, `OpenStoreIsReady`, `SchemaInOrder`, `RaceHasOneWinner`, for any number
  of processes. `SchemaInv` says that what is recorded is a prefix and made, and that each process has exactly the
  rest to do and its earlier statements done. `Winners` adds, while nothing is halfway, that what
  cannot be made twice was made by one process, which still has it in hand.
- `SurfacesProofs!TypeCorrect`, `RowsStayReadable`, `AnswersTrue`, `TableIsOneMap`, for every word size
  and minimum and with every fault. `CallGood` says of a call in flight that `seen` has what the table says
  now, and that what it will answer with is among it: `Noted` keeps the first true when another
  call writes. `Codec` shows that the two casts undo each other, `ShownTrue` that what a surface shows
  reads back as the vigy and is negative in a `VigyDto` only. `MapStep` maps a
  statement that writes to the one operation of `Registry`, any other to a request made, given up or
  nothing at all.

Only model-checked: the liveness properties (`TicksForever`, `DisabledStops`, `NeverGivesUp`,
`EveryoneGetsIn`, `EventuallyTold`), which are beyond the prover, and what the three runs that end in a
violation refute. The other way round, `NothingInvented`, `TailsAccount`, `ShownOnce` and
`WhatIsWrittenStays` are proved and no run states them. Where a proof needs induction over data, it takes the
least counterexample among the naturals; values nested deeper than `Values` has them stay out of the model.
The assumptions of a theorem (`ScopesDisjoint`, `OneCallAtATime`, `OneRuntime`, `StoreAnswers`,
`Orderly`, `OwnKeysOnly`) are where the code needs them: section 4 has the counterexamples.

## 6. Not modelled

Program text and its evaluation, which is done by crates outside the repository: a program is any
sequence of verbs in `Ticks`, and the calls it makes in `Verbs`. `BLUE_TICK_FUEL` with it, and so
that a program ends is assumed. The verbs that only read. gRPC, whose crate is stubs. Argument
parsing, printing, logging. The down migrations and `schedule.rs`, which nobody calls. A clock that is
set back. An `i64` overflow of the tick count, which needs a program that writes the system
key. The JSON text of a float: `save_kv` and `load_kv` write and parse it with `serde_json` without
`float_roundtrip`, so a float may come back from the store in another last digit; `Values` is about the two
conversions around that text. That another process's registration is not picked up before a restart is in `Lifecycle` by
design of `with_store`, not as a property.

## 7. What is left

1. `Migrations` and `Lifecycle` meet in `with_store`, which opens and then resumes: their
   composition would show that a refused open starts no loop. Today `open` returning first makes it
   plain.
2. One specification of a tick that joins `Ticks` (keys) and `RunFeed` (run): a run recorded Ok whose
   save failed.
3. Values nested to any depth, which would need `lisp_to_json` and `json_to_lisp` as functions on trees and
   an induction on their height.
4. `OnceIsOnce` and `CountsOkTicks` for several processes with a lock around the tick, should the
   code get one.
