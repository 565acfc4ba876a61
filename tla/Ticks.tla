---------------------------------- MODULE Ticks ----------------------------------
(***************************************************************************)
(* Ticks of one vigy over its kv rows: run_once_with of vigy-runtime, the  *)
(* verbs its program calls, and SeaormStore's load_kv and save_kv, for     *)
(* every task that can be ticking the vigy at once (a tick_loop, a loop    *)
(* that the registry lost, tick_now calls, other processes).               *)
(*                                                                         *)
(* An action is one SQL statement with the code up to the next one, or one *)
(* verb of the program.  Recording the run is RunLog's.                    *)
(***************************************************************************)
EXTENDS VigyHost, FiniteSets

CONSTANTS
  Tickers,    \* tasks that tick the vigy
  Verbs,      \* the state-changing verbs its program uses
  Raw,        \* the keys it passes to vigy-set, vigy-incr and vigy-del
  Payloads,   \* the values it sets
  MinMs,      \* the interval it passes to vigy-rate-limited?
  Faults,     \* which of "load", "fail", "save", "abort" may happen
  MaxVerbs,   \* bound: verbs in one tick
  MaxTicks,   \* bound: ticks begun
  MaxTime     \* bound: the clock

ASSUME TicksAssumption ==
  /\ Verbs \subseteq {"set", "incr", "del", "once", "mark", "rate"}
  /\ Raw \subseteq Key /\ Payloads \subseteq Value
  /\ Faults \subseteq {"load", "fail", "save", "abort"}
  /\ MinMs \in Nat /\ MaxVerbs \in Nat /\ MaxTicks \in Nat /\ MaxTime \in Nat

VARIABLES
  table,     \* the vigy's rows in vigy_kv
  now,       \* the wall clock, in ms
  tick,      \* tick[t]: what t is doing
  begun,     \* how many ticks began
  okTicks,   \* history: how many ended Ok
  onceTrue,  \* history: onceTrue[n], how often vigy-once answered true for n
  passed     \* history: passed[n], the last tick start that vigy-rate-limited? let pass

vars == <<table, now, tick, begun, okTicks, onceTrue, passed>>
history == <<okTicks, onceTrue, passed>>

NoHost == [kv |-> Empty, dirty |-> {}, deleted |-> {}]
Rest   == [pc |-> "idle", host |-> NoHost, start |-> 0, verbs |-> 0,
           upserts |-> {}, deletes |-> {}, key |-> TickCount, found |-> FALSE]

Tick == [pc : {"idle", "load", "eval", "save", "write"}, host : Host,
         start : Nat, verbs : Nat, upserts : SUBSET Key, deletes : SUBSET Key,
         key : Key, found : BOOLEAN]

\* Every component of the state has its type, and a tick about to write a key
\* has it among those it is to save.
TypeOK ==
  /\ table \in KvMap
  /\ now \in Nat /\ begun \in Nat /\ okTicks \in Nat
  /\ tick \in [Tickers -> Tick]
  /\ \A t \in Tickers : tick[t].pc = "write" => tick[t].key \in tick[t].upserts
  /\ onceTrue \in [Names -> Nat]
  /\ passed \in [Names -> Nat]

At(t, pc) == tick[t].pc = pc
AllIdle == \A t \in Tickers : At(t, "idle")

(***************************************************************************)
(* The tick                                                                *)
(***************************************************************************)
\* tick_start_ms is read before the rows are.
Start(t) ==
  /\ At(t, "idle")
  /\ begun < MaxTicks
  /\ begun' = begun + 1
  /\ tick' = [tick EXCEPT ![t] = [Rest EXCEPT !.pc = "load", !.start = now]]
  /\ UNCHANGED <<table, now, history>>

StartEval(t, kv) ==
  /\ At(t, "load")
  /\ tick' = [tick EXCEPT ![t].pc = "eval", ![t].host = Loaded(kv, tick[t].start)]
  /\ UNCHANGED <<table, now, begun, history>>

M_Load(t) == StartEval(t, Empty)
Load(t) == StartEval(t, table)

\* load_kv fails: the tick goes on with no rows.
LoadError(t) == "load" \in Faults /\ StartEval(t, Empty)

\* A verb that changes the working copy to h.
Verb(t, v, h) ==
  /\ v \in Verbs
  /\ At(t, "eval")
  /\ tick[t].verbs < MaxVerbs
  /\ tick' = [tick EXCEPT ![t].host = h, ![t].verbs = @ + 1]
  /\ UNCHANGED <<table, now, begun, okTicks>>

Set(t)  == \E k \in Raw, v \in Payloads :
             Verb(t, "set", SetKey(tick[t].host, k, v)) /\ UNCHANGED <<onceTrue, passed>>
Incr(t) == \E k \in Raw :
             Verb(t, "incr", IncrKey(tick[t].host, k, 1)) /\ UNCHANGED <<onceTrue, passed>>
Del(t)  == \E k \in Raw :
             Verb(t, "del", DelKey(tick[t].host, k)) /\ UNCHANGED <<onceTrue, passed>>
Mark(t) == \E n \in Names :
             Verb(t, "mark", MarkHost(tick[t].host, n)) /\ UNCHANGED <<onceTrue, passed>>

Once(t) == \E n \in Names :
  /\ Verb(t, "once", OnceHost(tick[t].host, n))
  /\ onceTrue' = IF OnceSays(tick[t].host, n)
                 THEN [onceTrue EXCEPT ![n] = @ + 1] ELSE onceTrue
  /\ UNCHANGED passed

Rate(t) == \E n \in Names :
  LET h == tick[t].host  start == tick[t].start IN
  /\ Verb(t, "rate", RateHost(h, n, MinMs, start))
  /\ passed' = IF RateLimited(h, n, MinMs, start)
               THEN passed ELSE [passed EXCEPT ![n] = start]
  /\ UNCHANGED onceTrue

\* The program comes to its end, or fails and nothing of its host is saved.
M_EvalOk(t) ==
  /\ At(t, "eval")
  /\ tick' = [tick EXCEPT ![t].pc = "save", ![t].upserts = ToUpsert(tick[t].host)]
  /\ UNCHANGED <<table, now, begun, history>>

EvalOk(t) ==
  /\ At(t, "eval")
  /\ tick' = [tick EXCEPT ![t].pc = "save",
                          ![t].upserts = ToUpsert(tick[t].host),
                          ![t].deletes = tick[t].host.deleted]
  /\ UNCHANGED <<table, now, begun, history>>

EvalFail(t) ==
  /\ "fail" \in Faults
  /\ At(t, "eval")
  /\ tick' = [tick EXCEPT ![t] = Rest]
  /\ UNCHANGED <<table, now, begun, history>>

(***************************************************************************)
(* save_kv                                                                 *)
(***************************************************************************)
\* For each dirty key a SELECT, then an UPDATE or an INSERT.
SaveFind(t) ==
  /\ At(t, "save")
  /\ \E k \in tick[t].upserts :
       tick' = [tick EXCEPT ![t].pc = "write", ![t].key = k, ![t].found = table[k] # Absent]
  /\ UNCHANGED <<table, now, begun, history>>

\* `?` leaves the other keys unsaved; the run is Ok all the same.
M_GiveUp(t) == tick' = [tick EXCEPT ![t].upserts = {}, ![t].deletes = {}]
GiveUp(t) == tick' = [tick EXCEPT ![t].pc = "save", ![t].upserts = {}, ![t].deletes = {}]

\* If the row came or went since the SELECT, the statement fails.
SaveWrite(t) ==
  LET k == tick[t].key IN
  /\ At(t, "write")
  /\ IF tick[t].found = (table[k] # Absent)
     THEN /\ table' = [table EXCEPT ![k] = tick[t].host.kv[k]]
          /\ tick' = [tick EXCEPT ![t].pc = "save", ![t].upserts = @ \ {k}]
     ELSE UNCHANGED table /\ GiveUp(t)
  /\ UNCHANGED <<now, begun, history>>

M_SaveDelete(t) ==
  /\ At(t, "save")
  /\ tick[t].upserts = {}
  /\ tick[t].deletes # {}
  /\ table' = [k \in Key |-> IF tick[t].host.kv[k] = Absent THEN Absent ELSE table[k]]
  /\ tick' = [tick EXCEPT ![t].deletes = {}]
  /\ UNCHANGED <<now, begun, history>>

SaveDelete(t) ==
  /\ At(t, "save")
  /\ tick[t].upserts = {}
  /\ \E k \in tick[t].deletes :
       /\ table' = [table EXCEPT ![k] = Absent]
       /\ tick' = [tick EXCEPT ![t].deletes = @ \ {k}]
  /\ UNCHANGED <<now, begun, history>>

\* A statement fails: an upsert ends the save, a delete is passed over.
SaveError(t) ==
  /\ "save" \in Faults
  /\ \/ /\ At(t, "write") \/ (At(t, "save") /\ tick[t].upserts # {})
        /\ GiveUp(t)
     \/ /\ At(t, "save") /\ tick[t].upserts = {}
        /\ \E k \in tick[t].deletes : tick' = [tick EXCEPT ![t].deletes = @ \ {k}]
  /\ UNCHANGED <<table, now, begun, history>>

\* complete_ok
Finish(t) ==
  /\ At(t, "save")
  /\ tick[t].upserts = {} /\ tick[t].deletes = {}
  /\ tick' = [tick EXCEPT ![t] = Rest]
  /\ okTicks' = okTicks + 1
  /\ UNCHANGED <<table, now, begun, onceTrue, passed>>

\* The task is aborted at an await or its process ends.  What an evaluation on
\* a blocking thread still computes is thrown away.
Abort(t) ==
  /\ "abort" \in Faults
  /\ ~At(t, "idle")
  /\ tick' = [tick EXCEPT ![t] = Rest]
  /\ UNCHANGED <<table, now, begun, history>>

TimePasses ==
  /\ now < MaxTime
  /\ now' = now + 1
  /\ UNCHANGED <<table, tick, begun, history>>

(***************************************************************************)
(* Specification                                                           *)
(***************************************************************************)
\* The epoch lies further back than any min-ms.
Init ==
  /\ table = Empty
  /\ now = MinMs
  /\ tick = [t \in Tickers |-> Rest]
  /\ begun = 0 /\ okTicks = 0
  /\ onceTrue = [n \in Names |-> 0]
  /\ passed = [n \in Names |-> 0]

Evaluate(t) == Set(t) \/ Incr(t) \/ Del(t) \/ Mark(t) \/ Once(t) \/ Rate(t)
Save(t) == SaveFind(t) \/ SaveWrite(t) \/ SaveDelete(t) \/ Finish(t)

TickStep(t) ==
  \/ Start(t) \/ Load(t) \/ Evaluate(t) \/ EvalOk(t) \/ Save(t)
  \/ LoadError(t) \/ EvalFail(t) \/ SaveError(t) \/ Abort(t)

Next == TimePasses \/ \E t \in Tickers : TickStep(t)

Spec == Init /\ [][Next]_vars

(***************************************************************************)
(* Properties                                                              *)
(***************************************************************************)
\* Between ticks the stored tick count is the number of ticks that ended Ok:
\* none is lost and none counted twice ("N (Nth tick of this vigy)").
CountsOkTicks == AllIdle => AsInt(table[TickCount]) = okTicks

\* vigy-once answers true for a name no more than once in the vigy's life
\* ("true exactly once per vigy lifetime").
OnceAtMostOnce == \A n \in Names : onceTrue[n] <= 1

\* Every tick begun has ended Ok or is under way.
NoneFailed == begun = okTicks + Cardinality({t \in Tickers : ~At(t, "idle")})

\* And so it is as long as no tick failed.
OnceUnlessFailed == NoneFailed => OnceAtMostOnce

\* Two ticks that vigy-rate-limited? lets pass for one name lie min-ms apart, as
\* long as no tick failed.
RateSpaced ==
  [][\A n \in Names :
       NoneFailed' /\ passed'[n] # passed[n] => passed'[n] - passed[n] >= MinMs]_vars

\* When a tick has saved, the rows are what its program saw of them last, key
\* for key: a write is "saved on tick end", and so is a removal.
SavedOnTickEnd ==
  \A t \in Tickers :
    At(t, "save") /\ tick[t].upserts = {} /\ tick[t].deletes = {} => table = tick[t].host.kv

\* A once or converged sentinel in the store stays there, whoever else ticks
\* and whatever fails, as long as no program removes it by its full name.
SentinelsStay ==
  [][\A n \in Names, k \in Key :
       k \in {OnceKey(n), MarkKey(n)} /\ table[k] # Absent => table'[k] # Absent]_vars

(***************************************************************************)
(* A single ticker's tick is the transaction TickTxn promises              *)
(***************************************************************************)
Only == CHOOSE t \in Tickers : TRUE

NoView == Absent

\* The tick takes effect where its program ends: from there on the rows are
\* read with the save that is still under way.
KvSeen ==
  IF tick[Only].pc \in {"save", "write"}
  THEN Flushed(table, tick[Only].upserts, tick[Only].deletes, tick[Only].host)
  ELSE table

ViewSeen == IF At(Only, "eval") THEN tick[Only].host.kv ELSE NoView

Txn == INSTANCE TickTxn WITH kv <- KvSeen, view <- ViewSeen

\* Statement by statement, tick after tick, the module does what TickTxn does.
TickIsTransaction == Txn!Spec

================================================================================
