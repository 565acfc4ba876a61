------------------------------- MODULE TicksProofs -------------------------------
(***************************************************************************)
(* What holds of Ticks for every program, every set of names and every     *)
(* number of ticks: its type invariant, and, when one ticker at a time     *)
(* ticks the vigy, that a tick is the transaction TickTxn specifies.       *)
(***************************************************************************)
EXTENDS Ticks, FiniteSetTheorems, TLAPS

(***************************************************************************)
(* Keys and hosts                                                          *)
(***************************************************************************)
LEMMA KeysTyped ==
  /\ TickCount \in Key /\ PrevTick \in Key /\ TickCount # PrevTick
  /\ \A n \in Names : Plain(n) \in Key /\ OnceKey(n) \in Key /\ MarkKey(n) \in Key
                      /\ RateKey(n) \in Key
<1>1. TickCount \in Key /\ PrevTick \in Key /\ TickCount # PrevTick
  BY DEF Key, TickCount, PrevTick
<1>2. \A n \in Names : Plain(n) \in Key /\ OnceKey(n) \in Key /\ MarkKey(n) \in Key
                       /\ RateKey(n) \in Key
  BY DEF Key, Plain, OnceKey, MarkKey, RateKey
<1> QED
  BY <1>1, <1>2

\* A program's own key is none of the runtime's keys and no sentinel.
LEMMA KeysApart ==
  ASSUME NEW n \in Names, NEW m \in Names
  PROVE  /\ Plain(n) # TickCount /\ Plain(n) # PrevTick
         /\ Plain(n) # OnceKey(m) /\ Plain(n) # MarkKey(m) /\ Plain(n) # RateKey(m)
         /\ OnceKey(n) # TickCount /\ MarkKey(n) # TickCount /\ RateKey(n) # TickCount
BY DEF Plain, OnceKey, MarkKey, RateKey, TickCount, PrevTick

LEMMA ValuesTyped ==
  ASSUME NEW x \in Value \cup {Absent}
  PROVE  /\ AsInt(x) \in Int
         /\ \A d \in Int : SaturatingAdd(AsInt(x), d) \in Int
<1>1. AsInt(x) \in Int
  BY DEF AsInt
<1>2. ASSUME NEW d \in Int PROVE SaturatingAdd(AsInt(x), d) \in Int
  <2> DEFINE a == AsInt(x)
  <2>1. a \in Int /\ MaxInt \in Int
    BY <1>1, HostAssumption
  <2> HIDE DEF a
  <2>2. SaturatingAdd(a, d) \in Int
    BY <2>1 DEF SaturatingAdd
  <2> QED
    BY <2>2 DEF a
<1> QED
  BY <1>1, <1>2

LEMMA HostTyped ==
  ASSUME NEW h \in Host, NEW k \in Key, NEW v \in Value
  PROVE  Buffered(h, k, v) \in Host /\ SetKey(h, k, v) \in Host /\ DelKey(h, k) \in Host
BY DEF Buffered, SetKey, DelKey, Host, KvMap

\* The host a tick starts with.
LEMMA LoadedTyped ==
  ASSUME NEW kv \in KvMap, NEW start \in Nat
  PROVE  Loaded(kv, start) \in Host
<1>1. AsInt(kv[TickCount]) + 1 \in Int
  BY KeysTyped DEF KvMap, AsInt
<1> QED
  BY <1>1, KeysTyped DEF Loaded, Host, KvMap, Value

LEMMA RestTyped == NoHost \in Host /\ Rest \in Tick /\ Rest.pc = "idle" /\ Empty \in KvMap
<1>1. Empty \in KvMap
  BY DEF Empty, KvMap
<1>2. NoHost \in Host
  BY <1>1 DEF NoHost, Host
<1> QED
  BY <1>1, <1>2, KeysTyped DEF Rest, Tick

(***************************************************************************)
(* What a verb does                                                        *)
(***************************************************************************)
\* A verb writes a value under one key, removes one, or does nothing; only
\* vigy-set, vigy-incr and vigy-del reach a key by its full name.
Sentinel == {k \in Key : \E n \in Names : k \in {OnceKey(n), MarkKey(n), RateKey(n)}}

VerbOn(h, g) ==
  \/ g = h
  \/ \E k \in Raw, v \in Value : g = SetKey(h, k, v)
  \/ \E k \in Raw : g = DelKey(h, k)
  \/ \E k \in Sentinel, v \in Value : g = Buffered(h, k, v)

LEMMA VerbShape ==
  ASSUME TypeOK, NEW t \in Tickers, Evaluate(t)
  PROVE  /\ At(t, "eval")
         /\ \E g \in Host : /\ VerbOn(tick[t].host, g)
                            /\ \E n \in Nat : tick' = [tick EXCEPT ![t].host = g, ![t].verbs = n]
         /\ UNCHANGED <<table, now, begun, okTicks>>
         /\ onceTrue' \in [Names -> Nat] /\ passed' \in [Names -> Nat]
<1> DEFINE h == tick[t].host
<1>0. tick[t] \in Tick /\ h \in Host /\ tick[t].start \in Nat /\ tick[t].verbs + 1 \in Nat
  BY DEF TypeOK, Tick
<1>1. Text \in Value /\ \A i \in Int : i \in Value
  BY DEF Value
<1>2. ASSUME NEW g, NEW v, Verb(t, v, g), g \in Host, VerbOn(h, g),
             onceTrue' \in [Names -> Nat], passed' \in [Names -> Nat]
      PROVE  /\ At(t, "eval")
             /\ \E f \in Host : /\ VerbOn(tick[t].host, f)
                                /\ \E n \in Nat : tick' = [tick EXCEPT ![t].host = f, ![t].verbs = n]
             /\ UNCHANGED <<table, now, begun, okTicks>>
             /\ onceTrue' \in [Names -> Nat] /\ passed' \in [Names -> Nat]
  <2>1. tick' = [tick EXCEPT ![t].host = g, ![t].verbs = tick[t].verbs + 1]
    BY <1>2 DEF Verb
  <2> QED
    BY <1>0, <1>2, <2>1 DEF Verb
<1>a. UNCHANGED <<onceTrue, passed>> => onceTrue' \in [Names -> Nat] /\ passed' \in [Names -> Nat]
  BY DEF TypeOK
<1>3. CASE Set(t)
  <2> PICK k \in Raw, v \in Payloads : Verb(t, "set", SetKey(h, k, v))
    BY <1>3 DEF Set
  <2>1. k \in Key /\ v \in Value
    BY TicksAssumption
  <2>2. SetKey(h, k, v) \in Host
    BY <1>0, <2>1, HostTyped
  <2>3. VerbOn(h, SetKey(h, k, v))
    BY <2>1 DEF VerbOn
  <2> QED
    BY <1>2, <1>3, <1>a, <2>2, <2>3 DEF Set
<1>4. CASE Incr(t)
  <2> PICK k \in Raw : Verb(t, "incr", IncrKey(h, k, 1))
    BY <1>4 DEF Incr
  <2> DEFINE v == SaturatingAdd(AsInt(h.kv[k]), 1)
  <2>1. k \in Key
    BY TicksAssumption
  <2>2. v \in Value
    <3>1. h.kv[k] \in Value \cup {Absent}
      BY <1>0, <2>1 DEF Host, KvMap
    <3>2. v \in Int
      BY <3>1, ValuesTyped
    <3> QED
      BY <1>1, <3>2
  <2>3. IncrKey(h, k, 1) = SetKey(h, k, v)
    BY DEF IncrKey
  <2> HIDE DEF v
  <2>4. IncrKey(h, k, 1) \in Host /\ VerbOn(h, IncrKey(h, k, 1))
    BY <1>0, <2>1, <2>2, <2>3, HostTyped DEF VerbOn
  <2> QED
    BY <1>2, <1>4, <1>a, <2>4 DEF Incr
<1>5. CASE Del(t)
  <2> PICK k \in Raw : Verb(t, "del", DelKey(h, k))
    BY <1>5 DEF Del
  <2>1. DelKey(h, k) \in Host
    BY <1>0, <1>1, HostTyped, TicksAssumption
  <2>2. VerbOn(h, DelKey(h, k))
    BY DEF VerbOn
  <2> QED
    BY <1>2, <1>5, <1>a, <2>1, <2>2 DEF Del
<1>6. CASE Mark(t)
  <2> PICK n \in Names : Verb(t, "mark", MarkHost(h, n))
    BY <1>6 DEF Mark
  <2>1. MarkHost(h, n) \in Host /\ VerbOn(h, MarkHost(h, n))
    BY <1>0, <1>1, HostTyped, KeysTyped DEF MarkHost, VerbOn, Sentinel
  <2> QED
    BY <1>2, <1>6, <1>a, <2>1 DEF Mark
<1>7. CASE Once(t)
  <2> PICK n \in Names : /\ Verb(t, "once", OnceHost(h, n))
                         /\ onceTrue' = IF OnceSays(h, n)
                                        THEN [onceTrue EXCEPT ![n] = @ + 1] ELSE onceTrue
                         /\ UNCHANGED passed
    BY <1>7 DEF Once
  <2>1. OnceHost(h, n) \in Host /\ VerbOn(h, OnceHost(h, n))
    BY <1>0, <1>1, HostTyped, KeysTyped DEF OnceHost, VerbOn, Sentinel
  <2>2. onceTrue' \in [Names -> Nat] /\ passed' \in [Names -> Nat]
    BY DEF TypeOK
  <2> QED
    BY <1>2, <2>1, <2>2
<1>8. CASE Rate(t)
  <2> PICK n \in Names : /\ Verb(t, "rate", RateHost(h, n, MinMs, tick[t].start))
                         /\ passed' = IF RateLimited(h, n, MinMs, tick[t].start)
                                      THEN passed ELSE [passed EXCEPT ![n] = tick[t].start]
                         /\ UNCHANGED onceTrue
    BY <1>8 DEF Rate
  <2>1. RateHost(h, n, MinMs, tick[t].start) \in Host
        /\ VerbOn(h, RateHost(h, n, MinMs, tick[t].start))
    <3>1. tick[t].start \in Value
      BY <1>0, <1>1
    <3>2. RateKey(n) \in Sentinel /\ RateKey(n) \in Key
      BY KeysTyped DEF Sentinel
    <3>3. Buffered(h, RateKey(n), tick[t].start) \in Host
      BY <1>0, <3>1, <3>2, HostTyped
    <3> QED
      BY <1>0, <3>1, <3>2, <3>3, Zenon DEF RateHost, VerbOn
  <2>2. onceTrue' \in [Names -> Nat] /\ passed' \in [Names -> Nat]
    BY <1>0 DEF TypeOK
  <2> QED
    BY <1>2, <2>1, <2>2
<1> QED
  BY <1>3, <1>4, <1>5, <1>6, <1>7, <1>8 DEF Evaluate

(***************************************************************************)
(* Typing                                                                  *)
(***************************************************************************)
LEMMA TypeInit == Init => TypeOK
BY RestTyped, TicksAssumption DEF Init, TypeOK

LEMMA TypeStep == TypeOK /\ [Next]_vars => TypeOK'
<1> SUFFICES ASSUME TypeOK, [Next]_vars PROVE TypeOK'
  OBVIOUS
<1> USE DEF history
<1>1. CASE TimePasses
  BY <1>1 DEF TimePasses, TypeOK
<1>2. ASSUME NEW t \in Tickers, TickStep(t) PROVE TypeOK'
  <2>0. /\ tick[t] \in Tick /\ tick[t].host \in Host /\ tick[t].start \in Nat
        /\ tick[t].upserts \subseteq Key /\ tick[t].deletes \subseteq Key
        /\ tick[t].key \in Key
        /\ \A u \in Tickers : tick[u].pc = "write" => tick[u].key \in tick[u].upserts
    BY DEF TypeOK, Tick
  \* It is enough to type the new tick of t and the rows.
  <2>1. ASSUME NEW new \in Tick, tick' = [tick EXCEPT ![t] = new],
               new.pc = "write" => new.key \in new.upserts
        PROVE  /\ tick' \in [Tickers -> Tick]
               /\ \A u \in Tickers : tick'[u].pc = "write" => tick'[u].key \in tick'[u].upserts
    BY <2>0, <2>1 DEF TypeOK
  <2>2. CASE Start(t)
    <3>1. [Rest EXCEPT !.pc = "load", !.start = now] \in Tick
          /\ [Rest EXCEPT !.pc = "load", !.start = now].pc # "write"
      BY RestTyped DEF TypeOK, Tick
    <3> QED
      BY <2>1, <2>2, <3>1 DEF Start, TypeOK
  <2>3. CASE Load(t) \/ LoadError(t)
    <3> PICK kv \in KvMap : StartEval(t, kv)
      BY <2>3, RestTyped DEF Load, LoadError, TypeOK
    <3> DEFINE l == Loaded(kv, tick[t].start)
    <3>1. l \in Host
      BY <2>0, LoadedTyped
    <3> HIDE DEF l
    <3>2. [tick[t] EXCEPT !.pc = "eval", !.host = l] \in Tick
          /\ [tick[t] EXCEPT !.pc = "eval", !.host = l].pc # "write"
      BY <2>0, <3>1 DEF Tick
    <3>3. tick' = [tick EXCEPT ![t] = [tick[t] EXCEPT !.pc = "eval", !.host = l]]
      BY DEF StartEval, l
    <3> QED
      BY <2>1, <3>2, <3>3 DEF StartEval, TypeOK
  <2>4. CASE Evaluate(t)
    <3> PICK g \in Host, n \in Nat : tick' = [tick EXCEPT ![t].host = g, ![t].verbs = n]
      BY <2>4, VerbShape
    <3>1. [tick[t] EXCEPT !.host = g, !.verbs = n] \in Tick
          /\ [tick[t] EXCEPT !.host = g, !.verbs = n].pc # "write"
      BY <2>0, <2>4, VerbShape DEF Tick, At
    <3>2. tick' = [tick EXCEPT ![t] = [tick[t] EXCEPT !.host = g, !.verbs = n]]
      OBVIOUS
    <3> QED
      BY <2>1, <2>4, <3>1, <3>2, VerbShape DEF TypeOK
  <2>5. CASE EvalOk(t)
    <3> DEFINE new == [tick[t] EXCEPT !.pc = "save", !.upserts = ToUpsert(tick[t].host),
                                      !.deletes = tick[t].host.deleted]
    <3>1. ToUpsert(tick[t].host) \subseteq Key /\ tick[t].host.deleted \subseteq Key
      BY <2>0 DEF ToUpsert, Host
    <3>2. new \in Tick /\ new.pc # "write"
      BY <2>0, <3>1 DEF Tick
    <3>3. tick' = [tick EXCEPT ![t] = new]
      BY <2>5 DEF EvalOk
    <3> HIDE DEF new
    <3> QED
      BY <2>1, <2>5, <3>2, <3>3 DEF EvalOk, TypeOK
  <2>6. CASE EvalFail(t) \/ Abort(t)
    BY <2>1, <2>6, RestTyped DEF EvalFail, Abort, TypeOK
  <2>7. CASE SaveFind(t)
    <3> PICK k \in tick[t].upserts :
          tick' = [tick EXCEPT ![t].pc = "write", ![t].key = k, ![t].found = table[k] # Absent]
      BY <2>7 DEF SaveFind
    <3> DEFINE f == table[k] # Absent
               new == [tick[t] EXCEPT !.pc = "write", !.key = k, !.found = f]
    <3>1. f \in BOOLEAN /\ k \in Key
      BY <2>0
    <3>2. tick' = [tick EXCEPT ![t] = new]
      OBVIOUS
    <3> HIDE DEF f
    <3>3. new \in Tick /\ (new.pc = "write" => new.key \in new.upserts)
      BY <2>0, <3>1 DEF Tick
    <3> HIDE DEF new
    <3> QED
      BY <2>1, <2>7, <3>2, <3>3 DEF SaveFind, TypeOK
  <2>8. ASSUME GiveUp(t), UNCHANGED <<table, now, begun, history>> PROVE TypeOK'
    <3> DEFINE new == [tick[t] EXCEPT !.pc = "save", !.upserts = {}, !.deletes = {}]
    <3>1. new \in Tick /\ new.pc # "write"
      BY <2>0 DEF Tick
    <3>2. tick' = [tick EXCEPT ![t] = new]
      BY <2>8 DEF GiveUp
    <3> HIDE DEF new
    <3> QED
      BY <2>1, <2>8, <3>1, <3>2 DEF TypeOK
  <2>9. CASE SaveWrite(t)
    <3> DEFINE k == tick[t].key
               new == [tick[t] EXCEPT !.pc = "save", !.upserts = @ \ {k}]
    <3>1. CASE /\ table' = [table EXCEPT ![k] = tick[t].host.kv[k]]
               /\ tick' = [tick EXCEPT ![t].pc = "save", ![t].upserts = @ \ {k}]
      <4>1. new \in Tick /\ new.pc # "write"
        BY <2>0 DEF Tick
      <4>2. tick' = [tick EXCEPT ![t] = new]
        BY <3>1
      <4>3. table' \in KvMap
        BY <2>0, <3>1 DEF TypeOK, KvMap, Host
      <4> HIDE DEF new
      <4> QED
        BY <2>1, <2>9, <4>1, <4>2, <4>3 DEF SaveWrite, TypeOK
    <3>2. CASE UNCHANGED table /\ GiveUp(t)
      BY <2>8, <2>9, <3>2 DEF SaveWrite
    <3> QED
      BY <2>9, <3>1, <3>2 DEF SaveWrite
  <2>10. ASSUME NEW k, tick' = [tick EXCEPT ![t].deletes = @ \ {k}], At(t, "save")
         PROVE  /\ tick' \in [Tickers -> Tick]
                /\ \A u \in Tickers : tick'[u].pc = "write" => tick'[u].key \in tick'[u].upserts
    <3> DEFINE new == [tick[t] EXCEPT !.deletes = @ \ {k}]
    <3>1. new \in Tick /\ new.pc # "write"
      BY <2>0, <2>10 DEF Tick, At
    <3>2. tick' = [tick EXCEPT ![t] = new]
      BY <2>10
    <3> HIDE DEF new
    <3> QED
      BY <2>1, <3>1, <3>2
  <2>11. CASE SaveDelete(t)
    <3> PICK k \in tick[t].deletes : /\ table' = [table EXCEPT ![k] = Absent]
                                     /\ tick' = [tick EXCEPT ![t].deletes = @ \ {k}]
      BY <2>11 DEF SaveDelete
    <3>1. table' \in KvMap
      BY DEF TypeOK, KvMap
    <3> QED
      BY <2>10, <2>11, <3>1 DEF SaveDelete, TypeOK
  <2>12. CASE SaveError(t)
    <3>1. CASE GiveUp(t)
      BY <2>8, <2>12, <3>1 DEF SaveError
    <3>2. CASE /\ At(t, "save")
               /\ \E k \in tick[t].deletes : tick' = [tick EXCEPT ![t].deletes = @ \ {k}]
      BY <2>10, <2>12, <3>2 DEF SaveError, TypeOK
    <3> QED
      BY <2>12, <3>1, <3>2 DEF SaveError
  <2>13. CASE Finish(t)
    BY <2>1, <2>13, RestTyped DEF Finish, TypeOK
  <2> QED
    BY <1>2, <2>2, <2>3, <2>4, <2>5, <2>6, <2>7, <2>9, <2>11, <2>12, <2>13
       DEF TickStep, Save
<1>3. CASE UNCHANGED vars
  BY <1>3 DEF vars, TypeOK
<1> QED
  BY <1>1, <1>2, <1>3 DEF Next

\* Every reachable state is well typed, whatever ticks overlap, fail or are
\* aborted; in particular a save that gives up on an error leaves no key behind.
THEOREM TypeCorrect == Spec => []TypeOK
BY TypeInit, TypeStep, PTL DEF Spec

(***************************************************************************)
(* A tick is a transaction                                                 *)
(***************************************************************************)
\* One task at a time ticks the vigy, the store answers and no tick is cut
\* short (its program may fail), and the program passes its own names to the
\* verbs, never a sentinel's full name or a key of the runtime.
OneTicker == \E t : Tickers = {t}
OnlyProgramsFail == Faults \subseteq {"fail"}
OwnKeysOnly == \A k \in Raw : \E n \in Names : k = Plain(n)
Orderly == OneTicker /\ OnlyProgramsFail /\ OwnKeysOnly

\* kv, kv_dirty and kv_deleted agree: what the host holds of a key it has not
\* touched is the row, and what it has touched it will save.
Coherent(h) ==
  /\ \A k \in h.dirty : h.kv[k] # Absent
  /\ \A k \in h.deleted : k \in Raw /\ h.kv[k] = Absent
  /\ \A k \in Key : k \notin h.dirty /\ k \notin h.deleted => h.kv[k] = table[k]

\* The rows differ from the host only where the save has still to go.
Converging(q) ==
  /\ \A k \in q.upserts : k \notin q.deletes
  /\ \A k \in q.deletes : q.host.kv[k] = Absent
  /\ \A k \in Key : k \notin q.upserts /\ k \notin q.deletes => q.host.kv[k] = table[k]

TxnInv ==
  /\ TypeOK
  /\ At(Only, "eval") => Coherent(tick[Only].host)
  /\ tick[Only].pc \in {"save", "write"} => Converging(tick[Only])
  /\ At(Only, "write") => tick[Only].found = (table[tick[Only].key] # Absent)
  /\ tick[Only].pc \in {"idle", "load", "eval"} => AsInt(table[TickCount]) = okTicks
  /\ tick[Only].pc \in {"eval", "save", "write"} =>
       tick[Only].host.kv[TickCount] = okTicks + 1

\* What save_kv's SELECT makes of a tick.
LEMMA FindFields ==
  ASSUME NEW q \in Tick, NEW k, NEW f
  PROVE  /\ [q EXCEPT !.pc = "write", !.key = k, !.found = f].pc = "write"
         /\ [q EXCEPT !.pc = "write", !.key = k, !.found = f].key = k
         /\ [q EXCEPT !.pc = "write", !.key = k, !.found = f].found = f
         /\ [q EXCEPT !.pc = "write", !.key = k, !.found = f].host = q.host
         /\ [q EXCEPT !.pc = "write", !.key = k, !.found = f].upserts = q.upserts
         /\ [q EXCEPT !.pc = "write", !.key = k, !.found = f].deletes = q.deletes
BY DEF Tick

LEMMA SaveFindShape ==
  ASSUME TypeOK, NEW t \in Tickers, SaveFind(t)
  PROVE  /\ UNCHANGED <<table, now, begun, okTicks, onceTrue, passed>> /\ At(t, "save")
         /\ tick'[t].pc = "write" /\ tick'[t].host = tick[t].host
         /\ tick'[t].upserts = tick[t].upserts /\ tick'[t].deletes = tick[t].deletes
         /\ tick'[t].key \in tick[t].upserts
         /\ tick'[t].found = (table[tick'[t].key] # Absent)
<1> PICK k \in tick[t].upserts :
      tick' = [tick EXCEPT ![t].pc = "write", ![t].key = k, ![t].found = table[k] # Absent]
  BY DEF SaveFind
<1> DEFINE q == tick[t]
           f == table[k] # Absent
           new == [q EXCEPT !.pc = "write", !.key = k, !.found = f]
<1>1. q \in Tick
  BY DEF TypeOK
<1>2. tick' = [tick EXCEPT ![t] = new]
  OBVIOUS
<1>3. tick'[t] = new
  BY <1>2 DEF TypeOK
<1>4. /\ new.pc = "write" /\ new.key = k /\ new.found = f
      /\ new.host = q.host /\ new.upserts = q.upserts /\ new.deletes = q.deletes
  <2> HIDE DEF f, q
  <2> QED
    BY <1>1, FindFields
<1>5. UNCHANGED <<table, now, begun, okTicks, onceTrue, passed>> /\ At(t, "save")
  BY DEF SaveFind, history
<1> HIDE DEF new
<1>6. tick'[t].pc = "write" /\ tick'[t].host = q.host
  BY <1>3, <1>4
<1>7. tick'[t].upserts = q.upserts /\ tick'[t].deletes = q.deletes
  BY <1>3, <1>4
<1>8. tick'[t].key = k /\ tick'[t].found = f
  BY <1>3, <1>4, Zenon
<1>9. tick'[t].found = (table[tick'[t].key] # Absent)
  <2>1. table[tick'[t].key] = table[k]
    BY <1>8
  <2> QED
    BY <1>8, <2>1, SMT
<1> QED
  BY <1>5, <1>6, <1>7, <1>8, <1>9

LEMMA OnlyTicker ==
  ASSUME Orderly
  PROVE  Tickers = {Only}
BY DEF Orderly, OneTicker, Only

LEMMA TxnInit ==
  ASSUME Orderly
  PROVE  Init => TxnInv
<1> SUFFICES ASSUME Init PROVE TxnInv
  OBVIOUS
<1>1. TypeOK
  BY TypeInit
<1>2. At(Only, "idle")
  BY OnlyTicker, RestTyped DEF Init, At
<1>3. AsInt(table[TickCount]) = okTicks
  BY KeysTyped, HostAssumption DEF Init, Empty, AsInt
<1> QED
  BY <1>1, <1>2, <1>3 DEF TxnInv, At

\* A verb keeps a host coherent and the runtime's keys as they are.
LEMMA VerbKeepsCoherent ==
  ASSUME Orderly, NEW h \in Host, NEW g \in Host, VerbOn(h, g), Coherent(h)
  PROVE  Coherent(g) /\ g.kv[TickCount] = h.kv[TickCount]
<1>0. /\ \A v \in Value : v # Absent
      /\ \A k \in Raw : k \in Key /\ k # TickCount /\ k \notin Sentinel
      /\ \A k \in Sentinel : k \in Key /\ k # TickCount
      /\ TickCount \in Key
      /\ h.kv \in KvMap
  <2>1. \A v \in Value : v # Absent
    BY HostAssumption DEF Value
  <2>2. \A k \in Raw : k \in Key /\ k # TickCount /\ k \notin Sentinel
    BY TicksAssumption, KeysApart DEF Orderly, OwnKeysOnly, Sentinel
  <2>3. \A k \in Sentinel : k \in Key /\ k # TickCount
    BY KeysApart DEF Sentinel
  <2> QED
    BY <2>1, <2>2, <2>3, KeysTyped DEF Host
<1>1. ASSUME NEW k \in Raw, NEW v \in Value, g = SetKey(h, k, v)
      PROVE  Coherent(g) /\ g.kv[TickCount] = h.kv[TickCount]
  BY <1>0, <1>1 DEF SetKey, Coherent, KvMap
<1>2. ASSUME NEW k \in Raw, g = DelKey(h, k)
      PROVE  Coherent(g) /\ g.kv[TickCount] = h.kv[TickCount]
  BY <1>0, <1>2 DEF DelKey, Coherent, KvMap
<1>3. ASSUME NEW k \in Sentinel, NEW v \in Value, g = Buffered(h, k, v)
      PROVE  Coherent(g) /\ g.kv[TickCount] = h.kv[TickCount]
  BY <1>0, <1>3 DEF Buffered, Coherent, KvMap
<1>4. CASE g = h
  BY <1>4
<1> QED
  BY <1>1, <1>2, <1>3, <1>4 DEF VerbOn

\* The host load_kv's rows give is coherent and counts this tick.
LEMMA LoadedCoherent ==
  ASSUME TypeOK, NEW start \in Nat
  PROVE  /\ Coherent(Loaded(table, start))
         /\ Loaded(table, start).kv[TickCount] = AsInt(table[TickCount]) + 1
<1>1. AsInt(table[TickCount]) + 1 \in Int /\ Absent \notin Int
  BY KeysTyped, HostAssumption DEF TypeOK, KvMap, AsInt
<1> QED
  BY <1>1, KeysTyped DEF Loaded, Coherent, TypeOK, KvMap

LEMMA TxnStep ==
  ASSUME Orderly
  PROVE  TxnInv /\ [Next]_vars => TxnInv'
<1> SUFFICES ASSUME TxnInv, [Next]_vars PROVE TxnInv'
  OBVIOUS
<1> USE DEF history
<1>0. TypeOK /\ TypeOK'
  BY TypeStep DEF TxnInv
<1>a. Only \in Tickers /\ tick[Only] \in Tick /\ tick[Only].host \in Host
  BY <1>0, OnlyTicker DEF TypeOK, Tick
<1>b. okTicks \in Nat
  BY <1>0 DEF TypeOK
<1>1. CASE TimePasses
  BY <1>0, <1>1 DEF TimePasses, TxnInv, At, Coherent, Converging
<1>2. CASE TickStep(Only)
  <2>1. CASE Start(Only)
    <3>1. /\ UNCHANGED <<table, okTicks>> /\ At(Only, "idle")
          /\ tick'[Only].pc = "load"
      BY <1>0, <1>a, <2>1, RestTyped DEF Start, TypeOK, Tick
    <3> QED
      BY <1>0, <3>1 DEF TxnInv, At
  <2>2. CASE Load(Only)
    <3>1. /\ UNCHANGED <<table, okTicks>> /\ At(Only, "load")
          /\ tick'[Only].pc = "eval" /\ tick'[Only].host = Loaded(table, tick[Only].start)
      BY <1>0, <1>a, <2>2 DEF Load, StartEval, TypeOK, Tick
    <3>2. /\ Coherent(Loaded(table, tick[Only].start))
          /\ Loaded(table, tick[Only].start).kv[TickCount] = okTicks + 1
      BY <1>0, <1>a, <3>1, LoadedCoherent DEF TxnInv, At, Tick
    <3> QED
      BY <1>0, <3>1, <3>2 DEF TxnInv, At, Coherent
  <2>3. CASE Evaluate(Only)
    <3> PICK g \in Host, n \in Nat :
          /\ VerbOn(tick[Only].host, g)
          /\ tick' = [tick EXCEPT ![Only].host = g, ![Only].verbs = n]
      BY <1>0, <1>a, <2>3, VerbShape
    <3>1. /\ UNCHANGED <<table, okTicks>> /\ At(Only, "eval")
          /\ tick'[Only].pc = "eval" /\ tick'[Only].host = g
      BY <1>0, <1>a, <2>3, VerbShape DEF TypeOK, Tick, At
    <3>2. Coherent(g) /\ g.kv[TickCount] = tick[Only].host.kv[TickCount]
      BY <1>a, <3>1, VerbKeepsCoherent DEF TxnInv
    <3> QED
      BY <1>0, <3>1, <3>2 DEF TxnInv, At, Coherent
  <2>4. CASE EvalOk(Only)
    <3> DEFINE h == tick[Only].host
    <3>1. /\ UNCHANGED <<table, okTicks>> /\ At(Only, "eval")
          /\ tick'[Only].pc = "save" /\ tick'[Only].host = h
          /\ tick'[Only].upserts = ToUpsert(h) /\ tick'[Only].deletes = h.deleted
      BY <1>0, <1>a, <2>4 DEF EvalOk, TypeOK, Tick
    <3>2. Coherent(h)
      BY <3>1 DEF TxnInv
    <3>3. Converging(tick[Only])'
      BY <3>1, <3>2 DEF Coherent, Converging, ToUpsert
    <3> QED
      BY <1>0, <3>1, <3>3 DEF TxnInv, At
  <2>5. CASE EvalFail(Only)
    <3>1. /\ UNCHANGED <<table, okTicks>> /\ At(Only, "eval")
          /\ tick'[Only].pc = "idle"
      BY <1>0, <1>a, <2>5, RestTyped DEF EvalFail, TypeOK
    <3> QED
      BY <1>0, <3>1 DEF TxnInv, At
  <2>6. CASE SaveFind(Only)
    <3>1. /\ UNCHANGED <<table, okTicks>> /\ At(Only, "save")
          /\ tick'[Only].pc = "write" /\ tick'[Only].host = tick[Only].host
          /\ tick'[Only].upserts = tick[Only].upserts
          /\ tick'[Only].deletes = tick[Only].deletes
      BY <1>0, <1>a, <2>6, SaveFindShape
    <3>2. Converging(tick[Only])'
      BY <3>1 DEF TxnInv, At, Converging
    <3>3. (At(Only, "write") => tick[Only].found = (table[tick[Only].key] # Absent))'
      <4>1. tick'[Only].found = (table[tick'[Only].key] # Absent) /\ UNCHANGED table
        BY <1>0, <1>a, <2>6, SaveFindShape
      <4> QED
        BY <4>1, Zenon
    <3> QED
      BY <1>0, <3>1, <3>2, <3>3 DEF TxnInv, At
  <2>7. CASE SaveWrite(Only)
    <3> DEFINE k == tick[Only].key  h == tick[Only].host
    <3>0. At(Only, "write") /\ k \in tick[Only].upserts /\ k \in Key
          /\ tick[Only].found = (table[k] # Absent)
      BY <1>0, <1>a, <2>7 DEF SaveWrite, TxnInv, TypeOK, At, Tick
    <3>1. /\ table' = [table EXCEPT ![k] = h.kv[k]]
          /\ tick' = [tick EXCEPT ![Only].pc = "save", ![Only].upserts = @ \ {k}]
      BY <2>7, <3>0 DEF SaveWrite
    <3>2. /\ UNCHANGED okTicks
          /\ tick'[Only].pc = "save" /\ tick'[Only].host = h
          /\ tick'[Only].upserts = tick[Only].upserts \ {k}
          /\ tick'[Only].deletes = tick[Only].deletes
      BY <1>0, <1>a, <2>7, <3>1 DEF SaveWrite, TypeOK, Tick
    <3>3. \A j \in Key : table'[j] = IF j = k THEN h.kv[k] ELSE table[j]
      BY <1>0, <3>0, <3>1 DEF TypeOK, KvMap
    <3>4. Converging(tick[Only])'
      BY <3>0, <3>2, <3>3 DEF TxnInv, At, Converging
    <3> QED
      BY <1>0, <3>0, <3>2, <3>4 DEF TxnInv, At
  <2>8. CASE SaveDelete(Only)
    <3> PICK k \in tick[Only].deletes :
          /\ table' = [table EXCEPT ![k] = Absent]
          /\ tick' = [tick EXCEPT ![Only].deletes = @ \ {k}]
      BY <2>8 DEF SaveDelete
    <3> DEFINE h == tick[Only].host
    <3>1. /\ UNCHANGED okTicks /\ At(Only, "save")
          /\ tick'[Only].pc = "save" /\ tick'[Only].host = h
          /\ tick'[Only].upserts = tick[Only].upserts
          /\ tick'[Only].deletes = tick[Only].deletes \ {k}
      BY <1>0, <1>a, <2>8 DEF SaveDelete, TypeOK, Tick, At
    <3>2. \A j \in Key : table'[j] = IF j = k THEN Absent ELSE table[j]
      BY <1>0 DEF TypeOK, KvMap
    <3>3. Converging(tick[Only])'
      BY <3>1, <3>2 DEF TxnInv, At, Converging
    <3> QED
      BY <1>0, <3>1, <3>3 DEF TxnInv, At
  <2>9. CASE Finish(Only)
    <3>1. /\ UNCHANGED table /\ okTicks' = okTicks + 1 /\ At(Only, "save")
          /\ tick'[Only].pc = "idle"
          /\ tick[Only].upserts = {} /\ tick[Only].deletes = {}
      BY <1>0, <1>a, <2>9, RestTyped DEF Finish, TypeOK
    <3>2. table[TickCount] = okTicks + 1
      BY <3>1, KeysTyped DEF TxnInv, At, Converging
    <3>3. AsInt(table[TickCount])' = okTicks'
      BY <1>b, <3>1, <3>2 DEF AsInt
    <3> QED
      BY <1>0, <3>1, <3>3 DEF TxnInv, At
  <2>10. ~LoadError(Only) /\ ~SaveError(Only) /\ ~Abort(Only)
    BY DEF Orderly, OnlyProgramsFail, LoadError, SaveError, Abort
  <2> QED
    BY <1>2, <2>1, <2>2, <2>3, <2>4, <2>5, <2>6, <2>7, <2>8, <2>9, <2>10 DEF TickStep, Save
<1>3. CASE UNCHANGED vars
  BY <1>0, <1>3 DEF vars, TxnInv, At, Coherent, Converging
<1> QED
  BY <1>1, <1>2, <1>3, OnlyTicker DEF Next

LEMMA TxnInvariant ==
  ASSUME Orderly
  PROVE  Spec => []TxnInv
BY TxnInit, TxnStep, PTL DEF Spec

\* run_once_with counts every tick that ends Ok, and only those, under
\* __sys::tick_count: no count is lost to a failed tick or to save_kv's
\* statement-by-statement writes.
THEOREM EveryOkTickCounted ==
  ASSUME Orderly
  PROVE  Spec => []CountsOkTicks
<1>1. TxnInv => CountsOkTicks
  BY OnlyTicker DEF TxnInv, CountsOkTicks, AllIdle, At
<1> QED
  BY <1>1, TxnInvariant, PTL

\* When save_kv is through, the rows are the program's last view, key for key.
THEOREM WritesReachTheRows ==
  ASSUME Orderly
  PROVE  Spec => []SavedOnTickEnd
<1>1. TxnInv => SavedOnTickEnd
  <2> SUFFICES ASSUME TxnInv, At(Only, "save"),
                      tick[Only].upserts = {}, tick[Only].deletes = {}
               PROVE  table = tick[Only].host.kv
    BY OnlyTicker DEF SavedOnTickEnd
  <2>1. \A k \in Key : table[k] = tick[Only].host.kv[k]
    BY DEF TxnInv, At, Converging
  <2>2. table \in KvMap /\ tick[Only].host.kv \in KvMap
    BY OnlyTicker DEF TxnInv, TypeOK, Tick, Host
  <2> QED
    BY <2>1, <2>2 DEF KvMap
<1> QED
  BY <1>1, TxnInvariant, PTL

\* While a tick saves, TickTxn already sees the rows it is saving.
LEMMA SeenWhileSaving ==
  ASSUME TxnInv, Orderly, tick[Only].pc \in {"save", "write"}
  PROVE  KvSeen = tick[Only].host.kv
<1>1. Converging(tick[Only]) /\ tick[Only].host.kv \in KvMap
  BY OnlyTicker DEF TxnInv, TypeOK, Tick, Host
<1>2. ASSUME NEW k \in Key
      PROVE  (IF k \in tick[Only].deletes THEN Absent
              ELSE IF k \in tick[Only].upserts THEN tick[Only].host.kv[k] ELSE table[k])
               = tick[Only].host.kv[k]
  BY <1>1 DEF Converging
<1>3. KvSeen = [k \in Key |-> tick[Only].host.kv[k]]
  BY <1>2 DEF KvSeen, Flushed
<1> QED
  BY <1>1, <1>3 DEF KvMap

\* TickTxn speaks of the same keys and values.
LEMMA SameHost ==
  /\ Txn!Key = Key /\ Txn!Value = Value /\ Txn!Empty = Empty
  /\ Txn!TickCount = TickCount /\ Txn!PrevTick = PrevTick
  /\ \A x : Txn!AsInt(x) = AsInt(x)
<1>1. Txn!TickCount = TickCount /\ Txn!PrevTick = PrevTick
  BY DEF Txn!TickCount, TickCount, Txn!PrevTick, PrevTick
<1>2. Txn!Key = Key
  BY <1>1 DEF Txn!Key, Key
<1> QED
  BY <1>1, <1>2 DEF Txn!Value, Value, Txn!Empty, Empty, Txn!AsInt, AsInt

LEMMA TxnStepRefines ==
  ASSUME Orderly
  PROVE  TxnInv /\ TxnInv' /\ [Next]_vars => [Txn!Next]_(Txn!vars)
<1> SUFFICES ASSUME TxnInv, TxnInv', [Next]_vars PROVE [Txn!Next]_(Txn!vars)
  OBVIOUS
<1> USE DEF history
<1>0. TypeOK /\ TypeOK'
  BY DEF TxnInv
<1>a. /\ Only \in Tickers /\ tick[Only] \in Tick /\ tick[Only].host \in Host
      /\ tick[Only].host.kv \in KvMap /\ tick[Only].start \in Nat
  BY <1>0, OnlyTicker DEF TypeOK, Tick, Host
<1>b. \A h : h \in Host => h.kv # NoView
  BY HostAssumption DEF NoView, Host
<1>s. (tick[Only].pc \in {"save", "write"})' => KvSeen' = tick'[Only].host.kv
  <2>1. ASSUME (tick[Only].pc \in {"save", "write"})'
        PROVE  KvSeen' = tick'[Only].host.kv
    <3>1. Converging(tick[Only])' /\ tick'[Only].host.kv \in KvMap
      BY <1>0, <1>a, <2>1 DEF TxnInv, TypeOK, Tick, Host
    <3>2. ASSUME NEW k \in Key
          PROVE  (IF k \in tick'[Only].deletes THEN Absent
                  ELSE IF k \in tick'[Only].upserts THEN tick'[Only].host.kv[k] ELSE table'[k])
                   = tick'[Only].host.kv[k]
      BY <3>1 DEF Converging
    <3>3. KvSeen' = [k \in Key |-> tick'[Only].host.kv[k]]
      BY <2>1, <3>2 DEF KvSeen, Flushed
    <3> QED
      BY <3>1, <3>3 DEF KvMap
  <2> QED
    BY <2>1
<1>1. CASE TimePasses
  BY <1>1 DEF TimePasses, Txn!vars, KvSeen, ViewSeen, At
<1>2. CASE TickStep(Only)
  <2>1. CASE Start(Only)
    <3>1. UNCHANGED table /\ At(Only, "idle") /\ tick'[Only].pc = "load"
      BY <1>0, <1>a, <2>1, RestTyped DEF Start, TypeOK, Tick
    <3> QED
      BY <3>1 DEF Txn!vars, KvSeen, ViewSeen, At
  \* The working copy is loaded: the transaction begins.
  <2>2. CASE Load(Only)
    <3>1. /\ UNCHANGED table /\ At(Only, "load")
          /\ tick'[Only].pc = "eval" /\ tick'[Only].host = Loaded(table, tick[Only].start)
      BY <1>0, <1>a, <2>2 DEF Load, StartEval, TypeOK, Tick
    <3>2. KvSeen = table /\ KvSeen' = table
      BY <3>1 DEF KvSeen, At
    <3>3. ViewSeen = NoView /\ ViewSeen' = Loaded(table, tick[Only].start).kv
      BY <3>1 DEF ViewSeen, At
    <3>4. /\ ViewSeen' = [table EXCEPT ![TickCount] = AsInt(table[TickCount]) + 1,
                                       ![PrevTick] = tick[Only].start]
          /\ ViewSeen'[PrevTick] = tick[Only].start
      BY <1>0, <3>3, KeysTyped DEF Loaded, TypeOK, KvMap
    <3>5. ViewSeen' # NoView
      BY <1>0, <1>a, <1>b, <3>3, LoadedTyped DEF TypeOK
    <3>6. Txn!Begin
      BY <1>a, <3>2, <3>3, <3>4, <3>5, SameHost DEF Txn!Begin
    <3> QED
      BY <3>6 DEF Txn!Next
  <2>3. CASE Evaluate(Only)
    <3> PICK g \in Host, n \in Nat :
          /\ VerbOn(tick[Only].host, g)
          /\ tick' = [tick EXCEPT ![Only].host = g, ![Only].verbs = n]
      BY <1>0, <1>a, <2>3, VerbShape
    <3>1. /\ UNCHANGED table /\ At(Only, "eval")
          /\ tick'[Only].pc = "eval" /\ tick'[Only].host = g
      BY <1>0, <1>a, <2>3, VerbShape DEF TypeOK, Tick, At
    <3> DEFINE h == tick[Only].host
    <3>2. /\ KvSeen = table /\ KvSeen' = table
          /\ ViewSeen = h.kv /\ ViewSeen' = g.kv
      BY <3>1 DEF KvSeen, ViewSeen, At
    <3>3. ASSUME NEW k \in Key, NEW v \in Value \cup {Absent}, g.kv = [h.kv EXCEPT ![k] = v]
          PROVE  Txn!Write
      <4>1. g.kv[k] = v
        BY <1>a, <3>3 DEF KvMap
      <4>2. ViewSeen # NoView /\ ViewSeen' # NoView
        BY <1>a, <1>b, <3>2
      <4> QED
        BY <3>2, <3>3, <4>1, <4>2, SameHost DEF Txn!Write
    <3>4. CASE g = h
      BY <3>2, <3>4 DEF Txn!vars
    <3>5. CASE \E k \in Raw, v \in Value : g = SetKey(h, k, v)
      BY <3>3, <3>5, TicksAssumption DEF SetKey, Txn!Next
    <3>6. CASE \E k \in Raw : g = DelKey(h, k)
      BY <3>3, <3>6, TicksAssumption DEF DelKey, Txn!Next
    <3>7. CASE \E k \in Sentinel, v \in Value : g = Buffered(h, k, v)
      BY <3>3, <3>7 DEF Buffered, Sentinel, Txn!Next
    <3> QED
      BY <3>4, <3>5, <3>6, <3>7 DEF VerbOn
  \* The program ends: the transaction commits.
  <2>4. CASE EvalOk(Only)
    <3>1. /\ UNCHANGED table /\ At(Only, "eval")
          /\ tick'[Only].pc = "save" /\ tick'[Only].host = tick[Only].host
      BY <1>0, <1>a, <2>4 DEF EvalOk, TypeOK, Tick
    <3>2. ViewSeen = tick[Only].host.kv /\ ViewSeen' = NoView
      BY <3>1 DEF ViewSeen, At
    <3>3. KvSeen' = tick[Only].host.kv
      BY <1>s, <3>1
    <3> QED
      BY <1>a, <1>b, <3>2, <3>3 DEF Txn!Commit, Txn!Next
  <2>5. CASE EvalFail(Only)
    <3>1. UNCHANGED table /\ At(Only, "eval") /\ tick'[Only].pc = "idle"
      BY <1>0, <1>a, <2>5, RestTyped DEF EvalFail, TypeOK
    <3>2. /\ KvSeen = table /\ KvSeen' = table
          /\ ViewSeen = tick[Only].host.kv /\ ViewSeen' = NoView
      BY <3>1 DEF KvSeen, ViewSeen, At
    <3> QED
      BY <1>a, <1>b, <3>2 DEF Txn!Discard, Txn!Next
  \* Statement by statement the rows approach what is already seen.
  <2>6. CASE SaveFind(Only) \/ SaveWrite(Only) \/ SaveDelete(Only)
    <3>1. /\ tick[Only].pc \in {"save", "write"} /\ tick'[Only].pc \in {"save", "write"}
          /\ tick'[Only].host = tick[Only].host
      <4>1. CASE SaveFind(Only)
        BY <1>0, <1>a, <4>1, SaveFindShape DEF At
      <4>2. CASE SaveWrite(Only)
        BY <1>0, <1>a, <4>2 DEF SaveWrite, GiveUp, At, TypeOK, Tick
      <4>3. CASE SaveDelete(Only)
        BY <1>0, <1>a, <4>3 DEF SaveDelete, At, TypeOK, Tick
      <4> QED
        BY <2>6, <4>1, <4>2, <4>3
    <3>2. KvSeen = tick[Only].host.kv /\ KvSeen' = tick[Only].host.kv
      BY <1>s, <3>1, SeenWhileSaving
    <3>3. ViewSeen = NoView /\ ViewSeen' = NoView
      BY <3>1 DEF ViewSeen, At
    <3> QED
      BY <3>2, <3>3 DEF Txn!vars
  <2>7. CASE Finish(Only)
    <3>1. /\ UNCHANGED table /\ At(Only, "save") /\ tick'[Only].pc = "idle"
          /\ tick[Only].upserts = {} /\ tick[Only].deletes = {}
      BY <1>0, <1>a, <2>7, RestTyped DEF Finish, TypeOK
    <3>2. KvSeen = table /\ KvSeen' = table
      <4>1. [k \in Key |-> table[k]] = table
        BY <1>0 DEF TypeOK, KvMap
      <4> QED
        BY <3>1, <4>1 DEF KvSeen, Flushed, At
    <3>3. ViewSeen = NoView /\ ViewSeen' = NoView
      BY <3>1 DEF ViewSeen, At
    <3> QED
      BY <3>2, <3>3 DEF Txn!vars
  <2>8. ~LoadError(Only) /\ ~SaveError(Only) /\ ~Abort(Only)
    BY DEF Orderly, OnlyProgramsFail, LoadError, SaveError, Abort
  <2> QED
    BY <1>2, <2>1, <2>2, <2>3, <2>4, <2>5, <2>6, <2>7, <2>8 DEF TickStep, Save
<1>3. CASE UNCHANGED vars
  BY <1>3 DEF vars, Txn!vars, KvSeen, ViewSeen, At
<1> QED
  BY <1>1, <1>2, <1>3, OnlyTicker DEF Next

\* run_once_with, verb by verb and statement by statement, implements the
\* transaction its documentation describes ("hydrate kv before, save dirty
\* after"): what a failed tick did is discarded whole, what an Ok tick did
\* takes effect whole.
THEOREM TickImplementsTransaction ==
  ASSUME Orderly
  PROVE  Spec => TickIsTransaction
<1>1. Init => Txn!Init
  <2> SUFFICES ASSUME Init PROVE Txn!Init
    OBVIOUS
  <2>1. At(Only, "idle") /\ table = Empty
    BY OnlyTicker, RestTyped DEF Init, At
  <2> QED
    BY <2>1, SameHost DEF Txn!Init, KvSeen, ViewSeen, At
<1> QED
  BY <1>1, TxnInvariant, TxnStepRefines, PTL DEF Spec, TickIsTransaction, Txn!Spec

(***************************************************************************)
(* Whoever ticks and whatever fails                                        *)
(***************************************************************************)
\* The keys SentinelsStay speaks of.
Stored == {k \in Key : \E n \in Names : k \in {OnceKey(n), MarkKey(n)}}

\* No tick is about to delete a sentinel, and what a save is to write is there
\* to be written.
Spares(q) ==
  /\ \A k \in Stored : k \notin q.host.deleted /\ k \notin q.deletes
  /\ q.pc \in {"save", "write"} => \A k \in q.upserts : q.host.kv[k] # Absent

SpareInv == TypeOK /\ \A t \in Tickers : Spares(tick[t])

LEMMA RestSpares == Spares(Rest) /\ \A q \in Tick : q.pc \in {"idle", "load", "eval"} /\ q.host.deleted = {} /\ q.deletes = {} => Spares(q)
BY DEF Spares, Rest, NoHost

LEMMA SpareStep ==
  ASSUME OwnKeysOnly
  PROVE  SpareInv /\ [Next]_vars => SpareInv'
<1> SUFFICES ASSUME SpareInv, [Next]_vars PROVE SpareInv'
  OBVIOUS
<1> USE DEF history
<1>0. TypeOK /\ TypeOK'
  BY TypeStep DEF SpareInv
<1>1. CASE TimePasses \/ UNCHANGED vars
  BY <1>0, <1>1 DEF TimePasses, vars, SpareInv
<1>2. ASSUME NEW t \in Tickers, TickStep(t) PROVE SpareInv'
  <2> DEFINE q == tick[t]
  <2>0. q \in Tick /\ q.host \in Host /\ Spares(q)
    BY <1>0 DEF SpareInv, TypeOK, Tick
  <2>1. ASSUME NEW new, tick' = [tick EXCEPT ![t] = new], Spares(new) PROVE SpareInv'
    BY <1>0, <2>1 DEF SpareInv, TypeOK
  <2>2. CASE Start(t)
    <3>1. Spares([Rest EXCEPT !.pc = "load", !.start = now])
      BY DEF Spares, Rest, NoHost
    <3> QED
      BY <2>1, <2>2, <3>1 DEF Start
  <2>3. CASE Load(t) \/ LoadError(t)
    <3> PICK kv : StartEval(t, kv)
      BY <2>3 DEF Load, LoadError
    <3> DEFINE l == Loaded(kv, q.start)
    <3>1. l.deleted = {}
      BY DEF Loaded
    <3> HIDE DEF l
    <3>2. Spares([q EXCEPT !.pc = "eval", !.host = l])
      BY <2>0, <3>1 DEF Spares, Tick
    <3>3. tick' = [tick EXCEPT ![t] = [q EXCEPT !.pc = "eval", !.host = l]]
      BY DEF StartEval, l
    <3> QED
      BY <2>1, <3>2, <3>3
  <2>4. CASE Evaluate(t)
    <3> PICK g \in Host, n \in Nat : /\ VerbOn(q.host, g)
                                     /\ tick' = [tick EXCEPT ![t].host = g, ![t].verbs = n]
      BY <1>0, <2>4, VerbShape
    <3>1. \A k \in Stored : k \notin g.deleted
      <4>1. \A k \in Raw : k \notin Stored
        BY TicksAssumption, KeysApart DEF OwnKeysOnly, Stored
      <4> QED
        BY <2>0, <4>1 DEF VerbOn, SetKey, DelKey, Buffered, Spares
    <3>2. Spares([q EXCEPT !.host = g, !.verbs = n])
      BY <1>0, <2>0, <2>4, <3>1, VerbShape DEF Spares, Tick, At
    <3>3. tick' = [tick EXCEPT ![t] = [q EXCEPT !.host = g, !.verbs = n]]
      OBVIOUS
    <3> QED
      BY <2>1, <3>2, <3>3
  <2>5. CASE EvalOk(t)
    <3> DEFINE new == [q EXCEPT !.pc = "save", !.upserts = ToUpsert(q.host),
                                !.deletes = q.host.deleted]
    <3>1. Spares(new)
      BY <2>0 DEF Spares, ToUpsert, Tick
    <3>2. tick' = [tick EXCEPT ![t] = new]
      BY <2>5 DEF EvalOk
    <3> QED
      BY <2>1, <3>1, <3>2
  <2>6. CASE EvalFail(t) \/ Abort(t) \/ Finish(t)
    BY <2>1, <2>6, RestSpares DEF EvalFail, Abort, Finish
  <2>7. CASE SaveFind(t)
    <3>1. /\ tick'[t].pc = "write" /\ tick'[t].host = q.host /\ At(t, "save")
          /\ tick'[t].upserts = q.upserts /\ tick'[t].deletes = q.deletes
      BY <1>0, <2>7, SaveFindShape
    <3>2. tick' = [tick EXCEPT ![t] = tick'[t]]
      BY <1>0, <2>7 DEF SaveFind, TypeOK
    <3>3. Spares(tick'[t])
      BY <2>0, <3>1 DEF Spares, At
    <3> QED
      BY <2>1, <3>2, <3>3
  <2>8. CASE GiveUp(t)
    <3> DEFINE new == [q EXCEPT !.pc = "save", !.upserts = {}, !.deletes = {}]
    <3>1. Spares(new)
      BY <2>0 DEF Spares, Tick
    <3>2. tick' = [tick EXCEPT ![t] = new]
      BY <2>8 DEF GiveUp
    <3> QED
      BY <2>1, <3>1, <3>2
  <2>9. CASE SaveWrite(t)
    <3> DEFINE new == [q EXCEPT !.pc = "save", !.upserts = @ \ {q.key}]
    <3>1. CASE GiveUp(t)
      BY <2>8, <3>1
    <3>2. CASE tick' = [tick EXCEPT ![t].pc = "save", ![t].upserts = @ \ {q.key}]
      <4>1. Spares(new)
        BY <2>0, <2>9 DEF Spares, Tick, SaveWrite, At
      <4>2. tick' = [tick EXCEPT ![t] = new]
        BY <3>2
      <4> QED
        BY <2>1, <4>1, <4>2
    <3> QED
      BY <2>9, <3>1, <3>2 DEF SaveWrite
  <2>10. ASSUME NEW k, tick' = [tick EXCEPT ![t].deletes = @ \ {k}] PROVE SpareInv'
    <3> DEFINE new == [q EXCEPT !.deletes = @ \ {k}]
    <3>1. Spares(new)
      BY <2>0 DEF Spares, Tick
    <3>2. tick' = [tick EXCEPT ![t] = new]
      BY <2>10
    <3> QED
      BY <2>1, <3>1, <3>2
  <2>11. CASE SaveDelete(t)
    BY <2>10, <2>11 DEF SaveDelete
  <2>12. CASE SaveError(t)
    BY <2>8, <2>10, <2>12 DEF SaveError
  <2> QED
    BY <1>2, <2>2, <2>3, <2>4, <2>5, <2>6, <2>7, <2>9, <2>11, <2>12 DEF TickStep, Save
<1> QED
  BY <1>1, <1>2 DEF Next

LEMMA SentinelStep ==
  SpareInv /\ [Next]_vars =>
    \A k \in Stored : table[k] # Absent => table'[k] # Absent
<1> SUFFICES ASSUME SpareInv, [Next]_vars, NEW k \in Stored, table[k] # Absent
             PROVE  table'[k] # Absent
  OBVIOUS
<1>0. TypeOK /\ k \in Key
  BY DEF SpareInv, Stored
<1>1. ASSUME NEW t \in Tickers, SaveWrite(t) PROVE table'[k] # Absent
  <2>1. tick[t].host.kv[tick[t].key] # Absent
    BY <1>0, <1>1 DEF SpareInv, Spares, TypeOK, SaveWrite, At
  <2> QED
    BY <1>0, <1>1, <2>1 DEF SaveWrite, TypeOK, KvMap
<1>2. ASSUME NEW t \in Tickers, SaveDelete(t) PROVE table'[k] # Absent
  <2> PICK j \in tick[t].deletes : table' = [table EXCEPT ![j] = Absent]
    BY <1>2 DEF SaveDelete
  <2>1. j # k
    BY DEF SpareInv, Spares
  <2> QED
    BY <1>0, <2>1 DEF TypeOK, KvMap
<1>3. ASSUME NEW t \in Tickers, TickStep(t), ~SaveWrite(t), ~SaveDelete(t)
      PROVE  UNCHANGED table
  <2>1. CASE Evaluate(t)
    BY <1>0, <2>1, VerbShape
  <2>2. CASE Start(t) \/ Load(t) \/ LoadError(t)
    BY <2>2 DEF Start, Load, LoadError, StartEval
  <2>3. CASE EvalOk(t) \/ EvalFail(t) \/ Finish(t) \/ Abort(t)
    BY <2>3 DEF EvalOk, EvalFail, Finish, Abort
  <2>4. CASE SaveFind(t) \/ SaveError(t)
    BY <2>4 DEF SaveFind, SaveError
  <2> QED
    BY <1>3, <2>1, <2>2, <2>3, <2>4 DEF TickStep, Save
<1> QED
  BY <1>1, <1>2, <1>3 DEF Next, TimePasses, vars

\* Neither an overlapping tick, nor a save cut short, nor a load that failed
\* takes away what vigy-once or vigy-mark-converged has stored: save_kv deletes
\* what vigy-del named and nothing else.
THEOREM SentinelsSurvive ==
  ASSUME OwnKeysOnly
  PROVE  Spec => SentinelsStay
<1>1. Init => SpareInv
  BY TypeInit, RestSpares DEF Init, SpareInv
<1>2. SpareInv /\ [Next]_vars =>
        [\A n \in Names, k \in Key :
           k \in {OnceKey(n), MarkKey(n)} /\ table[k] # Absent => table'[k] # Absent]_vars
  BY SentinelStep DEF Stored
<1> QED
  BY <1>1, <1>2, SpareStep, PTL DEF Spec, SentinelsStay

(***************************************************************************)
(* As long as no tick failed                                               *)
(***************************************************************************)
\* What the program was told is what the keys say: a name vigy-once answered
\* true for has its sentinel, and a limit the time of the last tick it let pass.
Promised(kv, told, let) ==
  \A n \in Names :
    /\ told[n] <= 1
    /\ told[n] = 1 => kv[OnceKey(n)] # Absent
    /\ AsInt(kv[RateKey(n)]) = let[n]

\* The keys as the ticker has them.
Held == IF tick[Only].pc \in {"eval", "save", "write"} THEN tick[Only].host.kv ELSE table

Busy == IF At(Only, "idle") THEN 0 ELSE 1

FreshInv ==
  /\ TxnInv
  /\ begun >= okTicks + Busy
  /\ begun = okTicks + Busy => Promised(Held, onceTrue, passed)

LEMMA NoneFailedIs ==
  ASSUME Orderly
  PROVE  NoneFailed <=> begun = okTicks + Busy
<1>1. CASE At(Only, "idle")
  <2>1. {t \in Tickers : ~At(t, "idle")} = {}
    BY <1>1, OnlyTicker
  <2> QED
    BY <1>1, <2>1, FS_EmptySet DEF NoneFailed, Busy
<1>2. CASE ~At(Only, "idle")
  <2>1. {t \in Tickers : ~At(t, "idle")} = {Only}
    BY <1>2, OnlyTicker
  <2> QED
    BY <1>2, <2>1, FS_Singleton DEF NoneFailed, Busy
<1> QED
  BY <1>1, <1>2

\* A verb of a tick whose working copy holds what was promised.
LEMMA VerbPromised ==
  ASSUME TypeOK, OwnKeysOnly, NEW t \in Tickers, Evaluate(t),
         Promised(tick[t].host.kv, onceTrue, passed)
  PROVE  /\ Promised(tick'[t].host.kv, onceTrue', passed')
         /\ \A n \in Names : passed'[n] # passed[n] => passed'[n] - passed[n] >= MinMs
<1> DEFINE h == tick[t].host  start == tick[t].start
<1>0. /\ tick[t] \in Tick /\ h.kv \in KvMap /\ start \in Nat
      /\ onceTrue \in [Names -> Nat] /\ passed \in [Names -> Nat]
  BY DEF TypeOK, Tick, Host
<1>k. \A n, m \in Names :
        /\ OnceKey(n) \in Key /\ RateKey(n) \in Key /\ MarkKey(n) \in Key
        /\ OnceKey(n) # RateKey(m) /\ MarkKey(n) # OnceKey(m) /\ MarkKey(n) # RateKey(m)
        /\ (OnceKey(n) = OnceKey(m) => n = m) /\ (RateKey(n) = RateKey(m) => n = m)
  BY KeysTyped DEF OnceKey, RateKey, MarkKey
<1>r. \A k \in Raw : k \in Key /\ \A n \in Names : k # OnceKey(n) /\ k # RateKey(n)
  BY TicksAssumption, KeysApart DEF OwnKeysOnly
<1>x. Text # Absent /\ \A i \in Int : AsInt(i) = i
  BY HostAssumption DEF AsInt
<1>h. ASSUME NEW v, NEW g, Verb(t, v, g) PROVE tick'[t].host = g
  BY <1>0, <1>h DEF Verb, TypeOK, Tick
\* A verb that leaves the keys of vigy-once and vigy-rate-limited? alone.
<1>1. ASSUME NEW v, NEW g, Verb(t, v, g), UNCHANGED <<onceTrue, passed>>,
             \A n \in Names : g.kv[OnceKey(n)] = h.kv[OnceKey(n)]
                              /\ g.kv[RateKey(n)] = h.kv[RateKey(n)]
      PROVE  /\ Promised(tick'[t].host.kv, onceTrue', passed')
             /\ \A n \in Names : passed'[n] # passed[n] => passed'[n] - passed[n] >= MinMs
  BY <1>1, <1>h DEF Promised
<1>2. CASE Set(t) \/ Incr(t) \/ Del(t)
  <2>1. ASSUME NEW v, NEW g, NEW k \in Raw, NEW x, Verb(t, v, g),
               g.kv = [h.kv EXCEPT ![k] = x], UNCHANGED <<onceTrue, passed>>
        PROVE  /\ Promised(tick'[t].host.kv, onceTrue', passed')
               /\ \A n \in Names : passed'[n] # passed[n] => passed'[n] - passed[n] >= MinMs
    BY <1>0, <1>1, <1>k, <1>r, <2>1 DEF KvMap
  <2>2. CASE Set(t)
    BY <2>1, <2>2 DEF Set, SetKey
  <2>3. CASE Incr(t)
    <3> PICK k \in Raw : Verb(t, "incr", IncrKey(h, k, 1))
      BY <2>3 DEF Incr
    <3>1. IncrKey(h, k, 1).kv = [h.kv EXCEPT ![k] = SaturatingAdd(AsInt(h.kv[k]), 1)]
      BY DEF IncrKey, SetKey
    <3> QED
      BY <2>1, <2>3, <3>1 DEF Incr
  <2>4. CASE Del(t)
    BY <2>1, <2>4 DEF Del, DelKey
  <2> QED
    BY <1>2, <2>2, <2>3, <2>4
<1>3. CASE Mark(t)
  <2> PICK m \in Names : Verb(t, "mark", MarkHost(h, m))
    BY <1>3 DEF Mark
  <2>1. \A n \in Names : MarkHost(h, m).kv[OnceKey(n)] = h.kv[OnceKey(n)]
                         /\ MarkHost(h, m).kv[RateKey(n)] = h.kv[RateKey(n)]
    BY <1>0, <1>k DEF MarkHost, Buffered, KvMap
  <2> QED
    BY <1>1, <1>3, <2>1 DEF Mark
<1>4. CASE Once(t)
  <2> PICK m \in Names : /\ Verb(t, "once", OnceHost(h, m))
                         /\ onceTrue' = IF OnceSays(h, m)
                                        THEN [onceTrue EXCEPT ![m] = @ + 1] ELSE onceTrue
                         /\ UNCHANGED passed
    BY <1>4 DEF Once
  <2>1. CASE OnceSays(h, m)
    <3> DEFINE g == OnceHost(h, m)
    <3>1. tick'[t].host = g
      BY <1>h
    <3>2. \A n \in Names : /\ g.kv[OnceKey(n)] = IF n = m THEN Text ELSE h.kv[OnceKey(n)]
                           /\ g.kv[RateKey(n)] = h.kv[RateKey(n)]
      BY <1>0, <1>k, <2>1 DEF OnceHost, Buffered, KvMap
    <3>3. onceTrue[m] = 0
      BY <1>0, <2>1 DEF Promised, OnceSays
    <3>4. \A n \in Names : onceTrue'[n] = IF n = m THEN 1 ELSE onceTrue[n]
      BY <1>0, <2>1, <3>3
    <3> HIDE DEF g
    <3> QED
      BY <1>x, <3>1, <3>2, <3>4 DEF Promised
  <2>2. CASE ~OnceSays(h, m)
    BY <1>1, <2>2 DEF OnceHost
  <2> QED
    BY <2>1, <2>2
<1>5. CASE Rate(t)
  <2> PICK m \in Names : /\ Verb(t, "rate", RateHost(h, m, MinMs, start))
                         /\ passed' = IF RateLimited(h, m, MinMs, start)
                                      THEN passed ELSE [passed EXCEPT ![m] = start]
                         /\ UNCHANGED onceTrue
    BY <1>5 DEF Rate
  <2>1. CASE ~RateLimited(h, m, MinMs, start)
    <3> DEFINE g == RateHost(h, m, MinMs, start)
    <3>1. tick'[t].host = g
      BY <1>h
    <3>2. \A n \in Names : /\ g.kv[OnceKey(n)] = h.kv[OnceKey(n)]
                           /\ g.kv[RateKey(n)] = IF n = m THEN start ELSE h.kv[RateKey(n)]
      BY <1>0, <1>k, <2>1 DEF RateHost, Buffered, KvMap
    <3>3. \A n \in Names : passed'[n] = IF n = m THEN start ELSE passed[n]
      BY <1>0, <2>1
    <3>4. start - passed[m] >= MinMs
      <4>1. AsInt(h.kv[RateKey(m)]) = passed[m]
        BY DEF Promised
      <4> QED
        BY <1>0, <2>1, <4>1, TicksAssumption DEF RateLimited
    <3>5. AsInt(start) = start
      BY <1>0, <1>x
    <3> HIDE DEF g
    <3>6. Promised(tick'[t].host.kv, onceTrue', passed')
      BY <3>1, <3>2, <3>3, <3>5 DEF Promised
    <3> QED
      BY <3>3, <3>4, <3>6
  <2>2. CASE RateLimited(h, m, MinMs, start)
    BY <1>1, <2>2 DEF RateHost
  <2> QED
    BY <2>1, <2>2
<1> QED
  BY <1>2, <1>3, <1>4, <1>5 DEF Evaluate

\* What one step does to the counts and the keys the ticker has.
LEMMA FreshStep ==
  ASSUME Orderly
  PROVE  FreshInv /\ [Next]_vars =>
           /\ FreshInv'
           /\ begun' = okTicks' + Busy' => \A n \in Names :
                passed'[n] # passed[n] => passed'[n] - passed[n] >= MinMs
<1> SUFFICES ASSUME FreshInv, [Next]_vars
             PROVE  /\ FreshInv'
                    /\ begun' = okTicks' + Busy' => \A n \in Names :
                         passed'[n] # passed[n] => passed'[n] - passed[n] >= MinMs
  OBVIOUS
<1> USE DEF history
<1>0. TypeOK /\ TxnInv /\ TxnInv'
  BY TxnStep DEF FreshInv, TxnInv
<1>a. /\ Only \in Tickers /\ tick[Only] \in Tick /\ tick[Only].host \in Host
      /\ tick[Only].host.kv \in KvMap /\ okTicks \in Nat /\ begun \in Nat /\ table \in KvMap
  BY <1>0, OnlyTicker DEF TypeOK, Tick, Host
\* A step that tells the program nothing.
<1>b. ASSUME UNCHANGED <<onceTrue, passed>>,
             begun' >= okTicks' + Busy',
             begun' = okTicks' + Busy' =>
               begun = okTicks + Busy /\ \A n \in Names :
                 Held'[OnceKey(n)] = Held[OnceKey(n)] /\ Held'[RateKey(n)] = Held[RateKey(n)]
      PROVE  /\ FreshInv'
             /\ begun' = okTicks' + Busy' => \A n \in Names :
                  passed'[n] # passed[n] => passed'[n] - passed[n] >= MinMs
  BY <1>0, <1>b DEF FreshInv, Promised
<1>1. CASE TimePasses \/ UNCHANGED vars
  BY <1>b, <1>1 DEF TimePasses, vars, Busy, Held, At, FreshInv
<1>2. CASE TickStep(Only)
  <2>1. CASE Start(Only)
    <3>1. /\ UNCHANGED <<table, okTicks, onceTrue, passed>> /\ begun' = begun + 1
          /\ At(Only, "idle") /\ tick'[Only].pc = "load"
      BY <1>0, <1>a, <2>1, RestTyped DEF Start, TypeOK, Tick
    <3>2. Busy = 0 /\ Busy' = 1 /\ Held' = Held
      BY <3>1 DEF Busy, Held, At
    <3> QED
      BY <1>a, <1>b, <3>1, <3>2 DEF FreshInv
  <2>2. CASE Load(Only)
    <3>1. /\ UNCHANGED <<table, okTicks, begun, onceTrue, passed>> /\ At(Only, "load")
          /\ tick'[Only].pc = "eval" /\ tick'[Only].host = Loaded(table, tick[Only].start)
      BY <1>0, <1>a, <2>2 DEF Load, StartEval, TypeOK, Tick
    <3>2. \A n \in Names : OnceKey(n) \notin {TickCount, PrevTick}
                           /\ RateKey(n) \notin {TickCount, PrevTick}
                           /\ OnceKey(n) \in Key /\ RateKey(n) \in Key
      BY KeysTyped DEF OnceKey, RateKey, TickCount, PrevTick
    <3>3. Busy = 1 /\ Busy' = 1 /\ Held = table /\ Held' = Loaded(table, tick[Only].start).kv
      BY <3>1 DEF Busy, Held, At
    <3>4. \A n \in Names :
            Held'[OnceKey(n)] = Held[OnceKey(n)] /\ Held'[RateKey(n)] = Held[RateKey(n)]
      BY <1>a, <3>2, <3>3 DEF Loaded, KvMap
    <3> QED
      BY <1>a, <1>b, <3>1, <3>3, <3>4 DEF FreshInv
  <2>3. CASE Evaluate(Only)
    <3> PICK g \in Host, n \in Nat : tick' = [tick EXCEPT ![Only].host = g, ![Only].verbs = n]
      BY <1>0, <1>a, <2>3, VerbShape
    <3>1. /\ UNCHANGED <<begun, okTicks>> /\ At(Only, "eval") /\ tick'[Only].pc = "eval"
      BY <1>0, <1>a, <2>3, VerbShape DEF TypeOK, Tick, At
    <3>2. /\ Busy = 1 /\ Busy' = 1
          /\ Held = tick[Only].host.kv /\ Held' = tick'[Only].host.kv
      BY <3>1 DEF Busy, Held, At
    <3>3. CASE begun = okTicks + Busy
      <4>1. /\ Promised(tick'[Only].host.kv, onceTrue', passed')
            /\ \A m \in Names : passed'[m] # passed[m] => passed'[m] - passed[m] >= MinMs
        BY <1>0, <1>a, <2>3, <3>2, <3>3, VerbPromised DEF FreshInv, Orderly
      <4> QED
        BY <1>0, <3>1, <3>2, <4>1 DEF FreshInv
    <3>4. CASE begun # okTicks + Busy
      <4>1. begun' # okTicks' + Busy'
        BY <3>1, <3>2, <3>4
      <4> QED
        BY <1>0, <1>a, <3>1, <3>2, <4>1 DEF FreshInv
    <3> QED
      BY <3>3, <3>4
  <2>4. CASE EvalOk(Only)
    <3>1. /\ UNCHANGED <<okTicks, begun, onceTrue, passed>> /\ At(Only, "eval")
          /\ tick'[Only].pc = "save" /\ tick'[Only].host = tick[Only].host
      BY <1>0, <1>a, <2>4 DEF EvalOk, TypeOK, Tick
    <3>2. Busy = 1 /\ Busy' = 1 /\ Held' = Held
      BY <3>1 DEF Busy, Held, At
    <3> QED
      BY <1>a, <1>b, <3>1, <3>2 DEF FreshInv
  \* A failure is begun, neither Ok nor under way.
  <2>5. CASE EvalFail(Only)
    <3>1. /\ UNCHANGED <<okTicks, begun, onceTrue, passed>> /\ At(Only, "eval")
          /\ tick'[Only].pc = "idle"
      BY <1>0, <1>a, <2>5, RestTyped DEF EvalFail, TypeOK
    <3>2. Busy = 1 /\ Busy' = 0
      BY <3>1 DEF Busy, At
    <3> QED
      BY <1>a, <1>b, <3>1, <3>2 DEF FreshInv
  <2>6. CASE SaveFind(Only) \/ SaveWrite(Only) \/ SaveDelete(Only)
    <3>1. /\ tick[Only].pc \in {"save", "write"} /\ tick'[Only].pc \in {"save", "write"}
          /\ tick'[Only].host = tick[Only].host
          /\ UNCHANGED <<okTicks, begun, onceTrue, passed>>
      <4>1. CASE SaveFind(Only)
        BY <1>0, <1>a, <4>1, SaveFindShape DEF At
      <4>2. CASE SaveWrite(Only)
        BY <1>0, <1>a, <4>2 DEF SaveWrite, GiveUp, At, TypeOK, Tick
      <4>3. CASE SaveDelete(Only)
        BY <1>0, <1>a, <4>3 DEF SaveDelete, At, TypeOK, Tick
      <4> QED
        BY <2>6, <4>1, <4>2, <4>3
    <3>2. Busy = 1 /\ Busy' = 1 /\ Held' = Held
      BY <3>1 DEF Busy, Held, At
    <3> QED
      BY <1>a, <1>b, <3>1, <3>2 DEF FreshInv
  <2>7. CASE Finish(Only)
    <3>1. /\ UNCHANGED <<table, begun, onceTrue, passed>> /\ okTicks' = okTicks + 1
          /\ At(Only, "save") /\ tick'[Only].pc = "idle"
          /\ tick[Only].upserts = {} /\ tick[Only].deletes = {}
      BY <1>0, <1>a, <2>7, RestTyped DEF Finish, TypeOK
    <3>2. Busy = 1 /\ Busy' = 0 /\ Held = tick[Only].host.kv /\ Held' = table
      BY <3>1 DEF Busy, Held, At
    <3>3. \A k \in Key : table[k] = tick[Only].host.kv[k]
      BY <1>0, <3>1 DEF TxnInv, At, Converging
    <3> QED
      BY <1>a, <1>b, <3>1, <3>2, <3>3, KeysTyped DEF FreshInv
  <2>8. ~LoadError(Only) /\ ~SaveError(Only) /\ ~Abort(Only)
    BY DEF Orderly, OnlyProgramsFail, LoadError, SaveError, Abort
  <2> QED
    BY <1>2, <2>1, <2>2, <2>3, <2>4, <2>5, <2>6, <2>7, <2>8 DEF TickStep, Save
<1> QED
  BY <1>1, <1>2, OnlyTicker DEF Next

LEMMA FreshInit ==
  ASSUME Orderly
  PROVE  Init => FreshInv
<1> SUFFICES ASSUME Init PROVE FreshInv
  OBVIOUS
<1>1. At(Only, "idle") /\ table = Empty
  BY OnlyTicker, RestTyped DEF Init, At
<1>2. Promised(Held, onceTrue, passed)
  <2>1. Held = Empty
    BY <1>1 DEF Held, At
  <2>2. \A n \in Names : onceTrue[n] = 0 /\ passed[n] = 0
    BY DEF Init
  <2>3. \A n \in Names : Held[RateKey(n)] = Absent
    BY <2>1, KeysTyped DEF Empty
  <2>4. Absent \notin Int
    BY HostAssumption
  <2>5. \A n \in Names : AsInt(Held[RateKey(n)]) = passed[n]
    BY <2>2, <2>3, <2>4 DEF AsInt
  <2>6. 0 <= 1 /\ 0 # 1
    OBVIOUS
  <2> QED
    BY <2>2, <2>5, <2>6, Zenon DEF Promised
<1> QED
  BY <1>1, <1>2, TxnInit DEF FreshInv, Busy, Init

\* Until a tick of it fails, a vigy's program is told true by vigy-once no more
\* than once per name: the sentinel a tick writes is what later ticks load.
THEOREM OnceIsOnce ==
  ASSUME Orderly
  PROVE  Spec => []OnceUnlessFailed
<1>1. FreshInv => OnceUnlessFailed
  BY NoneFailedIs DEF FreshInv, Promised, OnceUnlessFailed, OnceAtMostOnce
<1> QED
  BY <1>1, FreshInit, FreshStep, PTL DEF Spec

\* Until a tick of it fails, two ticks of a vigy that vigy-rate-limited? lets
\* pass for one name start at least min-ms apart.
THEOREM PassesAreSpaced ==
  ASSUME Orderly
  PROVE  Spec => RateSpaced
<1>1. NoneFailed => begun = okTicks + Busy
  BY NoneFailedIs
<1>2. FreshInv /\ [Next]_vars /\ (NoneFailed => begun = okTicks + Busy)' =>
        [\A n \in Names :
           NoneFailed' /\ passed'[n] # passed[n] => passed'[n] - passed[n] >= MinMs]_vars
  BY FreshStep
<1>3. Spec => []FreshInv
  BY FreshInit, FreshStep, PTL DEF Spec
<1> QED
  BY <1>1, <1>2, <1>3, PTL DEF Spec, RateSpaced

(***************************************************************************)
(* Nothing is counted or timed that was not                                *)
(***************************************************************************)
\* The tick count in kv is at most b, its times are not after `time`.
Genuine(kv, b, time) ==
  /\ AsInt(kv[TickCount]) <= b
  /\ AsInt(kv[PrevTick]) <= time
  /\ \A n \in Names : AsInt(kv[RateKey(n)]) <= time

\* A tick that has yet to load may still count itself.
Loading == {t \in Tickers : tick[t].pc = "load"}
Loaders == Cardinality(Loading)
Working(q) == q.pc \in {"eval", "save", "write"}

GenuineInv ==
  /\ TypeOK
  /\ IsFiniteSet(Loading) /\ Loaders <= begun
  /\ Genuine(table, begun - Loaders, now)
  /\ \A t \in Tickers : /\ tick[t].start <= now
                        /\ Working(tick[t]) => Genuine(tick[t].host.kv, begun - Loaders, now)

LEMMA RowKeys ==
  /\ TickCount \in Key /\ PrevTick \in Key /\ TickCount # PrevTick
  /\ \A n \in Names : /\ RateKey(n) \in Key /\ RateKey(n) # TickCount /\ RateKey(n) # PrevTick
                      /\ Plain(n) # PrevTick
  /\ \A n, m \in Names : /\ RateKey(n) = RateKey(m) => n = m
                         /\ RateKey(n) # OnceKey(m) /\ RateKey(n) # MarkKey(m)
                         /\ RateKey(n) # Plain(m)
  /\ \A n \in Names : /\ OnceKey(n) \in Key /\ MarkKey(n) \in Key
                      /\ OnceKey(n) # TickCount /\ OnceKey(n) # PrevTick
                      /\ MarkKey(n) # TickCount /\ MarkKey(n) # PrevTick
<1>1. TickCount \in Key /\ PrevTick \in Key /\ TickCount # PrevTick
  BY KeysTyped
<1>2. \A n \in Names : /\ RateKey(n) \in Key /\ RateKey(n) # TickCount /\ RateKey(n) # PrevTick
                       /\ Plain(n) # PrevTick
  BY KeysTyped DEF RateKey, TickCount, PrevTick, Plain
<1>3. \A n, m \in Names : /\ RateKey(n) = RateKey(m) => n = m
                          /\ RateKey(n) # OnceKey(m) /\ RateKey(n) # MarkKey(m)
                          /\ RateKey(n) # Plain(m)
  BY DEF RateKey, OnceKey, MarkKey, Plain
<1>4. \A n \in Names : /\ OnceKey(n) \in Key /\ MarkKey(n) \in Key
                       /\ OnceKey(n) # TickCount /\ OnceKey(n) # PrevTick
                       /\ MarkKey(n) # TickCount /\ MarkKey(n) # PrevTick
  BY KeysTyped DEF OnceKey, MarkKey, TickCount, PrevTick
<1> QED
  BY <1>1, <1>2, <1>3, <1>4

LEMMA RowsTyped ==
  ASSUME NEW kv \in KvMap
  PROVE  \A k \in Key : AsInt(kv[k]) \in Int
BY DEF KvMap, AsInt

LEMMA GenuineMore ==
  ASSUME NEW kv \in KvMap, NEW b \in Int, NEW c \in Int, b <= c,
         NEW time \in Int, NEW later \in Int, time <= later, Genuine(kv, b, time)
  PROVE  Genuine(kv, c, later)
<1>1. /\ AsInt(kv[TickCount]) \in Int /\ AsInt(kv[PrevTick]) \in Int
      /\ \A n \in Names : AsInt(kv[RateKey(n)]) \in Int
  BY RowKeys, RowsTyped
<1>2. AsInt(kv[TickCount]) <= c /\ AsInt(kv[PrevTick]) <= later
  BY <1>1 DEF Genuine
<1>3. ASSUME NEW n \in Names PROVE AsInt(kv[RateKey(n)]) <= later
  <2>1. AsInt(kv[RateKey(n)]) \in Int /\ AsInt(kv[RateKey(n)]) <= time
    BY <1>1 DEF Genuine
  <2> QED
    BY <2>1
<1> QED
  BY <1>2, <1>3 DEF Genuine

LEMMA EmptyGenuine ==
  ASSUME NEW b \in Nat, NEW time \in Nat
  PROVE  Genuine(Empty, b, time)
<1>1. \A k \in Key : AsInt(Empty[k]) = 0
  BY HostAssumption DEF Empty, AsInt
<1> QED
  BY <1>1, RowKeys DEF Genuine

\* Where each row is another's, or none, the bounds are.
LEMMA MixedGenuine ==
  ASSUME NEW kv, NEW lv, NEW mv, NEW b \in Nat, NEW time \in Nat,
         Genuine(kv, b, time), Genuine(lv, b, time),
         \A k \in Key : mv[k] \in {kv[k], lv[k], Absent}
  PROVE  Genuine(mv, b, time)
<1>1. AsInt(Absent) = 0
  BY HostAssumption DEF AsInt
<1>2. AsInt(mv[TickCount]) <= b /\ AsInt(mv[PrevTick]) <= time
  BY <1>1, RowKeys DEF Genuine
<1>3. ASSUME NEW n \in Names PROVE AsInt(mv[RateKey(n)]) <= time
  <2>1. RateKey(n) \in Key
    BY RowKeys
  <2>2. mv[RateKey(n)] \in {kv[RateKey(n)], lv[RateKey(n)], Absent}
    BY <2>1
  <2>3. AsInt(kv[RateKey(n)]) <= time /\ AsInt(lv[RateKey(n)]) <= time
    BY DEF Genuine
  <2> QED
    BY <1>1, <2>2, <2>3
<1> QED
  BY <1>2, <1>3 DEF Genuine

LEMMA LoadedGenuine ==
  ASSUME NEW kv \in KvMap, NEW b \in Int, NEW time \in Int, NEW start \in Int, start <= time,
         Genuine(kv, b, time)
  PROVE  Genuine(Loaded(kv, start).kv, b + 1, time)
<1> DEFINE lv == Loaded(kv, start).kv
<1>1. lv = [kv EXCEPT ![TickCount] = AsInt(kv[TickCount]) + 1, ![PrevTick] = start]
  BY DEF Loaded
<1>2. /\ lv[TickCount] = AsInt(kv[TickCount]) + 1 /\ lv[PrevTick] = start
      /\ \A n \in Names : lv[RateKey(n)] = kv[RateKey(n)]
  BY <1>1, RowKeys DEF KvMap
<1> HIDE DEF lv
<1>3. AsInt(kv[TickCount]) \in Int /\ AsInt(kv[TickCount]) <= b
  BY RowKeys, RowsTyped DEF Genuine
<1>4. AsInt(lv[TickCount]) = AsInt(kv[TickCount]) + 1 /\ AsInt(lv[PrevTick]) = start
  BY <1>2, <1>3 DEF AsInt
<1>5. AsInt(lv[TickCount]) <= b + 1
  BY <1>3, <1>4
<1>6. \A n \in Names : AsInt(lv[RateKey(n)]) <= time
  BY <1>2 DEF Genuine
<1>7. Genuine(lv, b + 1, time)
  BY <1>4, <1>5, <1>6 DEF Genuine
<1> QED
  BY <1>7 DEF lv

\* A program changes no row of the runtime, and vigy-rate-limited? writes the
\* start of the tick.
LEMMA VerbGenuine ==
  ASSUME TypeOK, OwnKeysOnly, NEW t \in Tickers, Evaluate(t), NEW b \in Int,
         tick[t].start <= now, Genuine(tick[t].host.kv, b, now)
  PROVE  Genuine(tick'[t].host.kv, b, now)
<1> DEFINE h == tick[t].host  start == tick[t].start
<1>0. tick[t] \in Tick /\ h.kv \in KvMap /\ start \in Nat /\ now \in Nat
  BY DEF TypeOK, Tick, Host
<1>h. ASSUME NEW v, NEW g, Verb(t, v, g) PROVE tick'[t].host = g
  BY <1>0, <1>h DEF Verb, TypeOK, Tick
<1>r. \A k \in Raw : k \in Key /\ k # TickCount /\ k # PrevTick /\ \A n \in Names : k # RateKey(n)
  BY TicksAssumption, RowKeys, KeysApart DEF OwnKeysOnly
\* A verb that writes elsewhere.
<1>1. ASSUME NEW v, NEW g, Verb(t, v, g), NEW k \in Key, NEW x, g.kv = [h.kv EXCEPT ![k] = x],
             k # TickCount, k # PrevTick, \A n \in Names : k # RateKey(n)
      PROVE  Genuine(tick'[t].host.kv, b, now)
  <2>1. /\ g.kv[TickCount] = h.kv[TickCount] /\ g.kv[PrevTick] = h.kv[PrevTick]
        /\ \A n \in Names : g.kv[RateKey(n)] = h.kv[RateKey(n)]
    BY <1>0, <1>1, RowKeys DEF KvMap
  <2>2. Genuine(g.kv, b, now)
    BY <2>1 DEF Genuine
  <2> QED
    BY <1>1, <1>h, <2>2
<1>2. ASSUME NEW v, Verb(t, v, h) PROVE Genuine(tick'[t].host.kv, b, now)
  BY <1>2, <1>h
<1>3. CASE Set(t)
  BY <1>1, <1>3, <1>r DEF Set, SetKey
<1>4. CASE Incr(t)
  <2> PICK k \in Raw : Verb(t, "incr", IncrKey(h, k, 1))
    BY <1>4 DEF Incr
  <2>1. IncrKey(h, k, 1).kv = [h.kv EXCEPT ![k] = SaturatingAdd(AsInt(h.kv[k]), 1)]
    BY DEF IncrKey, SetKey
  <2> QED
    BY <1>1, <1>r, <2>1
<1>5. CASE Del(t)
  BY <1>1, <1>5, <1>r DEF Del, DelKey
<1>6. CASE Mark(t)
  <2> PICK m \in Names : Verb(t, "mark", MarkHost(h, m))
    BY <1>6 DEF Mark
  <2>1. MarkHost(h, m).kv = [h.kv EXCEPT ![MarkKey(m)] = Text]
    BY DEF MarkHost, Buffered
  <2> QED
    BY <1>1, <2>1, RowKeys
<1>7. CASE Once(t)
  <2> PICK m \in Names : Verb(t, "once", OnceHost(h, m))
    BY <1>7 DEF Once
  <2>1. CASE OnceSays(h, m)
    <3>1. OnceHost(h, m).kv = [h.kv EXCEPT ![OnceKey(m)] = Text]
      BY <2>1 DEF OnceHost, Buffered
    <3> QED
      BY <1>1, <3>1, RowKeys
  <2>2. CASE ~OnceSays(h, m)
    BY <1>2, <2>2 DEF OnceHost
  <2> QED
    BY <2>1, <2>2
<1>8. CASE Rate(t)
  <2> PICK m \in Names : Verb(t, "rate", RateHost(h, m, MinMs, start))
    BY <1>8 DEF Rate
  <2>1. CASE RateLimited(h, m, MinMs, start)
    BY <1>2, <2>1 DEF RateHost
  <2>2. CASE ~RateLimited(h, m, MinMs, start)
    <3> DEFINE g == RateHost(h, m, MinMs, start)
    <3>1. g.kv = [h.kv EXCEPT ![RateKey(m)] = start]
      BY <2>2 DEF RateHost, Buffered
    <3> HIDE DEF g
    <3>2. /\ g.kv[TickCount] = h.kv[TickCount] /\ g.kv[PrevTick] = h.kv[PrevTick]
          /\ \A n \in Names : g.kv[RateKey(n)] = IF n = m THEN start ELSE h.kv[RateKey(n)]
      BY <1>0, <3>1, RowKeys DEF KvMap
    <3>3. AsInt(start) = start
      BY <1>0 DEF AsInt
    <3>4. Genuine(g.kv, b, now)
      BY <3>2, <3>3 DEF Genuine
    <3> QED
      BY <1>h, <3>4 DEF g
  <2> QED
    BY <2>1, <2>2
<1> QED
  BY <1>3, <1>4, <1>5, <1>6, <1>7, <1>8 DEF Evaluate

\* One tick changes, and is not about to load.
LEMMA GenuineOne ==
  ASSUME GenuineInv, TypeOK', NEW t \in Tickers, NEW new, tick' = [tick EXCEPT ![t] = new],
         new.pc # "load", new.start <= now, UNCHANGED <<now, begun>>,
         LET b == begun - Loaders + IF tick[t].pc = "load" THEN 1 ELSE 0 IN
           Genuine(table', b, now) /\ (Working(new) => Genuine(new.host.kv, b, now))
  PROVE  GenuineInv'
<1> DEFINE b == begun - Loaders + IF tick[t].pc = "load" THEN 1 ELSE 0
<1>1. /\ TypeOK /\ IsFiniteSet(Loading) /\ Loaders \in Nat /\ begun \in Nat /\ now \in Nat
      /\ Loaders <= begun
  BY FS_CardinalityType DEF GenuineInv, Loaders, TypeOK
<1>2. tick'[t] = new /\ \A u \in Tickers : u # t => tick'[u] = tick[u]
  BY <1>1 DEF TypeOK
<1>3. Loading' = Loading \ {t}
  BY <1>2 DEF Loading
<1>4. /\ IsFiniteSet(Loading')
      /\ Loaders' = IF tick[t].pc = "load" THEN Loaders - 1 ELSE Loaders
  <2>1. t \in Loading <=> tick[t].pc = "load"
    BY DEF Loading
  <2>2. Cardinality(Loading \ {t}) = IF t \in Loading THEN Cardinality(Loading) - 1
                                                     ELSE Cardinality(Loading)
    BY <1>1, FS_RemoveElement
  <2>3. IsFiniteSet(Loading \ {t})
    BY <1>1, FS_RemoveElement
  <2> QED
    BY <1>3, <2>1, <2>2, <2>3 DEF Loaders
<1>5. Loaders' <= begun' /\ begun' - Loaders' = b /\ now' = now
  BY <1>1, <1>4
<1>6. begun - Loaders \in Int /\ b \in Int /\ begun - Loaders <= b
  BY <1>1
<1> HIDE DEF b
<1>7. ASSUME NEW u \in Tickers
      PROVE  /\ tick'[u].start <= now
             /\ Working(tick'[u]) => Genuine(tick'[u].host.kv, b, now)
  <2>1. CASE u = t
    BY <1>2, <2>1 DEF b
  <2>2. CASE u # t
    <3>1. tick[u].host.kv \in KvMap
      BY <1>1 DEF TypeOK, Tick, Host
    <3>2. Working(tick[u]) => Genuine(tick[u].host.kv, b, now)
      BY <1>1, <1>6, <3>1, GenuineMore DEF GenuineInv
    <3> QED
      BY <1>2, <2>2, <3>2 DEF GenuineInv
  <2> QED
    BY <2>1, <2>2
<1>8. Genuine(table', b, now)
  BY DEF b
<1> QED
  BY <1>4, <1>5, <1>7, <1>8 DEF GenuineInv

LEMMA GenuineStep ==
  ASSUME OwnKeysOnly
  PROVE  GenuineInv /\ [Next]_vars => GenuineInv'
<1> SUFFICES ASSUME GenuineInv, [Next]_vars PROVE GenuineInv'
  OBVIOUS
<1> USE DEF history
<1> DEFINE b == begun - Loaders
<1>0. /\ TypeOK /\ TypeOK' /\ IsFiniteSet(Loading) /\ Loaders \in Nat /\ Loaders <= begun
      /\ begun \in Nat /\ now \in Nat /\ b \in Nat /\ table \in KvMap
      /\ Genuine(table, b, now)
  BY TypeStep, FS_CardinalityType DEF GenuineInv, Loaders, TypeOK
<1>1. CASE TimePasses
  <2>1. UNCHANGED <<table, tick, begun>> /\ now' = now + 1
    BY <1>1 DEF TimePasses
  <2>2. Loading' = Loading
    BY <2>1 DEF Loading
  <2>3. Loaders' = Loaders
    BY <2>2 DEF Loaders
  <2>4. ASSUME NEW kv \in KvMap, Genuine(kv, b, now) PROVE Genuine(kv, b, now')
    BY <1>0, <2>1, <2>4, GenuineMore
  <2>5. ASSUME NEW t \in Tickers
        PROVE  /\ tick'[t].start <= now'
               /\ Working(tick'[t]) => Genuine(tick'[t].host.kv, b, now')
    <3>1. tick[t].host.kv \in KvMap /\ tick[t].start \in Nat /\ tick[t].start <= now
      BY <1>0 DEF TypeOK, Tick, Host, GenuineInv
    <3>2. Working(tick[t]) => Genuine(tick[t].host.kv, b, now)
      BY DEF GenuineInv
    <3>3. tick[t].start <= now'
      BY <1>0, <2>1, <3>1
    <3> QED
      BY <2>1, <2>4, <3>1, <3>2, <3>3
  <2> HIDE DEF b
  <2>6. Genuine(table', b, now')
    BY <1>0, <2>1, <2>4
  <2>7. begun' - Loaders' = b
    BY <2>1, <2>3 DEF b
  <2> QED
    BY <1>0, <2>1, <2>2, <2>3, <2>5, <2>6, <2>7 DEF GenuineInv
<1>2. CASE UNCHANGED vars
  <2>1. UNCHANGED <<table, tick, begun, now>>
    BY <1>2 DEF vars
  <2>2. Loading' = Loading
    BY <2>1 DEF Loading
  <2>3. Loaders' = Loaders
    BY <2>2 DEF Loaders
  <2> QED
    BY <1>0, <2>1, <2>2, <2>3 DEF GenuineInv
<1>3. ASSUME NEW t \in Tickers, TickStep(t) PROVE GenuineInv'
  <2> DEFINE q == tick[t]
  <2>0. /\ q \in Tick /\ q.host.kv \in KvMap /\ q.start \in Nat /\ q.start <= now
        /\ Working(q) => Genuine(q.host.kv, b, now)
    BY <1>0 DEF TypeOK, Tick, Host, GenuineInv
  \* A step of a tick that has loaded.
  <2>1. ASSUME NEW new, tick' = [tick EXCEPT ![t] = new], q.pc # "load", new.pc # "load",
               new.start <= now, UNCHANGED <<now, begun>>, Genuine(table', b, now),
               Working(new) => Genuine(new.host.kv, b, now)
        PROVE  GenuineInv'
    <3>1. b + 0 = b
      BY <1>0
    <3> QED
      BY <1>0, <2>1, <3>1, GenuineOne
  <2>2. CASE Start(t)
    <3>1. /\ q.pc = "idle" /\ begun' = begun + 1 /\ UNCHANGED <<table, now>>
          /\ tick' = [tick EXCEPT ![t] = [Rest EXCEPT !.pc = "load", !.start = now]]
      BY <2>2 DEF Start, At
    <3>2. /\ tick'[t].pc = "load" /\ tick'[t].start = now
          /\ \A u \in Tickers : u # t => tick'[u] = tick[u]
      BY <1>0, <3>1, RestTyped DEF TypeOK, Tick
    <3>3. Loading' = Loading \cup {t} /\ t \notin Loading
      BY <3>1, <3>2 DEF Loading
    <3>4. IsFiniteSet(Loading') /\ Loaders' = Loaders + 1
      BY <1>0, <3>3, FS_AddElement DEF Loaders
    <3>5. begun' - Loaders' = b /\ Loaders' <= begun'
      BY <1>0, <3>1, <3>4
    <3>6. ASSUME NEW u \in Tickers
          PROVE  /\ tick'[u].start <= now
                 /\ Working(tick'[u]) => Genuine(tick'[u].host.kv, b, now)
      <4>1. CASE u = t
        BY <1>0, <3>2, <4>1 DEF Working
      <4>2. CASE u # t
        BY <3>2, <4>2 DEF GenuineInv
      <4> QED
        BY <4>1, <4>2
    <3> HIDE DEF b
    <3> QED
      BY <1>0, <3>1, <3>4, <3>5, <3>6 DEF GenuineInv
  <2>3. ASSUME NEW kv \in KvMap, Genuine(kv, b, now), StartEval(t, kv) PROVE GenuineInv'
    <3> DEFINE new == [q EXCEPT !.pc = "eval", !.host = Loaded(kv, q.start)]
    <3>1. q.pc = "load" /\ UNCHANGED <<table, now, begun>> /\ tick' = [tick EXCEPT ![t] = new]
      BY <2>3 DEF StartEval, At
    <3>2. new.pc = "eval" /\ new.start = q.start /\ new.host.kv = Loaded(kv, q.start).kv
      BY <2>0 DEF Tick
    <3>3. Genuine(new.host.kv, b + 1, now)
      BY <1>0, <2>0, <2>3, <3>2, LoadedGenuine
    <3>4. Genuine(table', b + 1, now)
      BY <1>0, <3>1, GenuineMore
    <3> HIDE DEF new
    <3> QED
      BY <1>0, <2>0, <3>1, <3>2, <3>3, <3>4, GenuineOne
  <2>4. CASE Load(t) \/ LoadError(t)
    BY <1>0, <2>3, <2>4, RestTyped, EmptyGenuine DEF Load, LoadError
  <2>5. CASE Evaluate(t)
    <3> PICK g \in Host, n \in Nat : tick' = [tick EXCEPT ![t].host = g, ![t].verbs = n]
      BY <1>0, <2>5, VerbShape
    <3> DEFINE new == [q EXCEPT !.host = g, !.verbs = n]
    <3>1. q.pc = "eval" /\ UNCHANGED <<table, now, begun>>
      BY <1>0, <2>5, VerbShape DEF At
    <3>2. tick' = [tick EXCEPT ![t] = new] /\ tick'[t] = new
      BY <1>0 DEF TypeOK
    <3>3. new.pc = "eval" /\ new.start = q.start
      BY <2>0, <3>1 DEF Tick
    <3> HIDE DEF b
    <3>4. Genuine(new.host.kv, b, now)
      <4>1. b \in Int /\ tick[t].start <= now /\ Genuine(tick[t].host.kv, b, now)
        BY <1>0, <2>0, <3>1 DEF Working
      <4>2. Genuine(tick'[t].host.kv, b, now)
        BY <1>0, <2>5, <4>1, VerbGenuine
      <4> QED
        BY <3>2, <4>2
    <3> HIDE DEF new
    <3>5. /\ q.pc # "load" /\ new.pc # "load" /\ new.start <= now
          /\ UNCHANGED <<now, begun>> /\ Genuine(table', b, now)
      BY <1>0, <2>0, <3>1, <3>3
    <3> QED
      BY <2>1, <3>2, <3>4, <3>5
  \* A step within the tick that leaves its working copy.
  <2>6. ASSUME NEW new, tick' = [tick EXCEPT ![t] = new], Working(q), new.pc # "load",
               new.host = q.host, new.start = q.start, UNCHANGED <<now, begun>>,
               \A k \in Key : table'[k] \in {table[k], q.host.kv[k], Absent}
        PROVE  GenuineInv'
    <3>1. Genuine(table', b, now)
      BY <1>0, <2>0, <2>6, MixedGenuine
    <3> QED
      BY <2>0, <2>1, <2>6, <3>1 DEF Working
  <2>7. CASE EvalOk(t)
    <3> DEFINE new == [q EXCEPT !.pc = "save", !.upserts = ToUpsert(q.host),
                                !.deletes = q.host.deleted]
    <3>1. /\ q.pc = "eval" /\ UNCHANGED <<table, now, begun>>
          /\ tick' = [tick EXCEPT ![t] = new]
      BY <2>7 DEF EvalOk, At
    <3>2. new.pc = "save" /\ new.host = q.host /\ new.start = q.start
      BY <2>0 DEF Tick
    <3> HIDE DEF new
    <3> QED
      BY <2>6, <3>1, <3>2 DEF Working
  <2>8. CASE EvalFail(t) \/ Finish(t) \/ Abort(t)
    <3>1. /\ UNCHANGED <<table, now, begun>> /\ tick' = [tick EXCEPT ![t] = Rest]
      BY <2>8 DEF EvalFail, Finish, Abort
    <3>2. Rest.pc = "idle" /\ Rest.start <= now /\ ~Working(Rest)
      BY <1>0 DEF Rest, Working
    <3>3. Genuine(table', b, now) /\ Genuine(table', b + 1, now)
      BY <1>0, <3>1, GenuineMore
    <3>4. b + 0 = b
      BY <1>0
    <3>5. UNCHANGED <<now, begun>> /\ Rest.pc # "load"
      BY <3>1, <3>2
    <3>6. Genuine(table', b + IF q.pc = "load" THEN 1 ELSE 0, now)
      BY <3>3, <3>4
    <3> HIDE DEF b
    <3> QED
      BY <1>0, <3>1, <3>2, <3>5, <3>6, GenuineOne DEF b
  <2>9. CASE SaveFind(t)
    <3> PICK k \in q.upserts :
          tick' = [tick EXCEPT ![t].pc = "write", ![t].key = k, ![t].found = table[k] # Absent]
      BY <2>9 DEF SaveFind
    <3> DEFINE new == [q EXCEPT !.pc = "write", !.key = k, !.found = table[k] # Absent]
    <3>1. q.pc = "save" /\ UNCHANGED <<table, now, begun>> /\ tick' = [tick EXCEPT ![t] = new]
      BY <2>9 DEF SaveFind, At
    <3>2. new.pc = "write" /\ new.host = q.host /\ new.start = q.start
      BY <2>0 DEF Tick
    <3> HIDE DEF new
    <3> QED
      BY <2>6, <3>1, <3>2 DEF Working
  <2>10. ASSUME GiveUp(t), q.pc \in {"save", "write"}, UNCHANGED <<table, now, begun>>
         PROVE  GenuineInv'
    <3> DEFINE new == [q EXCEPT !.pc = "save", !.upserts = {}, !.deletes = {}]
    <3>1. tick' = [tick EXCEPT ![t] = new]
      BY <2>10 DEF GiveUp
    <3>2. new.pc = "save" /\ new.host = q.host /\ new.start = q.start
      BY <2>0 DEF Tick
    <3> HIDE DEF new
    <3> QED
      BY <2>6, <2>10, <3>1, <3>2 DEF Working
  <2>11. CASE SaveWrite(t)
    <3>1. q.pc = "write" /\ UNCHANGED <<now, begun>>
      BY <2>11 DEF SaveWrite, At
    <3>2. CASE UNCHANGED table /\ GiveUp(t)
      BY <2>10, <3>1, <3>2
    <3>3. CASE /\ table' = [table EXCEPT ![q.key] = q.host.kv[q.key]]
               /\ tick' = [tick EXCEPT ![t].pc = "save", ![t].upserts = @ \ {q.key}]
      <4> DEFINE new == [q EXCEPT !.pc = "save", !.upserts = @ \ {q.key}]
      <4>1. tick' = [tick EXCEPT ![t] = new]
        BY <3>3
      <4>2. new.pc = "save" /\ new.host = q.host /\ new.start = q.start
        BY <2>0 DEF Tick
      <4>3. \A k \in Key : table'[k] \in {table[k], q.host.kv[k], Absent}
        BY <1>0, <3>3 DEF KvMap
      <4> HIDE DEF new
      <4> QED
        BY <2>6, <3>1, <4>1, <4>2, <4>3 DEF Working
    <3> QED
      BY <2>11, <3>2, <3>3 DEF SaveWrite
  <2>12. ASSUME NEW k, tick' = [tick EXCEPT ![t].deletes = @ \ {k}], q.pc = "save",
                UNCHANGED <<now, begun>>,
                table' \in {table, [table EXCEPT ![k] = Absent]}
         PROVE  GenuineInv'
    <3> DEFINE new == [q EXCEPT !.deletes = @ \ {k}]
    <3>1. tick' = [tick EXCEPT ![t] = new]
      BY <2>12
    <3>2. new.pc = "save" /\ new.host = q.host /\ new.start = q.start
      BY <2>0, <2>12 DEF Tick
    <3>3. \A j \in Key : table'[j] \in {table[j], q.host.kv[j], Absent}
      BY <1>0, <2>12 DEF KvMap
    <3> HIDE DEF new
    <3> QED
      BY <2>6, <2>12, <3>1, <3>2, <3>3 DEF Working
  <2>13. CASE SaveDelete(t)
    BY <2>12, <2>13 DEF SaveDelete, At
  <2>14. CASE SaveError(t)
    BY <2>10, <2>12, <2>14 DEF SaveError, At
  <2> QED
    BY <1>3, <2>2, <2>4, <2>5, <2>7, <2>8, <2>9, <2>11, <2>13, <2>14 DEF TickStep, Save
<1> QED
  BY <1>1, <1>2, <1>3 DEF Next

LEMMA GenuineInit == Init => GenuineInv
<1> SUFFICES ASSUME Init PROVE GenuineInv
  OBVIOUS
<1>1. TypeOK
  BY TypeInit
<1>2. Loading = {}
  BY RestTyped DEF Init, Loading
<1>3. IsFiniteSet(Loading) /\ Loaders = 0 /\ begun = 0 /\ begun - Loaders = 0
  BY <1>2, FS_EmptySet DEF Loaders, Init
<1>4. Genuine(table, 0, now)
  BY <1>1, EmptyGenuine DEF Init, TypeOK
<1>5. \A t \in Tickers : tick[t].start <= now /\ ~Working(tick[t])
  BY TicksAssumption DEF Init, Rest, Working
<1> QED
  BY <1>1, <1>3, <1>4, <1>5 DEF GenuineInv

\* The stored tick count never exceeds the ticks begun, and neither the stored
\* time of the last tick nor that of any rate limit lies ahead of the clock.
NothingInvented == Genuine(table, begun, now)

\* Whoever else ticks, whatever fails and wherever a tick is aborted, the rows
\* the runtime keeps for a vigy say no more than what happened: vigy-ticks
\* counts no tick that was not begun, and no vigy-rate-limited? waits for a time
\* that is still to come.  Each tick adds at most one to the count it loaded, and
\* every row a save leaves is one that was there, one its tick loaded or wrote, or none.
THEOREM NothingIsInvented ==
  ASSUME OwnKeysOnly
  PROVE  Spec => []NothingInvented
<1>1. GenuineInv => NothingInvented
  <2> SUFFICES ASSUME GenuineInv PROVE NothingInvented
    OBVIOUS
  <2>1. /\ table \in KvMap /\ begun \in Nat /\ now \in Nat /\ Loaders \in Nat
        /\ Genuine(table, begun - Loaders, now)
    BY FS_CardinalityType DEF GenuineInv, TypeOK, Loaders
  <2>2. begun - Loaders \in Int /\ begun - Loaders <= begun /\ begun \in Int /\ now <= now
    BY <2>1
  <2> QED
    BY <2>1, <2>2, GenuineMore DEF NothingInvented
<1> QED
  BY <1>1, GenuineInit, GenuineStep, PTL DEF Spec

================================================================================
