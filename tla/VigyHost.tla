-------------------------------- MODULE VigyHost --------------------------------
(***************************************************************************)
(* The key-value half of vigy-eval's VigyHost: the working copy of a       *)
(* vigy's kv rows that one tick's program reads and writes, with the sets  *)
(* of keys it has touched.  Pure operators: what each verb makes of a host *)
(* and what the runtime saves of it.  The other buffers (actions, log,     *)
(* trace, metrics, events, desired, observed, conditions) are write-only   *)
(* for the program and leave no state behind a tick.                       *)
(***************************************************************************)
EXTENDS Integers

CONSTANTS
  Names,     \* the names programs pass to the verbs
  Text,      \* any JSON value that as_i64 does not read: true, a string, ...
  Absent,    \* no row, no entry
  MaxInt     \* i64::MAX

\* A program's own key is its name; three verbs write under a prefix, and the
\* runtime keeps two keys of its own.
Plain(n)   == <<"plain", n>>
OnceKey(n) == <<"once", n>>
MarkKey(n) == <<"converged", n>>
RateKey(n) == <<"ratelimit", n>>
TickCount  == <<"sys", "tick_count">>
PrevTick   == <<"sys", "prev_tick_ms">>

Key == ({"plain", "once", "converged", "ratelimit"} \X Names) \cup {TickCount, PrevTick}

Value == Int \cup {Text}
KvMap == [Key -> Value \cup {Absent}]
Host  == [kv : KvMap, dirty : SUBSET Key, deleted : SUBSET Key]

ASSUME HostAssumption ==
  /\ MaxInt \in Nat
  /\ Text \notin Int /\ Absent \notin Int /\ Text # Absent
  /\ Absent \notin KvMap

Empty == [k \in Key |-> Absent]

\* as_i64().unwrap_or(0)
AsInt(x) == IF x \in Int THEN x ELSE 0

\* i64::saturating_add
SaturatingAdd(a, b) ==
  CASE a + b > MaxInt      -> MaxInt
    [] a + b < -MaxInt - 1 -> -MaxInt - 1
    [] OTHER               -> a + b

\* kv.insert and kv_dirty.insert.
Buffered(h, k, v) ==
  [kv |-> [h.kv EXCEPT ![k] = v], dirty |-> h.dirty \cup {k}, deleted |-> h.deleted]

\* vigy-set, vigy-incr, vigy-del.
M_SetKey(h, k, v) == Buffered(h, k, v)
SetKey(h, k, v) ==
  [kv |-> [h.kv EXCEPT ![k] = v], dirty |-> h.dirty \cup {k}, deleted |-> h.deleted \ {k}]
IncrKey(h, k, d) == SetKey(h, k, SaturatingAdd(AsInt(h.kv[k]), d))
DelKey(h, k) ==
  [kv |-> [h.kv EXCEPT ![k] = Absent], dirty |-> h.dirty \ {k}, deleted |-> h.deleted \cup {k}]

\* vigy-once: whether it answers true, and the host after it.  Unlike vigy-set
\* the three verbs below leave kv_deleted alone.
OnceSays(h, n)   == h.kv[OnceKey(n)] = Absent
M_OnceHost(h, n) == [h EXCEPT !.kv[OnceKey(n)] = Text]
OnceHost(h, n)   == IF OnceSays(h, n) THEN Buffered(h, OnceKey(n), Text) ELSE h

\* vigy-mark-converged writes a timestamp string.
MarkHost(h, n) == Buffered(h, MarkKey(n), Text)

\* vigy-rate-limited? in a tick that started at `now`.
RateLimited(h, n, ms, now) == now - AsInt(h.kv[RateKey(n)]) < ms
M_RateHost(h, n, ms, now) == h
RateHost(h, n, ms, now) ==
  IF RateLimited(h, n, ms, now) THEN h ELSE Buffered(h, RateKey(n), now)

\* The host a tick starts with, from the rows load_kv returned.
Loaded(kv, start) ==
  [kv      |-> [kv EXCEPT ![TickCount] = AsInt(kv[TickCount]) + 1, ![PrevTick] = start],
   dirty   |-> {TickCount, PrevTick},
   deleted |-> {}]

\* The keys save_kv is to upsert: kv_dirty as far as kv still has them.
ToUpsert(h) == {k \in h.dirty : h.kv[k] # Absent}

\* What save_kv makes of the rows: the upserts, then the deletes.
Flushed(kv, upserts, deletes, h) ==
  [k \in Key |-> IF k \in deletes THEN Absent
                 ELSE IF k \in upserts THEN h.kv[k] ELSE kv[k]]

================================================================================
