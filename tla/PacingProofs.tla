------------------------------ MODULE PacingProofs ------------------------------
(***************************************************************************)
(* What holds of a loop's sleeps for every interval, lateness of timers    *)
(* and order of registrations: two ticks lie as far apart as the code      *)
(* documents, and the loop follows its row.                                *)
(***************************************************************************)
EXTENDS Pacing, TLAPS

(***************************************************************************)
(* The pauses                                                              *)
(***************************************************************************)
LEMMA BackoffTyped == \A n \in Nat \ {0} : BackoffFor(n) \in Nat
<1> SUFFICES ASSUME NEW n \in Nat \ {0} PROVE BackoffFor(n) \in Nat
  OBVIOUS
<1>1. LowerOf(n - 1, 5) \in 0..5
  BY DEF LowerOf
<1>2. \A k \in 0..5 : 2 ^ k \in Nat
  <2> SUFFICES ASSUME NEW k \in 0..5 PROVE 2 ^ k \in Nat
    OBVIOUS
  <2>1. CASE k = 0
    BY <2>1
  <2>2. CASE k = 1
    BY <2>2
  <2>3. CASE k = 2
    BY <2>3
  <2>4. CASE k = 3
    BY <2>4
  <2>5. CASE k = 4
    BY <2>5
  <2>6. CASE k = 5
    BY <2>6
  <2> QED
    BY <2>1, <2>2, <2>3, <2>4, <2>5, <2>6
<1> QED
  BY <1>1, <1>2, PacingAssumption DEF BackoffFor, LowerOf

\* backoff_for pauses as its comment says.
LEMMA BackoffDocumented ==
  ASSUME MaxBackoff = 30
  PROVE  \A n \in Nat \ {0} : BackoffFor(n) = PauseAfter(n)
<1> SUFFICES ASSUME NEW n \in Nat \ {0} PROVE BackoffFor(n) = PauseAfter(n)
  OBVIOUS
<1>1. 2 ^ 0 = 1 /\ 2 ^ 1 = 2 /\ 2 ^ 2 = 4 /\ 2 ^ 3 = 8 /\ 2 ^ 4 = 16 /\ 2 ^ 5 = 32
  OBVIOUS
<1>2. CASE n > 5
  <2>1. LowerOf(n - 1, 5) = 5
    BY <1>2 DEF LowerOf
  <2>2. PauseAfter(n) = 30
    BY <1>2 DEF PauseAfter
  <2>3. BackoffFor(n) = LowerOf(2 ^ 5, MaxBackoff)
    BY <2>1 DEF BackoffFor
  <2>4. LowerOf(2 ^ 5, MaxBackoff) = 30
    BY <1>1 DEF LowerOf
  <2> QED
    BY <2>2, <2>3, <2>4
<1>3. CASE n = 1
  BY <1>1, <1>3 DEF BackoffFor, LowerOf, PauseAfter
<1>4. CASE n = 2
  BY <1>1, <1>4 DEF BackoffFor, LowerOf, PauseAfter
<1>5. CASE n = 3
  BY <1>1, <1>5 DEF BackoffFor, LowerOf, PauseAfter
<1>6. CASE n = 4
  BY <1>1, <1>6 DEF BackoffFor, LowerOf, PauseAfter
<1>7. CASE n = 5
  BY <1>1, <1>7 DEF BackoffFor, LowerOf, PauseAfter
<1> QED
  BY <1>2, <1>3, <1>4, <1>5, <1>6, <1>7

LEMMA CountTyped == \A n \in 0..MaxFailures : SaturatingInc(n) \in 1..MaxFailures
BY PacingAssumption DEF SaturatingInc, LowerOf

(***************************************************************************)
(* Typing, and the row's interval                                          *)
(***************************************************************************)
\* Whoever holds an interval that nobody has written over since holds the row's.
HeldIsStored ==
  \A c \in Callers :
    call[c].pc \in {"registering", "enabling"} =>
      /\ call[c].interval \in Intervals
      /\ ~call[c].overtaken => call[c].interval = stored

\* The writer of the row's interval, if its spawn is still to come.
Owes(c) == call[c].pc = "registering" /\ ~call[c].overtaken

\* The loop follows the row, or the last writer of the row is yet to spawn.
LoopOrWriter == ~passed => loop.interval = stored \/ \E c \in Callers : Owes(c)

PacingInv == TypeOK /\ HeldIsStored /\ LoopOrWriter

LoopType == [pc : {"sleep", "tick", "backoff"}, interval : Intervals,
             failures : 0..MaxFailures, left : Int]

LEMMA SleepingTyped ==
  ASSUME NEW i \in Intervals, NEW n \in 0..MaxFailures
  PROVE  /\ Sleeping(i, n) \in LoopType
         /\ Sleeping(i, n).left >= -Jitter
         /\ Sleeping(i, n).interval = i
BY PacingAssumption DEF Sleeping, LoopType

LEMMA PacingInit == Init => PacingInv
<1> SUFFICES ASSUME Init PROVE PacingInv
  OBVIOUS
<1>1. stored \in Intervals /\ loop = Sleeping(stored, 0) /\ 0 \in 0..MaxFailures
  BY PacingAssumption DEF Init
<1>2. loop \in LoopType /\ loop.left >= -Jitter /\ loop.interval = stored
  BY <1>1, SleepingTyped
<1>3. call \in [Callers -> CallType] /\ \A c \in Callers : call[c].pc = "idle"
  BY DEF Init, Idle, CallType
<1>4. TypeOK
  BY <1>1, <1>2, <1>3, PacingAssumption DEF Init, TypeOK, LoopType
<1> QED
  BY <1>2, <1>3, <1>4 DEF PacingInv, HeldIsStored, LoopOrWriter

\* What a write of the row by somebody else does to the calls.
LEMMA OvertakenCalls ==
  ASSUME call \in [Callers -> CallType]
  PROVE  /\ Overtaken \in [Callers -> CallType]
         /\ \A c \in Callers :
              /\ Overtaken[c].pc = call[c].pc /\ Overtaken[c].interval = call[c].interval
              /\ call[c].pc \in {"registering", "enabling"} => Overtaken[c].overtaken
<1>1. \A c \in Callers : call[c] \in CallType
  OBVIOUS
<1>2. \A c \in Callers :
        /\ Overtaken[c] \in CallType
        /\ Overtaken[c].pc = call[c].pc /\ Overtaken[c].interval = call[c].interval
        /\ call[c].pc \in {"registering", "enabling"} => Overtaken[c].overtaken
  BY <1>1 DEF Overtaken, CallType
<1> QED
  BY <1>2 DEF Overtaken

LEMMA HoldsTyped ==
  ASSUME NEW pc \in {"idle", "get", "registering", "enabling"},
         NEW i \in Intervals \cup {0}
  PROVE  /\ Holds(pc, i) \in CallType /\ Idle \in CallType
         /\ Holds(pc, i).pc = pc /\ Holds(pc, i).interval = i
         /\ ~Holds(pc, i).overtaken /\ Idle.pc = "idle"
BY DEF Holds, Idle, CallType

\* A step that leaves the row, the calls and the loop's interval alone keeps the
\* bond between them.
LEMMA BondKept ==
  ASSUME HeldIsStored, LoopOrWriter, UNCHANGED <<stored, call, passed>>,
         loop'.interval = loop.interval
  PROVE  HeldIsStored' /\ LoopOrWriter'
BY DEF HeldIsStored, LoopOrWriter, Owes

LEMMA PacingStep == PacingInv /\ [Next]_vars => PacingInv'
<1> SUFFICES ASSUME PacingInv, [Next]_vars PROVE PacingInv'
  OBVIOUS
<1> USE PacingAssumption
<1>0. /\ loop \in LoopType
      /\ LoopType = [pc : {"sleep", "tick", "backoff"}, interval : Intervals,
                     failures : 0..MaxFailures, left : Int]
      /\ TypeOK /\ HeldIsStored /\ LoopOrWriter
      /\ call \in [Callers -> CallType]
  BY DEF PacingInv, TypeOK, LoopType
<1>1. CASE Wake
  <2>1. loop' \in LoopType /\ loop'.left = loop.left /\ loop'.interval = loop.interval
    BY <1>0, <1>1 DEF Wake
  <2>2. UNCHANGED <<stored, call, passed, silent, streak>>
    BY <1>1 DEF Wake
  <2>3. TypeOK'
    BY <1>0, <2>1, <2>2 DEF TypeOK
  <2> QED
    BY <1>0, <2>1, <2>2, <2>3, BondKept DEF PacingInv
<1>2. CASE TickOk
  <2>1. loop.interval \in Intervals /\ 0 \in 0..MaxFailures
    BY <1>0
  <2>2. loop' \in LoopType /\ loop'.left >= -Jitter /\ loop'.interval = loop.interval
    BY <1>2, <2>1, SleepingTyped DEF TickOk
  <2>3. TypeOK'
    BY <1>0, <1>2, <2>1, <2>2 DEF TypeOK, TickOk
  <2> QED
    BY <1>0, <1>2, <2>2, <2>3, BondKept DEF PacingInv, TickOk
<1>3. CASE TickFailed
  <2> DEFINE failures == SaturatingInc(loop.failures)
  <2>1. failures \in 1..MaxFailures /\ SaturatingInc(streak) \in 0..MaxFailures
    BY CountTyped DEF PacingInv, TypeOK
  <2>2. BackoffFor(failures) \in Nat
    BY <2>1, BackoffTyped
  <2>3. loop' = [loop EXCEPT !.pc = "backoff", !.failures = failures,
                             !.left = BackoffFor(failures)]
    BY <1>3 DEF TickFailed
  <2> HIDE DEF failures
  <2>4. failures \in 0..MaxFailures /\ BackoffFor(failures) \in Int
    BY <2>1, <2>2
  <2>5. loop' \in LoopType
    BY <1>0, <2>3, <2>4
  <2>6. loop'.left = BackoffFor(failures) /\ loop'.interval = loop.interval
    BY <1>0, <2>3
  <2>7. loop'.left >= -Jitter
    BY <2>2, <2>6
  <2>8. TypeOK'
    BY <1>0, <1>3, <2>1, <2>5, <2>7 DEF TypeOK, TickFailed
  <2> QED
    BY <1>0, <1>3, <2>6, <2>8, BondKept DEF PacingInv, TickFailed
<1>4. CASE BackoffOver
  <2>1. /\ loop' \in LoopType /\ loop'.left >= -Jitter
        /\ loop'.interval = loop.interval
    BY <1>0, <1>4, SleepingTyped DEF BackoffOver
  <2>2. TypeOK'
    BY <1>0, <1>4, <2>1 DEF TypeOK, BackoffOver
  <2> QED
    BY <1>0, <1>4, <2>1, <2>2, BondKept DEF PacingInv, BackoffOver
<1>5. CASE Elapse
  <2>1. TypeOK' /\ loop'.interval = loop.interval
    BY <1>0, <1>5 DEF TypeOK, Elapse
  <2> QED
    BY <1>0, <1>5, <2>1, BondKept DEF PacingInv, Elapse
<1>6. ASSUME NEW c \in Callers, Enable(c) PROVE PacingInv'
  <2>1. Holds("get", 0) \in CallType /\ Holds("get", 0).pc = "get"
    BY HoldsTyped
  <2>2. /\ call' \in [Callers -> CallType] /\ call'[c].pc = "get"
        /\ \A d \in Callers \ {c} : call'[d] = call[d]
        /\ call[c].pc = "idle"
    BY <1>0, <1>6, <2>1 DEF Enable
  <2>3. UNCHANGED <<stored, loop, passed, silent, streak>>
    BY <1>6 DEF Enable
  <2>4. TypeOK'
    BY <1>0, <2>2, <2>3 DEF TypeOK
  <2> QED
    BY <1>0, <2>2, <2>3, <2>4 DEF PacingInv, HeldIsStored, LoopOrWriter, Owes
<1>7. ASSUME NEW c \in Callers, Get(c) PROVE PacingInv'
  <2> DEFINE held == Holds("enabling", stored)
  <2>1. stored \in Intervals
    BY <1>0 DEF TypeOK
  <2>2. /\ held \in CallType /\ held.pc = "enabling"
        /\ held.interval = stored /\ ~held.overtaken
    BY <2>1, HoldsTyped
  <2>3. /\ call' = [call EXCEPT ![c] = held] /\ call[c].pc = "get"
        /\ UNCHANGED <<stored, loop, passed, silent, streak>>
    BY <1>7 DEF Get
  <2> HIDE DEF held
  <2>4. /\ call' \in [Callers -> CallType] /\ call'[c] = held
        /\ \A d \in Callers \ {c} : call'[d] = call[d]
    BY <1>0, <2>2, <2>3
  <2>5. TypeOK'
    BY <1>0, <2>3, <2>4 DEF TypeOK
  <2> QED
    BY <1>0, <2>1, <2>2, <2>3, <2>4, <2>5
       DEF PacingInv, HeldIsStored, LoopOrWriter, Owes
<1>8. ASSUME NEW c \in Callers, Respawn(c) PROVE PacingInv'
  <2>1. /\ call[c].pc \in {"registering", "enabling"}
        /\ call[c].interval \in Intervals /\ 0 \in 0..MaxFailures
        /\ ~call[c].overtaken => call[c].interval = stored
        /\ call[c].overtaken \in BOOLEAN
    BY <1>0, <1>8 DEF Respawn, HeldIsStored, CallType
  <2>2. /\ loop' \in LoopType /\ loop'.left >= -Jitter
        /\ loop'.interval = call[c].interval
    BY <1>8, <2>1, SleepingTyped DEF Respawn
  <2>3. /\ call' \in [Callers -> CallType] /\ call'[c].pc = "idle"
        /\ \A d \in Callers \ {c} : call'[d] = call[d]
    BY <1>0, <1>8 DEF Respawn, Idle, CallType
  <2>4. passed' = call[c].overtaken /\ silent' = 0 /\ streak' = 0 /\ stored' = stored
    BY <1>8 DEF Respawn
  <2>5. TypeOK'
    BY <1>0, <2>1, <2>2, <2>3, <2>4 DEF TypeOK, LoopType
  <2>6. HeldIsStored'
    BY <1>0, <2>3, <2>4 DEF HeldIsStored
  <2>7. LoopOrWriter'
    BY <2>1, <2>2, <2>4 DEF LoopOrWriter
  <2> QED
    BY <2>5, <2>6, <2>7 DEF PacingInv
<1>9. ASSUME NEW c \in Callers, Abandon(c) PROVE PacingInv'
  <2>1. /\ call' \in [Callers -> CallType] /\ call'[c].pc = "idle"
        /\ \A d \in Callers \ {c} : call'[d] = call[d]
    BY <1>0, <1>9 DEF Abandon, Idle, CallType
  <2>2. /\ passed' = (passed \/ Owes(c))
        /\ UNCHANGED <<stored, loop, silent, streak>>
    BY <1>9 DEF Abandon, Owes
  <2>3. TypeOK'
    BY <1>0, <2>1, <2>2 DEF TypeOK
  <2>4. HeldIsStored'
    BY <1>0, <2>1, <2>2 DEF HeldIsStored
  <2>5. LoopOrWriter'
    BY <1>0, <2>1, <2>2 DEF LoopOrWriter, Owes
  <2> QED
    BY <2>3, <2>4, <2>5 DEF PacingInv
<1>10. ASSUME NEW c \in Callers, NEW i \in Intervals, Upsert(c, i) PROVE PacingInv'
  <2> DEFINE held == Holds("registering", i)
  <2>1. /\ held \in CallType /\ held.pc = "registering"
        /\ held.interval = i /\ ~held.overtaken
    BY HoldsTyped
  <2>2. /\ call' = [Overtaken EXCEPT ![c] = held] /\ stored' = i
        /\ UNCHANGED <<loop, passed, silent, streak>>
    BY <1>10 DEF Upsert
  <2> HIDE DEF held
  <2>3. /\ call' \in [Callers -> CallType] /\ call'[c] = held
        /\ \A d \in Callers \ {c} : call'[d] = Overtaken[d]
    BY <1>0, <2>1, <2>2, OvertakenCalls
  <2>4. TypeOK'
    BY <1>0, <2>2, <2>3 DEF TypeOK
  <2>5. HeldIsStored'
    BY <1>0, <2>1, <2>2, <2>3, OvertakenCalls DEF HeldIsStored
  <2>6. LoopOrWriter'
    BY <2>1, <2>3 DEF LoopOrWriter, Owes
  <2> QED
    BY <2>4, <2>5, <2>6 DEF PacingInv
<1>11. ASSUME NEW i \in Intervals, UpsertElsewhere(i) PROVE PacingInv'
  <2>1. /\ stored' = i /\ passed' = TRUE /\ call' = Overtaken
        /\ UNCHANGED <<loop, silent, streak>>
    BY <1>11 DEF UpsertElsewhere
  <2>2. TypeOK'
    BY <1>0, <2>1, OvertakenCalls DEF TypeOK
  <2>3. HeldIsStored'
    BY <1>0, <2>1, OvertakenCalls DEF HeldIsStored
  <2> QED
    BY <2>1, <2>2, <2>3 DEF PacingInv, LoopOrWriter
<1>12. CASE UNCHANGED vars
  BY <1>12 DEF PacingInv, TypeOK, HeldIsStored, LoopOrWriter, Owes, vars
<1> QED
  BY <1>1, <1>2, <1>3, <1>4, <1>5, <1>6, <1>7, <1>8, <1>9, <1>10, <1>11, <1>12
     DEF Next, LoopStep

LEMMA PacingInvariant == Spec => []PacingInv
BY PacingInit, PacingStep, PTL DEF Spec

\* The loop, its timers and its counter keep their types: the pause is a number
\* of seconds for every count of failures, the saturated one included.
THEOREM TypeCorrect == Spec => []TypeOK
<1>1. PacingInv => TypeOK
  BY DEF PacingInv
<1> QED
  BY <1>1, PacingInvariant, PTL

\* Whatever number of calls register and enable the vigy at a time, in whatever
\* order their steps and those of the loop come: once they are through, the loop
\* spawned last sleeps what the row says, unless another process wrote the row, a
\* registration was dropped before its spawn, or the call that spawned the loop
\* was overtaken by a write.
THEOREM LoopFollowsRow == Spec => []PacedAsStored
<1>1. PacingInv => PacedAsStored
  BY DEF PacingInv, LoopOrWriter, Owes, PacedAsStored, Quiet
<1> QED
  BY <1>1, PacingInvariant, PTL

(***************************************************************************)
(* The distance of two ticks                                               *)
(***************************************************************************)
\* What the loop has slept since its last tick and has left to sleep make its
\* pause and its interval, but for how late the pause's timer was.
Slept ==
  /\ loop.failures = streak
  /\ loop.pc = "backoff" => silent + loop.left = PauseAfter(streak)
  /\ loop.pc = "sleep" =>
       (silent + loop.left) - (loop.interval + PauseAfter(streak)) \in 0..Jitter

LEMMA PauseTyped == \A n \in Nat : PauseAfter(n) \in Nat
BY DEF PauseAfter

LEMMA SleptInit == Init => Slept
BY PacingAssumption DEF Init, Slept, Sleeping, PauseAfter

LEMMA SleptStep ==
  ASSUME MaxBackoff = 30
  PROVE  PacingInv /\ Slept /\ [Next]_vars => Slept'
<1> SUFFICES ASSUME PacingInv, Slept, [Next]_vars PROVE Slept'
  OBVIOUS
<1> USE PacingAssumption
<1>a. TypeOK /\ PauseAfter(streak) \in Nat
  BY PauseTyped DEF PacingInv, TypeOK
<1>c. /\ loop.left \in Int /\ loop.left >= -Jitter
      /\ loop.interval \in Nat /\ silent \in Nat /\ Jitter \in Nat
  BY <1>a DEF TypeOK
<1>b. PauseAfter(0) = 0
  BY DEF PauseAfter
<1>1. CASE Wake
  BY <1>1, <1>a DEF TypeOK, Wake, Slept
<1>2. CASE TickOk
  <2>1. /\ loop'.pc = "sleep" /\ loop'.left = loop.interval
        /\ loop'.interval = loop.interval /\ loop'.failures = 0
        /\ silent' = 0 /\ streak' = 0
    BY <1>2 DEF TickOk, Sleeping
  <2> QED
    BY <1>b, <1>c, <2>1 DEF Slept
<1>3. CASE TickFailed
  <2> DEFINE failures == SaturatingInc(loop.failures)
  <2>1. failures \in 1..MaxFailures
    BY <1>a, CountTyped DEF TypeOK
  <2>2. BackoffFor(failures) \in Nat /\ BackoffFor(failures) = PauseAfter(failures)
    BY <2>1, BackoffTyped, BackoffDocumented
  <2>3. /\ loop' = [loop EXCEPT !.pc = "backoff", !.failures = failures,
                                !.left = BackoffFor(failures)]
        /\ silent' = 0 /\ streak' = failures
    BY <1>3 DEF TickFailed, Slept
  <2> HIDE DEF failures
  <2> QED
    BY <1>a, <2>1, <2>2, <2>3 DEF TypeOK, Slept
<1>4. CASE BackoffOver
  <2>1. /\ loop.pc = "backoff" /\ loop.left <= 0
        /\ loop'.pc = "sleep" /\ loop'.left = loop.interval
        /\ loop'.interval = loop.interval /\ loop'.failures = loop.failures
        /\ silent' = silent /\ streak' = streak
    BY <1>4 DEF BackoffOver, Sleeping
  <2> QED
    BY <1>a, <1>c, <2>1 DEF Slept
<1>5. CASE Elapse
  BY <1>5, <1>a DEF TypeOK, Elapse, Slept
<1>6. ASSUME NEW c \in Callers, Enable(c) \/ Get(c) \/ Abandon(c) PROVE Slept'
  BY <1>6 DEF Enable, Get, Abandon, Slept
<1>7. ASSUME NEW c \in Callers, Respawn(c) PROVE Slept'
  <2>1. call[c].interval \in Nat
    BY <1>7 DEF PacingInv, HeldIsStored, Respawn
  <2> QED
    BY <1>7, <1>b, <2>1 DEF Respawn, Slept, Sleeping
<1>8. ASSUME NEW c \in Callers, NEW i \in Intervals, Upsert(c, i) PROVE Slept'
  BY <1>8 DEF Upsert, Slept
<1>9. ASSUME NEW i \in Intervals, UpsertElsewhere(i) PROVE Slept'
  BY <1>9 DEF UpsertElsewhere, Slept
<1>10. CASE UNCHANGED vars
  BY <1>10 DEF Slept, vars
<1> QED
  BY <1>1, <1>2, <1>3, <1>4, <1>5, <1>6, <1>7, <1>8, <1>9, <1>10 DEF Next, LoopStep

\* With the code's MAX_BACKOFF, two ticks of a loop lie its interval and the
\* documented pause apart, and no more than two late timers over, through any
\* number of failures up to and beyond the counter's limit.
THEOREM TicksArePaced == MaxBackoff = 30 /\ Spec => Paced
<1> SUFFICES ASSUME MaxBackoff = 30 PROVE Spec => Paced
  OBVIOUS
<1>1. PacingInv /\ Slept /\ [Next]_vars =>
        [loop.pc = "sleep" /\ loop'.pc = "tick" =>
           silent - (loop.interval + PauseAfter(streak)) \in 0..(2 * Jitter)]_vars
  <2> SUFFICES ASSUME PacingInv, Slept, Next, loop.pc = "sleep", loop'.pc = "tick"
               PROVE  silent - (loop.interval + PauseAfter(streak)) \in 0..(2 * Jitter)
    OBVIOUS
  <2>1. PauseAfter(streak) \in Nat
    BY PauseTyped, PacingAssumption DEF PacingInv, TypeOK
  <2>2. Wake
    BY DEF Next, LoopStep, TickOk, TickFailed, BackoffOver, Elapse, Enable, Get, Respawn,
           Abandon, Upsert, UpsertElsewhere, Sleeping, PacingInv, TypeOK
  <2> QED
    BY <2>1, <2>2, PacingAssumption DEF Wake, Slept, PacingInv, TypeOK
<1>2. PacingInv /\ Slept /\ [Next]_vars => Slept'
  BY SleptStep
<1> QED
  BY <1>1, <1>2, SleptInit, PacingInvariant, PTL DEF Spec, Paced

================================================================================
