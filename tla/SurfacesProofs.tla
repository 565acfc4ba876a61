----------------------------- MODULE SurfacesProofs -----------------------------
(***************************************************************************)
(* What holds of Surfaces for every word size, minimum interval, set of    *)
(* vigies, payloads and clients, and with every fault.                     *)
(***************************************************************************)
EXTENDS Surfaces, TLAPS

(***************************************************************************)
(* Rows and the vigies they stand for                                      *)
(***************************************************************************)
\* A stored vigy reads back as it was: the two casts undo each other.
LEMMA Codec ==
  ASSUME NEW p \in Vigy
  PROVE  Encoded(p) \in Columns /\ Decoded(Encoded(p)) = p
<1>1. CASE p.ms < Half
  <2>1. p.ms \in -Half .. Half - 1 /\ ~(p.ms < 0)
    BY <1>1, WordAssumption DEF Vigy, Word
  <2>2. Encoded(p) = p /\ Decoded(p) = p
    BY <1>1, <2>1 DEF Encoded, Decoded, Vigy
  <2> QED
    BY <2>1, <2>2 DEF Vigy, Columns
<1>2. CASE ~(p.ms < Half)
  <2>1. p.ms - 2 * Half \in -Half .. Half - 1 /\ p.ms - 2 * Half < 0
        /\ p.ms - 2 * Half + 2 * Half = p.ms
    BY <1>2, WordAssumption DEF Vigy, Word
  <2>2. Encoded(p) = [p EXCEPT !.ms = p.ms - 2 * Half]
    BY <1>2 DEF Encoded
  <2>3. Decoded(Encoded(p)) = [Encoded(p) EXCEPT !.ms = p.ms]
    BY <2>1, <2>2 DEF Decoded, Vigy
  <2> QED
    BY <2>1, <2>2, <2>3 DEF Vigy, Columns
<1> QED
  BY <1>1, <1>2

LEMMA DecodedTyped ==
  ASSUME NEW m \in Columns
  PROVE  Decoded(m) \in Vigy
BY WordAssumption DEF Decoded, Columns, Vigy, Word

\* Switching a row on or off switches what it reads back as, and nothing else.
LEMMA SwitchDecoded ==
  ASSUME NEW m \in Columns, NEW on \in BOOLEAN
  PROVE  LET n == [m EXCEPT !.enabled = on] IN
         /\ n \in Columns
         /\ Decoded(n) = [Decoded(m) EXCEPT !.enabled = on]
         /\ Decoded(n).ms = Decoded(m).ms
BY WordAssumption DEF Decoded, Columns

LEMMA RowsAreVigies ==
  /\ NoRow \notin Vigy /\ NoRow \notin Columns
  /\ TypeOK => \A v \in Vigies : Present(v) \in Vigy \cup {NoRow}
<1>1. Vigy \subseteq [enabled : BOOLEAN, ms : Int, labels : LabelSets]
      /\ Columns \subseteq [enabled : BOOLEAN, ms : Int, labels : LabelSets]
  BY WordAssumption DEF Vigy, Columns, Word
<1> QED
  BY <1>1, InputAssumption, DecodedTyped DEF TypeOK, Present

\* A vigy with its interval as it is reads as itself.
LEMMA WordDecoded ==
  ASSUME NEW p \in Vigy
  PROVE  Decoded(p) = p /\ ~(p.ms < 0)
BY WordAssumption DEF Decoded, Vigy, Word

\* What a surface shows of p reads back as p, and is negative in a VigyDto only.
LEMMA ShownTrue ==
  ASSUME NEW k, NEW p \in Vigy
  PROVE  LET b == ShownBy(k, p) IN
         b # NoRow /\ Decoded(b) = p /\ (b.ms < 0 => k.dto)
BY Codec, WordDecoded, RowsAreVigies DEF ShownBy

(***************************************************************************)
(* The invariant                                                           *)
(***************************************************************************)
\* What is true of a call k while the table says `now` of its vigy: it knows
\* what it has seen, and what it is to answer with is among that.
CallGood(k, now) ==
  /\ k.pc \in {"read", "runs", "record"} => k.op \in ById
  /\ k.pc = "record" => k.op = "tick"
  /\ k.op = "register" /\ k.pc \in {"find", "write"} => k.want \in Registrable
  /\ k.pc \notin {"idle", "answered"} => now \in k.seen
  /\ k.pc = "write" /\ k.read = NoRow => NoRow \in k.seen
  /\ k.pc \in {"runs", "record"} /\ k.op # "state" => TellsTruth(k)
  /\ k.pc = "answered" /\ ~k.broken =>
       /\ k.answer \in {"vigy", "run"} => TellsTruth(k)
       /\ k.answer \in {"gone", "failed"} => NoRow \in k.seen
       /\ k.answer = "deleted" => k.seen \ {NoRow} # {}

Inv == /\ TypeOK /\ RowsReadable
       /\ \A c \in Clients : CallGood(call[c], Present(call[c].vigy))

LEMMA IdleGood == Idle \in CallType /\ \A now : CallGood(Idle, now)
BY InputAssumption DEF Idle, CallType, CallGood, Pc, Answer, AnyVigy

LEMMA InvInit == Init => Inv
BY IdleGood DEF Init, Inv, TypeOK, RowsReadable, Idle

\* A step that leaves the table alone and gives one call a good new state.
LEMMA OneCallMoves ==
  ASSUME Inv, NEW c \in Clients, NEW k \in CallType, UNCHANGED row,
         call' = [call EXCEPT ![c] = k], CallGood(k, Present(k.vigy))
  PROVE  Inv'
<1>1. call'[c] = k /\ \A d \in Clients \ {c} : call'[d] = call[d]
  BY DEF Inv, TypeOK
<1>2. TypeOK'
  BY DEF Inv, TypeOK
<1>3. RowsReadable'
  BY DEF Inv, RowsReadable
<1>4. \A v : Present(v)' = Present(v)
  BY DEF Present
<1> QED
  BY <1>1, <1>2, <1>3, <1>4 DEF Inv

\* The other calls about v while the table comes to say `now` of it.
LEMMA OthersNote ==
  ASSUME Inv, NEW v \in Vigies, NEW now \in Vigy \cup {NoRow}, NEW d \in Clients,
         NEW then, call[d].vigy = v => then = now, call[d].vigy # v => then = Present(call[d].vigy)
  PROVE  Noted(v, now)[d] \in CallType /\ CallGood(Noted(v, now)[d], then)
         /\ Noted(v, now)[d].vigy = call[d].vigy
<1>1. call[d] \in CallType /\ CallGood(call[d], Present(call[d].vigy))
  BY DEF Inv, TypeOK
<1>2. CASE Active(d) /\ call[d].vigy = v
  <2>1. Noted(v, now)[d] = [call[d] EXCEPT !.seen = @ \cup {now}]
    BY <1>2 DEF Noted
  <2> QED
    <3> DEFINE k == call[d]
               n == Noted(v, now)[d]
    <3>1. /\ n \in CallType /\ n.seen = k.seen \cup {now} /\ n.vigy = v
          /\ n.pc = k.pc /\ n.op = k.op /\ n.want = k.want /\ n.read = k.read
          /\ n.body = k.body /\ n.dto = k.dto
      BY <1>1, <1>2, <2>1 DEF CallType
    <3>2. TellsTruth(k) => TellsTruth(n)
      BY <3>1 DEF TellsTruth
    <3>3. n.pc \notin {"idle", "answered"} /\ CallGood(k, Present(k.vigy)) /\ then = now
      BY <1>1, <1>2, <3>1 DEF Active
    <3> HIDE DEF k, n
    <3>4. CallGood(n, then)
      BY <3>1, <3>2, <3>3 DEF CallGood
    <3> QED
      BY <1>2, <3>1, <3>4 DEF k, n
<1>3. CASE ~(Active(d) /\ call[d].vigy = v)
  <2>1. Noted(v, now)[d] = call[d]
    BY <1>3 DEF Noted
  <2> QED
    BY <1>1, <1>3, <2>1 DEF CallGood, Active
<1> QED
  BY <1>2, <1>3

\* A step that writes one row and gives the call behind it a good new state.
LEMMA OneCallWrites ==
  ASSUME Inv, NEW c \in Clients, NEW v \in Vigies, NEW m \in Columns \cup {NoRow},
         NEW now, now = IF m = NoRow THEN NoRow ELSE Decoded(m), m # NoRow => Decodes(m),
         NEW k \in CallType, k.vigy = v, CallGood(k, now),
         row' = [row EXCEPT ![v] = m], call' = [Noted(v, now) EXCEPT ![c] = k]
  PROVE  Inv'
<1>1. now \in Vigy \cup {NoRow}
  BY DecodedTyped
<1>2. \A w \in Vigies : Present(w)' = IF w = v THEN now ELSE Present(w)
  BY DEF Inv, TypeOK, Present
<1>3. call'[c] = k /\ \A d \in Clients \ {c} : call'[d] = Noted(v, now)[d]
  BY DEF Noted
<1>4. ASSUME NEW d \in Clients
      PROVE  call'[d] \in CallType /\ CallGood(call'[d], Present(call[d].vigy)')
  <2>1. call[d].vigy \in Vigies
    BY DEF Inv, TypeOK, CallType
  <2> QED
    BY <1>1, <1>2, <1>3, <2>1, OthersNote
<1>5. TypeOK'
  <2>1. call' \in [Clients -> CallType]
    BY <1>4 DEF Noted
  <2> QED
    BY <2>1 DEF Inv, TypeOK
<1>6. RowsReadable'
  BY DEF Inv, TypeOK, RowsReadable
<1> QED
  BY <1>4, <1>5, <1>6 DEF Inv

\* What a reply is made of, for the steps that only reply.
LEMMA ReplyMoves ==
  ASSUME Inv, NEW c \in Clients, NEW answer \in Answer, Reply(c, answer), UNCHANGED row,
         ~call[c].broken /\ answer \in {"vigy", "run"} => TellsTruth(call[c]),
         ~call[c].broken /\ answer \in {"gone", "failed"} => NoRow \in call[c].seen,
         answer # "deleted"
  PROVE  Inv'
<1> DEFINE k == [call[c] EXCEPT !.pc = "answered", !.answer = answer]
<1>1. call[c] \in CallType
  BY DEF Inv, TypeOK
<1>a. /\ k \in CallType /\ k.pc = "answered" /\ k.answer = answer
      /\ k.broken = call[c].broken /\ k.seen = call[c].seen
      /\ k.body = call[c].body /\ k.dto = call[c].dto
  BY <1>1 DEF CallType, Pc
<1>b. TellsTruth(k) <=> TellsTruth(call[c])
  BY <1>a DEF TellsTruth
<1>2. k \in CallType /\ CallGood(k, Present(k.vigy))
  BY <1>a, <1>b DEF CallGood
<1>3. call' = [call EXCEPT ![c] = k]
  BY <1>1 DEF Reply, Inv, TypeOK, CallType
<1> QED
  BY <1>2, <1>3, OneCallMoves

LEMMA ArriveStep ==
  ASSUME Inv, NEW c \in Clients, Arrive(c)
  PROVE  Inv'
<1>0. TypeOK /\ call[c] \in CallType
  BY DEF Inv, TypeOK
<1>1. ASSUME NEW dto \in BOOLEAN, NEW op \in ById \cup {"register"}, NEW v \in Vigies, NEW want \in Vigy \cup {NoRow},
             NEW pc \in Pc, pc \in {"find", "read", "runs", "erase"},
             pc \in {"read", "runs"} => op \in ById, pc = "runs" => op = "state",
             op = "register" => want \in Registrable,
             Begin(c, dto, op, v, pc, want), UNCHANGED row
      PROVE  Inv'
  <2> DEFINE k == [Idle EXCEPT !.pc = pc, !.dto = dto, !.op = op, !.vigy = v,
                               !.want = want, !.seen = {Present(v)}]
  <2>1. k \in CallType
    <3>1. {Present(v)} \in SUBSET (Vigy \cup {NoRow})
      BY <1>0, RowsAreVigies
    <3> QED
      BY <1>1, <3>1, IdleGood DEF CallType
  <2>2. CallGood(k, Present(k.vigy))
    BY <1>1 DEF Idle, CallGood
  <2>3. call' = [call EXCEPT ![c] = k]
    BY <1>1 DEF Begin
  <2> QED
    BY <1>1, <2>1, <2>2, <2>3, OneCallMoves
<1>2. ASSUME At(c, "idle"), NEW answer \in {"refused", "list"}, Reply(c, answer), UNCHANGED row
      PROVE  Inv'
  BY <1>2, ReplyMoves DEF Answer
<1>3. ASSUME NEW s \in Registers, NEW v \in Vigies, Register(c, s, v) PROVE Inv'
  <2> PICK p \in Inputs :
         IF Takes(s, p) THEN Begin(c, FALSE, "register", v, "find", p.vigy)
         ELSE call' = [call EXCEPT ![c].pc = "answered", ![c].answer = "refused"]
    BY <1>3 DEF Register
  <2>1. CASE Takes(s, p)
    <3>1. p.vigy \in Vigy /\ p.vigy \in Registrable
      BY <2>1, InputAssumption DEF Payload, Registrable, Takes
    <3> QED
      BY <1>1, <1>3, <2>1, <3>1 DEF Register, Pc
  <2>2. CASE ~Takes(s, p)
    BY <1>2, <1>3, <2>2 DEF Register, Reply
  <2> QED
    BY <2>1, <2>2
<1>4. ASSUME NEW s \in Surface, NEW v \in Vigies, Request(c, s, v) PROVE Inv'
  <2> PICK op \in OpsOf[s] :
         Begin(c, s = "graphql" /\ op \in DtoOps, op, v, FirstStep[op], NoRow)
    BY <1>4 DEF Request
  <2>1. op \in ById
    BY DEF OpsOf, RestOps, GraphqlOps, McpOps, CliOps, Surface
  <2>2. FirstStep[op] \in {"find", "read", "runs", "erase"} /\ (FirstStep[op] = "runs" => op = "state")
    BY <2>1 DEF FirstStep, ById
  <2>3. op # "register" /\ FirstStep[op] \in Pc
    BY <2>1, <2>2 DEF ById, Pc
  <2>4. (s = "graphql" /\ op \in DtoOps) \in BOOLEAN
    OBVIOUS
  <2> QED
    BY <1>1, <1>4, <2>1, <2>2, <2>3, <2>4 DEF Request
<1>5. CASE BadId(c)
  BY <1>2, <1>5 DEF BadId
<1>6. CASE List(c)
  <2>1. ASSUME NEW answer \in Listed, Reply(c, answer) PROVE Inv'
    BY <1>2, <1>6, <2>1 DEF List, Listed, Inv, RowsReadable
  <2> DEFINE k == [call[c] EXCEPT !.pc = "answered", !.answer = "failed", !.broken = TRUE]
  <2>2. ASSUME call' = [call EXCEPT ![c] = k] PROVE Inv'
    <3>a. k \in CallType /\ k.pc = "answered" /\ k.broken
      BY <1>0 DEF CallType, Pc, Answer
    <3>1. k \in CallType /\ CallGood(k, Present(k.vigy))
      BY <3>a DEF CallGood
    <3> QED
      BY <1>6, <2>2, <3>1, OneCallMoves DEF List
  <2>3. call[c] \in CallType /\ call = [d \in Clients |-> call[d]]
    BY <1>0 DEF TypeOK
  <2> QED
    BY <1>6, <2>1, <2>2, <2>3 DEF List
<1> QED
  BY <1>3, <1>4, <1>5, <1>6 DEF Arrive

LEMMA StatementStep ==
  ASSUME Inv, NEW c \in Clients, Statement(c)
  PROVE  Inv'
<1> DEFINE k == call[c]
           v == k.vigy
<1>0. TypeOK /\ k \in CallType /\ v \in Vigies /\ CallGood(k, Present(v))
      /\ row[v] \in Columns \cup {NoRow}
  BY DEF Inv, TypeOK, CallType
<1>1. CASE Find(c)
  <2>1. CASE k.op = "register" \/ row[v] # NoRow
    <3> DEFINE n == [k EXCEPT !.pc = "write", !.read = row[v]]
    <3>1. n \in CallType
      BY <1>0 DEF CallType, Pc
    <3>2. CallGood(n, Present(n.vigy))
      BY <1>0, <1>1, <2>1 DEF Find, At, CallGood, CallType, Present
    <3>3. call' = [call EXCEPT ![c] = n]
      BY <1>0, <1>1, <2>1 DEF Find
    <3> QED
      BY <1>1, <3>1, <3>2, <3>3, OneCallMoves DEF Find
  <2>2. CASE ~(k.op = "register" \/ row[v] # NoRow)
    BY <1>0, <1>1, <2>2, ReplyMoves DEF Find, At, CallGood, Present, Answer
  <2> QED
    BY <2>1, <2>2
<1>2. CASE Upsert(c)
  <2>0. k.pc = "write" /\ k.want \in Registrable
    BY <1>0, <1>2 DEF Upsert, At, CallGood
  <2>1. CASE (k.read = NoRow) = (row[v] = NoRow)
    <3> DEFINE m == Encoded(k.want)
               n == [k EXCEPT !.pc = "answered", !.answer = "vigy",
                              !.body = k.want, !.seen = {Decoded(m)}]
    <3>1. m \in Columns /\ Decoded(m) = k.want /\ Decodes(m) /\ m # NoRow
      BY <2>0, Codec, RowsAreVigies DEF Registrable, Decodes
    <3>2. n \in CallType /\ n.vigy = v
      BY <1>0, <2>0, <3>1 DEF CallType, Pc, Answer, Registrable
    <3>a. TellsTruth(n)
      <4>1. n.body = k.want /\ n.seen = {k.want} /\ k.want \in Vigy
        BY <1>0, <2>0, <3>1 DEF CallType, Registrable
      <4> QED
        BY <4>1, WordDecoded, RowsAreVigies DEF TellsTruth
    <3>b. CallGood(n, Decoded(m))
      <4>1. n.pc = "answered" /\ n.answer = "vigy"
        BY <1>0 DEF CallType
      <4> QED
        BY <3>a, <4>1 DEF CallGood
    <3>3. row' = [row EXCEPT ![v] = m] /\ call' = [Noted(v, Decoded(m)) EXCEPT ![c] = n]
      <4> DEFINE F == Noted(v, Decoded(m))
      <4>1. F[c] = [k EXCEPT !.seen = @ \cup {Decoded(m)}] /\ F = [d \in Clients |-> F[d]]
        BY <2>0 DEF Noted, Active
      <4>2. /\ row' = [row EXCEPT ![v] = m]
            /\ call' = [F EXCEPT ![c].pc = "answered", ![c].answer = "vigy",
                                 ![c].body = k.want, ![c].seen = {Decoded(m)}]
        BY <1>2, <2>1 DEF Upsert
      <4> HIDE DEF m, F
      <4>3. [F[c] EXCEPT !.pc = "answered", !.answer = "vigy",
                         !.body = k.want, !.seen = {Decoded(m)}] = n
        BY <1>0, <4>1 DEF CallType
      <4>4. call' = [F EXCEPT ![c] = n]
        BY <4>1, <4>2, <4>3
      <4> QED
        BY <4>2, <4>4 DEF F
    <3> QED
      BY <1>0, <3>1, <3>2, <3>b, <3>3, OneCallWrites
  <2>2. CASE ~((k.read = NoRow) = (row[v] = NoRow))
    <3>1. NoRow \in k.seen
      BY <1>0, <2>0, <2>2 DEF CallGood, Present
    <3> QED
      BY <1>2, <2>2, <3>1, ReplyMoves DEF Upsert, Answer
  <2> QED
    BY <2>1, <2>2
<1>3. CASE SetEnabled(c)
  <2>0. k.pc = "write" /\ k.op \in {"enable", "disable"}
    BY <1>3 DEF SetEnabled, At
  <2>1. CASE row[v] # NoRow
    <3> DEFINE m == [row[v] EXCEPT !.enabled = (k.op = "enable")]
               n == [k EXCEPT !.pc = "read", !.seen = {Decoded(m)}]
    <3>1. m \in Columns /\ Decodes(m) /\ m # NoRow /\ Decoded(m) \in Vigy
      BY <1>0, <2>1, SwitchDecoded, RowsAreVigies, DecodedTyped DEF Inv, RowsReadable, Decodes
    <3>2. n \in CallType /\ CallGood(n, Decoded(m)) /\ n.vigy = v
      BY <1>0, <2>0, <3>1 DEF CallType, CallGood, Pc, ById
    <3>3. row' = [row EXCEPT ![v] = m] /\ call' = [Noted(v, Decoded(m)) EXCEPT ![c] = n]
      <4> DEFINE F == Noted(v, Decoded(m))
      <4>1. F[c] = [k EXCEPT !.seen = @ \cup {Decoded(m)}] /\ F = [d \in Clients |-> F[d]]
        BY <2>0 DEF Noted, Active
      <4>2. /\ row' = [row EXCEPT ![v] = m]
            /\ call' = [F EXCEPT ![c].pc = "read", ![c].seen = {Decoded(m)}]
        BY <1>3, <2>1 DEF SetEnabled
      <4> HIDE DEF m, F
      <4>3. [F[c] EXCEPT !.pc = "read", !.seen = {Decoded(m)}] = n
        BY <1>0, <4>1 DEF CallType
      <4>4. call' = [F EXCEPT ![c] = n]
        BY <4>1, <4>2, <4>3
      <4> QED
        BY <4>2, <4>4 DEF F
    <3> QED
      BY <1>0, <3>1, <3>2, <3>3, OneCallWrites
  <2>2. CASE row[v] = NoRow
    BY <1>0, <1>3, <2>0, <2>2, ReplyMoves DEF SetEnabled, CallGood, Present, Answer
  <2> QED
    BY <2>1, <2>2
<1>4. CASE Read(c)
  <2>0. k.pc = "read" /\ k.op \in ById
    BY <1>0, <1>4 DEF Read, At, CallGood
  <2>1. CASE row[v] # NoRow /\ Decodes(row[v])
    <3> DEFINE n == [k EXCEPT !.pc = AfterRead[k.op], !.read = row[v],
                              !.body = ShownBy(k, Decoded(row[v])), !.answer = "vigy"]
    <3>1. AfterRead[k.op] \in {"runs", "record", "answered"}
          /\ (AfterRead[k.op] = "record" => k.op = "tick")
      BY <2>0 DEF AfterRead
    <3>2. n \in CallType
      <4> DEFINE p == ShownBy(k, Decoded(row[v]))
      <4>1. p \in Vigy \cup Columns
        BY <1>0, <2>1, DecodedTyped, Codec DEF ShownBy
      <4> HIDE DEF p
      <4>2. [k EXCEPT !.pc = AfterRead[k.op], !.read = row[v], !.body = p,
                      !.answer = "vigy"] \in CallType
        <5>1. AfterRead[k.op] \in Pc /\ "vigy" \in Answer /\ row[v] \in Columns
          BY <1>0, <2>1, <3>1 DEF Pc, Answer
        <5> QED
          BY <1>0, <4>1, <5>1 DEF CallType
      <4> QED
        BY <4>2 DEF p
    <3>3. TellsTruth(n)
      <4>1. Decoded(row[v]) \in k.seen /\ Decoded(row[v]) \in Vigy
        BY <1>0, <2>0, <2>1, DecodedTyped DEF CallGood, Present
      <4>2. n.body = ShownBy(k, Decoded(row[v])) /\ n.seen = k.seen /\ n.dto = k.dto
        BY <1>0 DEF CallType
      <4> QED
        BY <4>1, <4>2, ShownTrue DEF TellsTruth
    <3>4. CallGood(n, Present(n.vigy))
      BY <1>0, <2>0, <3>1, <3>3 DEF CallGood, CallType
    <3>5. call' = [call EXCEPT ![c] = n]
      BY <1>0, <1>4, <2>1 DEF Read
    <3> QED
      BY <1>4, <3>2, <3>4, <3>5, OneCallMoves DEF Read
  <2>2. CASE ~(row[v] # NoRow /\ Decodes(row[v]))
    <3>1. NoRow \in k.seen
      BY <1>0, <2>0, <2>2 DEF Inv, RowsReadable, CallGood, Present
    <3> QED
      BY <1>4, <2>2, <3>1, ReplyMoves DEF Read, Answer
  <2> QED
    BY <2>1, <2>2
<1>5. CASE Runs(c)
  BY <1>0, <1>5, ReplyMoves DEF Runs, At, CallGood, Answer
<1>6. CASE Record(c)
  <2>1. TellsTruth(k)
    BY <1>0, <1>6 DEF Record, At, CallGood
  <2> QED
    BY <1>6, <2>1, ReplyMoves DEF Record, Answer
<1>7. CASE Erase(c)
  <2> DEFINE answer == IF row[v] # NoRow THEN "deleted" ELSE "gone"
             n == [k EXCEPT !.pc = "answered", !.seen = k.seen, !.answer = answer]
  <2>0. k.pc = "erase" /\ Present(v) \in k.seen /\ (row[v] # NoRow => Present(v) # NoRow)
    BY <1>0, <1>7, DecodedTyped, RowsAreVigies DEF Erase, At, CallGood, Present
  <2>a. /\ answer \in {"deleted", "gone"}
        /\ answer = "gone" => NoRow \in k.seen
        /\ answer = "deleted" => k.seen \ {NoRow} # {}
    BY <2>0 DEF Present
  <2>1. n \in CallType /\ CallGood(n, NoRow) /\ n.vigy = v
    <3> HIDE DEF answer
    <3>1. n \in CallType
      BY <1>0, <2>a DEF CallType, Pc, Answer
    <3>2. n.pc = "answered" /\ n.answer = answer /\ n.seen = k.seen /\ n.vigy = v
      BY <1>0 DEF CallType
    <3> QED
      BY <2>a, <3>1, <3>2 DEF CallGood
  <2>2. row' = [row EXCEPT ![v] = NoRow] /\ call' = [Noted(v, NoRow) EXCEPT ![c] = n]
    <3>1. Noted(v, NoRow)[c] = [k EXCEPT !.seen = @ \cup {NoRow}]
      BY <2>0 DEF Noted, Active
    <3>2. [Noted(v, NoRow)[c] EXCEPT !.pc = "answered", !.seen = k.seen, !.answer = answer] = n
      BY <1>0, <3>1 DEF CallType
    <3> QED
      BY <1>7, <3>2 DEF Erase
  <2> QED
    BY <1>0, <2>1, <2>2, OneCallWrites
<1>8. CASE Break(c)
  <2> DEFINE answer == IF k.op = "get" THEN "gone" ELSE "failed"
             n == [k EXCEPT !.pc = "answered", !.broken = TRUE, !.answer = answer]
  <2>0. answer \in Answer
    BY DEF Answer
  <2>1. call' = [call EXCEPT ![c] = n]
    BY <1>0, <1>8 DEF Break
  <2> HIDE DEF answer
  <2>2. n \in CallType /\ CallGood(n, Present(n.vigy))
    <3>1. n \in CallType
      BY <1>0, <2>0 DEF CallType, Pc
    <3>2. n.pc = "answered" /\ n.broken
      BY <1>0 DEF CallType
    <3> QED
      BY <3>1, <3>2 DEF CallGood
  <2> QED
    BY <1>8, <2>1, <2>2, OneCallMoves DEF Break
<1> QED
  BY <1>1, <1>2, <1>3, <1>4, <1>5, <1>6, <1>7, <1>8 DEF Statement

LEMMA InvStep == Inv /\ [Next]_vars => Inv'
<1> SUFFICES ASSUME Inv, [Next]_vars PROVE Inv'
  OBVIOUS
<1>1. ASSUME NEW c \in Clients, Arrive(c) PROVE Inv'
  BY <1>1, ArriveStep
<1>2. ASSUME NEW c \in Clients, Statement(c) PROVE Inv'
  BY <1>2, StatementStep
<1>3. ASSUME NEW c \in Clients, Return(c) \/ Abandon(c) PROVE Inv'
  BY <1>3, IdleGood, OneCallMoves DEF Return, Abandon
<1>4. CASE UNCHANGED vars
  <2>1. \A v : Present(v)' = Present(v)
    BY <1>4 DEF vars, Present
  <2> QED
    BY <1>4, <2>1 DEF vars, Inv, TypeOK, RowsReadable
<1> QED
  BY <1>1, <1>2, <1>3, <1>4 DEF Next

LEMMA Invariant == Spec => []Inv
BY InvInit, InvStep, PTL DEF Spec

\* Every reachable state is well typed.
THEOREM TypeCorrect == Spec => []TypeOK
<1>1. Inv => TypeOK
  BY DEF Inv
<1> QED
  BY <1>1, Invariant, PTL

\* Whatever REST, MCP and the command line let in, and whichever statements of
\* their requests fail or come between others', every row decodes: list_vigies,
\* with which every runtime opens the store, never fails because of a row.
THEOREM RowsStayReadable == Spec => []RowsReadable
<1>1. Inv => RowsReadable
  BY DEF Inv
<1> QED
  BY <1>1, Invariant, PTL

\* The outcome that a surface reports was true of the table at some moment of
\* the request, after the request's own write, unless a statement failed.  What
\* GraphQL shows of an interval is so modulo 2^64, what the others show exactly.
THEOREM AnswersTrue == Spec => []AnswersWereTrue
<1>1. Inv => AnswersWereTrue
  BY DEF Inv, CallGood, AnswersWereTrue, At
<1> QED
  BY <1>1, Invariant, PTL

(***************************************************************************)
(* The table implements InMemoryStore's map                                *)
(***************************************************************************)
LEMMA AsksNothing ==
  ASSUME NEW k, \/ k.op # "register" \/ k.pc \notin {"find", "write"}
  PROVE  Asks(k) = NoRow
BY DEF Asks

\* A step on one call leaves what the others ask for.
LEMMA OthersAsk ==
  ASSUME TypeOK, NEW c \in Clients, NEW F, call' = [F EXCEPT ![c] = call'[c]],
         F = [d \in Clients |-> F[d]], \A d \in Clients \ {c} : Asks(F[d]) = Asks(call[d])
  PROVE  UnderWay' = [UnderWay EXCEPT ![c] = Asks(call'[c])]
BY DEF UnderWay, TypeOK

LEMMA NotedAsks ==
  ASSUME TypeOK, NEW v, NEW now
  PROVE  /\ Noted(v, now) = [d \in Clients |-> Noted(v, now)[d]]
         /\ \A d \in Clients : /\ Asks(Noted(v, now)[d]) = Asks(call[d])
                               /\ Noted(v, now)[d].op = call[d].op
BY DEF Noted, Asks, TypeOK, CallType

LEMMA WriteShows ==
  ASSUME TypeOK, NEW v \in Vigies, NEW m, row' = [row EXCEPT ![v] = m]
  PROVE  ReadBack' = [ReadBack EXCEPT ![v] = IF m = NoRow THEN NoRow ELSE Decoded(m)]
BY DEF ReadBack, Present, TypeOK

LEMMA MapStep == Inv /\ [Next]_vars => [Rows!Next]_<<ReadBack, UnderWay>>
<1> SUFFICES ASSUME Inv, [Next]_vars PROVE Rows!Next \/ UNCHANGED <<ReadBack, UnderWay>>
  OBVIOUS
<1> USE DEF Rows!Next
<1>0. TypeOK
  BY DEF Inv
<1>a. row' = row => ReadBack' = ReadBack
  BY DEF ReadBack, Present
\* A step that gives one call a new state and leaves the table alone.
<1>b. ASSUME NEW c \in Clients, NEW k, call' = [call EXCEPT ![c] = k], UNCHANGED row
      PROVE  ReadBack' = ReadBack /\ UnderWay' = [UnderWay EXCEPT ![c] = Asks(k)]
  <2>1. call'[c] = k /\ call = [d \in Clients |-> call[d]]
    BY <1>0, <1>b DEF TypeOK
  <2> QED
    BY <1>0, <1>a, <1>b, <2>1, OthersAsk
<1>c. ASSUME NEW c \in Clients, NEW k, call' = [call EXCEPT ![c] = k], UNCHANGED row,
             Asks(k) = Asks(call[c])
      PROVE  UNCHANGED <<ReadBack, UnderWay>>
  <2>1. UnderWay[c] = Asks(k) /\ UnderWay = [d \in Clients |-> UnderWay[d]]
    BY <1>c DEF UnderWay
  <2>2. ReadBack' = ReadBack /\ UnderWay' = [UnderWay EXCEPT ![c] = Asks(k)]
    BY <1>b, <1>c
  <2> QED
    BY <2>1, <2>2
<1>d. ASSUME NEW c \in Clients, NEW k, call' = [call EXCEPT ![c] = k], UNCHANGED row,
             Asks(k) = NoRow
      PROVE  Rows!Next
  BY <1>b, <1>d DEF Rows!GiveUp
<1>e. ASSUME NEW c \in Clients, NEW answer, Reply(c, answer), UNCHANGED row PROVE Rows!Next
  <2> DEFINE k == [call[c] EXCEPT !.pc = "answered", !.answer = answer]
  <2>1. call' = [call EXCEPT ![c] = k] /\ k.pc = "answered"
    BY <1>0, <1>e DEF Reply, TypeOK, CallType
  <2>2. Asks(k) = NoRow
    BY <2>1, AsksNothing
  <2> QED
    BY <1>d, <1>e, <2>1, <2>2
<1>1. ASSUME NEW c \in Clients, Arrive(c) PROVE Rows!Next \/ UNCHANGED <<ReadBack, UnderWay>>
  <2>0. At(c, "idle") /\ UNCHANGED row /\ Asks(call[c]) = NoRow
    BY <1>1, AsksNothing DEF Arrive, Register, Request, BadId, List, At
  <2>1. ASSUME NEW s \in Registers, NEW v \in Vigies, Register(c, s, v)
        PROVE  Rows!Next
    <3> PICK p \in Inputs :
           IF Takes(s, p) THEN Begin(c, FALSE, "register", v, "find", p.vigy)
           ELSE call' = [call EXCEPT ![c].pc = "answered", ![c].answer = "refused"]
      BY <2>1 DEF Register
    <3>1. CASE Takes(s, p)
      <4> DEFINE k == [Idle EXCEPT !.pc = "find", !.dto = FALSE, !.op = "register", !.vigy = v,
                                   !.want = p.vigy, !.seen = {Present(v)}]
      <4>1. call' = [call EXCEPT ![c] = k] /\ p.vigy \in Registrable
        BY <3>1, InputAssumption DEF Begin, Payload, Takes, Registrable
      <4>2. Asks(k) = [id |-> v, vigy |-> p.vigy]
        BY DEF Asks, Idle
      <4>3. UnderWay[c] = NoRow
        BY <2>0 DEF UnderWay
      <4>4. ReadBack' = ReadBack /\ UnderWay' = [UnderWay EXCEPT ![c] = Asks(k)]
        BY <1>b, <2>0, <4>1
      <4>5. Rows!Ask(c, v, p.vigy)
        BY <4>2, <4>3, <4>4 DEF Rows!Ask
      <4> QED
        BY <4>1, <4>5
    <3>2. CASE ~Takes(s, p)
      <4> DEFINE k == [call[c] EXCEPT !.pc = "answered", !.answer = "refused"]
      <4>1. call' = [call EXCEPT ![c] = k]
        BY <1>0, <3>2 DEF TypeOK
      <4>2. k.pc = "answered"
        BY <1>0 DEF TypeOK, CallType
      <4> QED
        BY <1>d, <2>0, <4>1, <4>2, AsksNothing
    <3> QED
      BY <3>1, <3>2
  <2>2. ASSUME NEW s \in Surface, NEW v \in Vigies, Request(c, s, v)
        PROVE  Rows!Next
    <3> PICK op \in OpsOf[s] :
         Begin(c, s = "graphql" /\ op \in DtoOps, op, v, FirstStep[op], NoRow)
      BY <2>2 DEF Request
    <3> DEFINE k == [Idle EXCEPT !.pc = FirstStep[op],
                                 !.dto = (s = "graphql" /\ op \in DtoOps), !.op = op,
                                 !.vigy = v, !.want = NoRow, !.seen = {Present(v)}]
    <3>1. k.op # "register"
      BY DEF OpsOf, RestOps, GraphqlOps, McpOps, CliOps, Surface, ById, Idle
    <3>2. call' = [call EXCEPT ![c] = k]
      BY DEF Begin
    <3> QED
      BY <1>d, <2>0, <3>1, <3>2, AsksNothing
  <2>3. CASE List(c)
    <3> DEFINE k == [call[c] EXCEPT !.pc = "answered", !.answer = "failed", !.broken = TRUE]
    <3>1. ASSUME call' = [call EXCEPT ![c] = k] PROVE Rows!Next
      <4>1. k.pc = "answered"
        BY <1>0 DEF TypeOK, CallType
      <4> HIDE DEF k
      <4> QED
        BY <1>d, <2>0, <3>1, <4>1, AsksNothing
    <3>2. call = [d \in Clients |-> call[d]]
      BY <1>0 DEF TypeOK
    <3> QED
      BY <1>e, <2>3, <3>1, <3>2 DEF List
  <2> QED
    BY <1>e, <1>1, <2>1, <2>2, <2>3 DEF Arrive, BadId
<1>f. ASSUME NEW c \in Clients, NEW v \in Vigies, NEW k, NEW now,
             call' = [Noted(v, now) EXCEPT ![c] = k]
      PROVE  UnderWay' = [UnderWay EXCEPT ![c] = Asks(k)]
  <2>1. Noted(v, now) = [d \in Clients |-> Noted(v, now)[d]]
        /\ \A d \in Clients \ {c} : Asks(Noted(v, now)[d]) = Asks(call[d])
    BY <1>0, NotedAsks
  <2>2. call'[c] = k
    BY <1>f, <2>1
  <2> QED
    BY <1>0, <1>f, <2>1, <2>2, OthersAsk
<1>2. ASSUME NEW c \in Clients, Upsert(c) PROVE Rows!Next
  <2> DEFINE k == call[c]
             v == k.vigy
  <2>0. /\ k \in CallType /\ v \in Vigies /\ k.op = "register" /\ k.pc = "write"
        /\ k.want \in Registrable
    BY <1>0, <1>2 DEF TypeOK, CallType, Upsert, At, Inv, CallGood
  <2>1. CASE (k.read = NoRow) = (row[v] = NoRow)
    <3> DEFINE m == Encoded(k.want)
               F == Noted(v, Decoded(m))
               n == [F[c] EXCEPT !.pc = "answered", !.answer = "vigy",
                                 !.body = k.want, !.seen = {Decoded(m)}]
    <3>1. /\ row' = [row EXCEPT ![v] = m]
          /\ call' = [F EXCEPT ![c].pc = "answered", ![c].answer = "vigy",
                               ![c].body = k.want, ![c].seen = {Decoded(m)}]
      BY <1>2, <2>1 DEF Upsert
    <3>2. F = [d \in Clients |-> F[d]] /\ F[c] = [k EXCEPT !.seen = @ \cup {Decoded(m)}]
      BY <1>0, <2>0 DEF Noted, Active
    <3>3. m # NoRow /\ Decoded(m) = k.want
      BY <2>0, Codec, RowsAreVigies DEF Registrable
    <3>4. n.pc = "answered" /\ Asks(n) = NoRow
      BY <2>0, <3>2, AsksNothing DEF CallType
    <3>5. call' = [F EXCEPT ![c] = n]
      <4> HIDE DEF F, m
      <4> QED
        BY <3>1, <3>2
    <3>6. /\ ReadBack' = [ReadBack EXCEPT ![v] = k.want]
          /\ UnderWay' = [UnderWay EXCEPT ![c] = NoRow]
      <4> DEFINE now == Decoded(m)
      <4>1. ReadBack' = [ReadBack EXCEPT ![v] = now] /\ UnderWay' = [UnderWay EXCEPT ![c] = Asks(n)]
        <5>1. v \in Vigies /\ row' = [row EXCEPT ![v] = m] /\ m # NoRow
          BY <2>0, <3>1, <3>3
        <5>2. call' = [Noted(v, now) EXCEPT ![c] = n]
          BY <3>5
        <5> HIDE DEF m, n, v
        <5>3. ReadBack' = [ReadBack EXCEPT ![v] = now]
          BY <1>0, <5>1, WriteShows
        <5> HIDE DEF now
        <5>4. UnderWay' = [UnderWay EXCEPT ![c] = Asks(n)]
          BY <1>f, <5>1, <5>2
        <5> QED
          BY <5>3, <5>4
      <4> QED
        BY <3>3, <3>4, <4>1
    <3>7. UnderWay[c] = [id |-> v, vigy |-> k.want] /\ UnderWay[c] # NoRow
      BY <2>0, InputAssumption DEF UnderWay, Asks, Registrable
    <3>8. Rows!Upsert(c)
      BY <3>6, <3>7 DEF Rows!Upsert
    <3> QED
      BY <3>8
  <2>2. CASE ~((k.read = NoRow) = (row[v] = NoRow))
    BY <1>e, <1>2, <2>2 DEF Upsert
  <2> QED
    BY <2>1, <2>2
<1>3. ASSUME NEW c \in Clients, SetEnabled(c) PROVE Rows!Next \/ UNCHANGED <<ReadBack, UnderWay>>
  <2> DEFINE k == call[c]
             v == k.vigy
             on == k.op = "enable"
  <2>0. /\ k \in CallType /\ v \in Vigies /\ k.op \in {"enable", "disable"} /\ k.pc = "write"
        /\ row[v] \in Columns \cup {NoRow}
    BY <1>0, <1>3 DEF TypeOK, CallType, SetEnabled, At
  <2>1. CASE row[v] # NoRow
    <3> DEFINE m == [row[v] EXCEPT !.enabled = on]
               F == Noted(v, Decoded(m))
               n == [F[c] EXCEPT !.pc = "read", !.seen = {Decoded(m)}]
    <3>1. /\ row' = [row EXCEPT ![v] = m]
          /\ call' = [F EXCEPT ![c].pc = "read", ![c].seen = {Decoded(m)}]
      BY <1>3, <2>1 DEF SetEnabled
    <3>2. F = [d \in Clients |-> F[d]] /\ F[c] = [k EXCEPT !.seen = @ \cup {Decoded(m)}]
      BY <1>0, <2>0 DEF Noted, Active
    <3>3. m # NoRow /\ Decoded(m) = [Decoded(row[v]) EXCEPT !.enabled = on]
      BY <2>0, <2>1, SwitchDecoded, RowsAreVigies
    <3>4. n.op # "register" /\ Asks(n) = NoRow
      BY <2>0, <3>2, AsksNothing DEF CallType
    <3>5. call' = [F EXCEPT ![c] = n]
      <4> HIDE DEF F, m
      <4> QED
        BY <3>1, <3>2
    <3>6. /\ ReadBack' = [ReadBack EXCEPT ![v] = Decoded(m)]
          /\ UnderWay' = [UnderWay EXCEPT ![c] = NoRow]
      <4> DEFINE now == Decoded(m)
      <4>1. ReadBack' = [ReadBack EXCEPT ![v] = now] /\ UnderWay' = [UnderWay EXCEPT ![c] = Asks(n)]
        <5>1. v \in Vigies /\ row' = [row EXCEPT ![v] = m] /\ m # NoRow
          BY <2>0, <3>1, <3>3
        <5>2. call' = [Noted(v, now) EXCEPT ![c] = n]
          BY <3>5
        <5> HIDE DEF m, n, v
        <5>3. ReadBack' = [ReadBack EXCEPT ![v] = now]
          BY <1>0, <5>1, WriteShows
        <5> HIDE DEF now
        <5>4. UnderWay' = [UnderWay EXCEPT ![c] = Asks(n)]
          BY <1>f, <5>1, <5>2
        <5> QED
          BY <5>3, <5>4
      <4> QED
        BY <3>3, <3>4, <4>1
    <3>7. UnderWay' = UnderWay
      <4>1. UnderWay[c] = NoRow /\ UnderWay = [d \in Clients |-> UnderWay[d]]
        BY <2>0, AsksNothing DEF UnderWay
      <4> QED
        BY <3>6, <4>1
    <3>8. ReadBack[v] = Decoded(row[v]) /\ ReadBack[v] # NoRow
      BY <2>0, <2>1, DecodedTyped, RowsAreVigies DEF ReadBack, Present
    <3>9. Rows!SetEnabled(v, on)
      BY <3>3, <3>6, <3>7, <3>8 DEF Rows!SetEnabled
    <3> QED
      BY <2>0, <3>9
  <2>2. CASE row[v] = NoRow
    BY <1>e, <1>3, <2>2 DEF SetEnabled
  <2> QED
    BY <2>1, <2>2
<1>4. ASSUME NEW c \in Clients, Erase(c) PROVE Rows!Next
  <2> DEFINE k == call[c]
             v == k.vigy
             answer == IF row[v] # NoRow THEN "deleted" ELSE "gone"
             F == Noted(v, NoRow)
             n == [F[c] EXCEPT !.pc = "answered", !.seen = k.seen, !.answer = answer]
  <2>0. k \in CallType /\ v \in Vigies /\ k.pc = "erase" /\ Asks(k) = NoRow
    BY <1>0, <1>4, AsksNothing DEF TypeOK, CallType, Erase, At
  <2>1. /\ row' = [row EXCEPT ![v] = NoRow]
        /\ call' = [F EXCEPT ![c].pc = "answered", ![c].seen = k.seen, ![c].answer = answer]
    BY <1>4 DEF Erase
  <2>2. F = [d \in Clients |-> F[d]] /\ F[c] = [k EXCEPT !.seen = @ \cup {NoRow}]
    BY <1>0, <2>0 DEF Noted, Active
  <2>3. n.pc = "answered" /\ Asks(n) = NoRow
    BY <2>0, <2>2, AsksNothing DEF CallType
  <2>4. call' = [F EXCEPT ![c] = n]
    <3> HIDE DEF F, answer
    <3> QED
      BY <2>1, <2>2
  <2>5. /\ ReadBack' = [ReadBack EXCEPT ![v] = NoRow]
        /\ UnderWay' = [UnderWay EXCEPT ![c] = NoRow]
    <3>1. /\ ReadBack' = [ReadBack EXCEPT ![v] = NoRow]
          /\ UnderWay' = [UnderWay EXCEPT ![c] = Asks(n)]
      <4>1. v \in Vigies /\ row' = [row EXCEPT ![v] = NoRow]
        BY <2>0, <2>1
      <4>2. call' = [Noted(v, NoRow) EXCEPT ![c] = n]
        BY <2>4
      <4> HIDE DEF n, v
      <4>3. ReadBack' = [ReadBack EXCEPT ![v] = NoRow]
        BY <1>0, <4>1, WriteShows
      <4>4. UnderWay' = [UnderWay EXCEPT ![c] = Asks(n)]
        BY <1>f, <4>1, <4>2
      <4> QED
        BY <4>3, <4>4
    <3> QED
      BY <2>3, <3>1
  <2>6. UnderWay' = UnderWay
    <3>1. UnderWay[c] = NoRow /\ UnderWay = [d \in Clients |-> UnderWay[d]]
      BY <2>0 DEF UnderWay
    <3> QED
      BY <2>5, <3>1
  <2> QED
    BY <2>0, <2>5, <2>6 DEF Rows!Delete
<1>5. ASSUME NEW c \in Clients, Find(c) PROVE Rows!Next \/ UNCHANGED <<ReadBack, UnderWay>>
  <2> DEFINE m == row[call[c].vigy]
             k == [call[c] EXCEPT !.pc = "write", !.read = m]
  <2>1. CASE call[c].op = "register" \/ m # NoRow
    <3>1. call' = [call EXCEPT ![c] = k] /\ call[c] \in CallType /\ call[c].pc = "find"
      BY <1>0, <1>5, <2>1 DEF Find, At, TypeOK
    <3>2. Asks(k) = Asks(call[c])
      BY <3>1 DEF Asks, CallType
    <3> QED
      BY <1>c, <1>5, <3>1, <3>2 DEF Find
  <2>2. CASE ~(call[c].op = "register" \/ m # NoRow)
    BY <1>e, <1>5, <2>2 DEF Find
  <2> QED
    BY <2>1, <2>2
<1>6. ASSUME NEW c \in Clients, Read(c) PROVE Rows!Next
  <2> DEFINE m == row[call[c].vigy]
             k == [call[c] EXCEPT !.pc = AfterRead[call[c].op], !.read = m,
                                  !.body = ShownBy(call[c], Decoded(m)), !.answer = "vigy"]
  <2>1. CASE m # NoRow /\ Decodes(m)
    <3>1. call' = [call EXCEPT ![c] = k] /\ call[c] \in CallType /\ call[c].op \in ById
      BY <1>0, <1>6, <2>1 DEF Read, At, TypeOK, Inv, CallGood
    <3>2. k.op # "register"
      BY <3>1 DEF CallType, ById
    <3> QED
      BY <1>d, <1>6, <3>1, <3>2, AsksNothing DEF Read
  <2>2. CASE ~(m # NoRow /\ Decodes(m))
    BY <1>e, <1>6, <2>2 DEF Read
  <2> QED
    BY <2>1, <2>2
<1>7. ASSUME NEW c \in Clients, Break(c) PROVE Rows!Next
  <2> DEFINE answer == IF call[c].op = "get" THEN "gone" ELSE "failed"
             k == [call[c] EXCEPT !.pc = "answered", !.broken = TRUE, !.answer = answer]
  <2>1. call' = [call EXCEPT ![c] = k] /\ k.pc = "answered" /\ UNCHANGED row
    BY <1>0, <1>7 DEF Break, TypeOK, CallType
  <2> HIDE DEF answer, k
  <2>2. Asks(k) = NoRow
    BY <2>1, AsksNothing
  <2> QED
    BY <1>d, <2>1, <2>2
<1>8. ASSUME NEW c \in Clients, Return(c) \/ Abandon(c) PROVE Rows!Next
  <2>1. Asks(Idle) = NoRow
    BY DEF Asks, Idle
  <2> QED
    BY <1>d, <1>8, <2>1 DEF Return, Abandon
<1>9. CASE UNCHANGED vars
  BY <1>a, <1>9 DEF vars, UnderWay
<1> QED
  BY <1>1, <1>e, <1>2, <1>3, <1>4, <1>5, <1>6, <1>7, <1>8, <1>9
     DEF Next, Statement, Runs, Record

\* SeaormStore's SELECTs and UPDATEs under requests that overlap, fail and are
\* abandoned implement the one-step operations of InMemoryStore: a registration
\* takes effect once and whole or not at all, and enabling never brings back
\* what an earlier one had stored.
THEOREM TableIsOneMap == Spec => OneMap
<1>1. Init => Rows!Init
  BY DEF Init, Rows!Init, ReadBack, UnderWay, Present, Asks, Idle
<1>2. Inv /\ [Next]_vars => [Rows!Next]_<<ReadBack, UnderWay>>
  BY MapStep
<1> QED
  BY <1>1, <1>2, Invariant, PTL DEF Spec, OneMap, Rows!Spec

================================================================================
