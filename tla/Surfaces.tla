-------------------------------- MODULE Surfaces --------------------------------
(***************************************************************************)
(* The REST, GraphQL, MCP and command-line surfaces over the vigies table: *)
(* what each accepts, the SQL statements the runtime call behind a request *)
(* runs, and the outcome the surface reports.  Requests of several clients *)
(* overlap; an action is one statement with the code up to the next.       *)
(*                                                                         *)
(* Which loops run is Lifecycle's subject; here a row keeps what a surface *)
(* takes and shows.  Name, program and language are what the id is made    *)
(* from, so a vigy is its id, its interval, its labels and `enabled`.      *)
(***************************************************************************)
EXTENDS Integers

CONSTANTS
  Vigies,       \* vigy ids
  Clients,      \* requests in flight at once
  Half,         \* half the values of a machine word: u64 below 2 * Half, i64 below Half
  MinTick,      \* MIN_TICK_INTERVAL_MS
  LabelSets,    \* label maps
  ValidLabels,  \* the label maps whose keys all pass validate_key
  Inputs,       \* the registration payloads clients send
  NoRow,        \* no row in the vigies table
  Faults        \* which of "abandon", "dberror" may happen

Word == 0 .. 2 * Half - 1

Vigy    == [enabled : BOOLEAN, ms : Word, labels : LabelSets]
\* `sound`: the program is not blank and the language is a known one.
Payload == [sound : BOOLEAN, vigy : Vigy]

ASSUME WordAssumption == Half \in Nat \ {0} /\ MinTick \in Word
ASSUME InputAssumption ==
  /\ Vigies # {}
  /\ ValidLabels \subseteq LabelSets
  /\ Inputs \subseteq Payload
  /\ NoRow \notin [enabled : BOOLEAN, ms : Int, labels : LabelSets]
  /\ NoRow \notin [id : Vigies, vigy : Vigy]
  /\ Faults \subseteq {"abandon", "dberror"}

VARIABLES
  row,    \* the vigies table
  call    \* call[c]: client c's request

vars == <<row, call>>

(***************************************************************************)
(* Rows                                                                    *)
(***************************************************************************)
\* The columns: SQLite stores the interval as a signed 64-bit integer.
Columns == [enabled : BOOLEAN, ms : -Half .. Half - 1, labels : LabelSets]

\* `as i64` on the way in, `as u64` on the way out.
Encoded(p) == [p EXCEPT !.ms = IF @ < Half THEN @ ELSE @ - 2 * Half]
Decoded(m) == [m EXCEPT !.ms = IF @ < 0 THEN @ + 2 * Half ELSE @]

\* model_to_vigy does not refuse the row.
Decodes(m) == Decoded(m).ms >= MinTick

\* What the table says of v.
Present(v) == IF row[v] = NoRow THEN NoRow ELSE Decoded(row[v])

(***************************************************************************)
(* Requests                                                                *)
(***************************************************************************)
ById == {"get", "inspect", "state", "tick", "enable", "disable", "delete"}

\* What each surface offers by id.  REST's update_vigy only reads as yet.
RestOps    == ById \ {"inspect"}
GraphqlOps == ById \ {"inspect", "state"}
McpOps     == ById \ {"get", "state"}
CliOps     == ById \ {"get", "state"}

\* GraphQL's resolvers that turn the vigy into a VigyDto.
DtoOps == {"get", "enable", "disable"}

OpsOf == [rest |-> RestOps, graphql |-> GraphqlOps, mcp |-> McpOps, cli |-> CliOps]

Surface   == DOMAIN OpsOf
Registers == Surface \ {"graphql"}

\* A payload that gets as far as register_or_update.  MCP and the command line
\* put labels in with Labels::insert, which validates keys; REST takes the map.
M_Takes(s, p) ==
  /\ p.sound
  /\ s = "rest" \/ (p.vigy.ms >= MinTick /\ p.vigy.labels \in ValidLabels)

Takes(s, p) ==
  /\ p.sound
  /\ p.vigy.ms >= MinTick
  /\ s = "rest" \/ p.vigy.labels \in ValidLabels

Pc     == {"idle", "find", "write", "read", "runs", "record", "erase", "answered"}
Answer == {"none", "vigy", "run", "state", "list", "deleted", "gone", "refused", "failed"}

\* `dto`: the answer goes through GraphQL's VigyDto.  `read` is the row the call's
\* last SELECT returned, `body` the vigy it is to answer with, as it is shown.  `seen` and `broken` are history: what the table has said of
\* the vigy since the request came, or since its own write, and whether a
\* statement of it failed.
CallType ==
  [pc : Pc, dto : BOOLEAN, op : ById \cup {"register", "list"}, vigy : Vigies,
   want : Vigy \cup {NoRow}, read : Columns \cup {NoRow},
   body : Vigy \cup Columns \cup {NoRow}, answer : Answer,
   seen : SUBSET (Vigy \cup {NoRow}), broken : BOOLEAN]

AnyVigy == CHOOSE v \in Vigies : TRUE

Idle == [pc |-> "idle", dto |-> FALSE, op |-> "list", vigy |-> AnyVigy,
         want |-> NoRow, read |-> NoRow, body |-> NoRow, answer |-> "none",
         seen |-> {}, broken |-> FALSE]

\* Every component of the state has its type.
TypeOK ==
  /\ row \in [Vigies -> Columns \cup {NoRow}]
  /\ call \in [Clients -> CallType]

At(c, pc)   == call[c].pc = pc
Active(c)   == call[c].pc \notin {"idle", "answered"}

Begin(c, dto, op, v, pc, want) ==
  call' = [call EXCEPT ![c] = [Idle EXCEPT !.pc = pc, !.dto = dto, !.op = op, !.vigy = v,
                                           !.want = want, !.seen = {Present(v)}]]

\* The call answers, whatever else it still knew is forgotten.
Reply(c, answer) ==
  call' = [call EXCEPT ![c].pc = "answered", ![c].answer = answer]

FirstStep == [op \in ById |->
  CASE op \in {"get", "inspect", "tick"} -> "read"
    [] op \in {"enable", "disable"}      -> "find"
    [] op = "state"                      -> "runs"
    [] op = "delete"                     -> "erase"]

\* A registration: refused before any statement, or on its way.
Register(c, s, v) ==
  /\ At(c, "idle")
  /\ \E p \in Inputs :
       IF Takes(s, p)
       THEN Begin(c, FALSE, "register", v, "find", p.vigy)
       ELSE call' = [call EXCEPT ![c].pc = "answered", ![c].answer = "refused"]
  /\ UNCHANGED row

\* A request that names an id.
Request(c, s, v) ==
  /\ At(c, "idle")
  /\ \E op \in OpsOf[s] :
       Begin(c, s = "graphql" /\ op \in DtoOps, op, v, FirstStep[op], NoRow)
  /\ UNCHANGED row

\* It names something that VigyId::parse refuses.
BadId(c) ==
  /\ At(c, "idle")
  /\ Reply(c, "refused")
  /\ UNCHANGED row

\* What list_vigies can come to: one row that does not decode fails the whole
\* list, a selector without "=" is refused once a row is held against it.
Listed == (IF \A v \in Vigies : row[v] # NoRow => Decodes(row[v]) THEN {"list"} ELSE {"failed"})
            \cup (IF \E v \in Vigies : row[v] # NoRow /\ Decodes(row[v]) THEN {"refused"} ELSE {})

\* A request for the list is one SELECT, which may fail.
List(c) ==
  /\ At(c, "idle")
  /\ \/ \E answer \in Listed : Reply(c, answer)
     \/ /\ "dberror" \in Faults
        /\ call' = [call EXCEPT ![c].pc = "answered", ![c].answer = "failed", ![c].broken = TRUE]
  /\ UNCHANGED row

(***************************************************************************)
(* Statements                                                              *)
(***************************************************************************)
\* The other calls about v in flight have now seen `now`.
Noted(v, now) ==
  [d \in Clients |->
     IF Active(d) /\ call[d].vigy = v
     THEN [call[d] EXCEPT !.seen = @ \cup {now}] ELSE call[d]]

\* The SELECT of upsert_vigy and of set_enabled, which returns NotFound
\* without a row.
Find(c) ==
  LET m == row[call[c].vigy] IN
  /\ At(c, "find")
  /\ IF call[c].op = "register" \/ m # NoRow
     THEN call' = [call EXCEPT ![c].pc = "write", ![c].read = m]
     ELSE Reply(c, "failed")
  /\ UNCHANGED row

\* The UPDATE or INSERT of upsert_vigy, by what its SELECT saw; it fails if the
\* row came or went since.  The answer is the vigy as it was handed in.
M_Upsert(c) ==
  LET v == call[c].vigy  m == call[c].want IN
  /\ At(c, "write") /\ call[c].op = "register"
  /\ IF (call[c].read = NoRow) = (row[v] = NoRow)
     THEN /\ row' = [row EXCEPT ![v] = m]
          /\ call' = [Noted(v, m) EXCEPT
                        ![c].pc = "answered", ![c].answer = "vigy",
                        ![c].body = call[c].want, ![c].seen = {m}]
     ELSE UNCHANGED row /\ Reply(c, "failed")

Upsert(c) ==
  LET v == call[c].vigy  m == Encoded(call[c].want) IN
  /\ At(c, "write") /\ call[c].op = "register"
  /\ IF (call[c].read = NoRow) = (row[v] = NoRow)
     THEN /\ row' = [row EXCEPT ![v] = m]
          /\ call' = [Noted(v, Decoded(m)) EXCEPT
                        ![c].pc = "answered", ![c].answer = "vigy",
                        ![c].body = call[c].want, ![c].seen = {Decoded(m)}]
     ELSE UNCHANGED row /\ Reply(c, "failed")

\* Every column written back as the SELECT returned it.
M_SetEnabled(c) ==
  LET v == call[c].vigy
      m == [call[c].read EXCEPT !.enabled = (call[c].op = "enable")] IN
  /\ At(c, "write") /\ call[c].op \in {"enable", "disable"}
  /\ IF row[v] # NoRow
     THEN /\ row' = [row EXCEPT ![v] = m]
          /\ call' = [Noted(v, Decoded(m)) EXCEPT ![c].pc = "read", ![c].seen = {Decoded(m)}]
     ELSE UNCHANGED row /\ Reply(c, "failed")

\* The UPDATE of set_enabled.  Only what was Set is written, so the other
\* columns are those of the row now, not of the one the SELECT returned.
SetEnabled(c) ==
  LET v == call[c].vigy
      m == [row[v] EXCEPT !.enabled = (call[c].op = "enable")] IN
  /\ At(c, "write") /\ call[c].op \in {"enable", "disable"}
  /\ IF row[v] # NoRow
     THEN /\ row' = [row EXCEPT ![v] = m]
          /\ call' = [Noted(v, Decoded(m)) EXCEPT ![c].pc = "read", ![c].seen = {Decoded(m)}]
     ELSE UNCHANGED row /\ Reply(c, "failed")

\* What a call does once get_vigy has answered.
AfterRead == [op \in ById |-> CASE op = "inspect" -> "runs"
                                [] op = "tick"    -> "record"
                                [] OTHER          -> "answered"]

\* Vigy p as call k's surface shows it: VigyDto takes the interval `as i64`, as
\* the column does; the others show the u64.
ShownBy(k, p) == IF k.dto THEN Encoded(p) ELSE p

\* The row as it was before the call's own write.
M_Read(c) ==
  LET k == call[c]  m == IF k.read # NoRow THEN k.read ELSE row[k.vigy] IN
  /\ At(c, "read")
  /\ IF m # NoRow /\ Decodes(m)
     THEN call' = [call EXCEPT ![c].pc = AfterRead[k.op], ![c].read = m,
                               ![c].body = ShownBy(k, Decoded(m)), ![c].answer = "vigy"]
     ELSE Reply(c, IF k.op = "get" THEN "gone" ELSE "failed")
  /\ UNCHANGED row

\* get_vigy, for a request by id or at the end of enable and disable.  REST
\* answers any error of it with 404 and GraphQL with null.
Read(c) ==
  LET k == call[c]  m == row[k.vigy] IN
  /\ At(c, "read")
  /\ IF m # NoRow /\ Decodes(m)
     THEN call' = [call EXCEPT ![c].pc = AfterRead[k.op], ![c].read = m,
                               ![c].body = ShownBy(k, Decoded(m)), ![c].answer = "vigy"]
     ELSE Reply(c, IF k.op = "get" THEN "gone" ELSE "failed")
  /\ UNCHANGED row

\* recent_runs, which answers for an id without a row too.
Runs(c) ==
  /\ At(c, "runs")
  /\ Reply(c, IF call[c].op = "state" THEN "state" ELSE "vigy")
  /\ UNCHANGED row

\* The tick itself and its insert_run are behind tick_now.
Record(c) ==
  /\ At(c, "record")
  /\ Reply(c, "run")
  /\ UNCHANGED row

\* The DELETE and the count of rows it affected.
Erase(c) ==
  LET v == call[c].vigy IN
  /\ At(c, "erase")
  /\ row' = [row EXCEPT ![v] = NoRow]
  /\ call' = [Noted(v, NoRow) EXCEPT
                ![c].pc = "answered", ![c].seen = call[c].seen,
                ![c].answer = IF row[v] # NoRow THEN "deleted" ELSE "gone"]

\* A statement fails: the surface reports an error, save the two lookups.
Break(c) ==
  /\ "dberror" \in Faults
  /\ Active(c)
  /\ call' = [call EXCEPT ![c].pc = "answered", ![c].broken = TRUE,
                          ![c].answer = IF call[c].op = "get" THEN "gone" ELSE "failed"]
  /\ UNCHANGED row

\* The client has its answer.
Return(c) ==
  /\ At(c, "answered")
  /\ call' = [call EXCEPT ![c] = Idle]
  /\ UNCHANGED row

\* The client goes away and its request is dropped at an await: what was
\* written stays written.
Abandon(c) ==
  /\ "abandon" \in Faults
  /\ Active(c)
  /\ call' = [call EXCEPT ![c] = Idle]
  /\ UNCHANGED row

(***************************************************************************)
(* Specification                                                           *)
(***************************************************************************)
Init ==
  /\ row = [v \in Vigies |-> NoRow]
  /\ call = [c \in Clients |-> Idle]

Arrive(c) ==
  \/ \E s \in Registers, v \in Vigies : Register(c, s, v)
  \/ \E s \in Surface, v \in Vigies : Request(c, s, v)
  \/ BadId(c) \/ List(c)

Statement(c) ==
  \/ Find(c) \/ Upsert(c) \/ SetEnabled(c) \/ Read(c)
  \/ Runs(c) \/ Record(c) \/ Erase(c) \/ Break(c)

Next == \E c \in Clients : Arrive(c) \/ Statement(c) \/ Return(c) \/ Abandon(c)

Spec == Init /\ [][Next]_vars

(***************************************************************************)
(* Properties                                                              *)
(***************************************************************************)
\* Whatever the surfaces let in, every row reads back: no registration can make
\* list_vigies, and with it the opening of every runtime on the store, fail.
RowsReadable == \A v \in Vigies : row[v] # NoRow => Decodes(row[v])

\* The vigy that call k answers with is one the table said, read as unsigned:
\* GraphQL shows an interval of 2^63 ms or more 2^64 lower, as a negative number,
\* and no other surface shows a negative one.
TellsTruth(k) ==
  /\ k.body # NoRow /\ Decoded(k.body) \in k.seen
  /\ k.body.ms < 0 => k.dto

\* An answer tells what the table said at some moment of the request, after its
\* own write if it had one: the vigy that a lookup, a registration, an enabling
\* or a disabling shows (on GraphQL up to the sign of its interval), "not found"
\* or an error, and "deleted".  Only where a statement failed does an answer
\* promise nothing.
AnswersWereTrue ==
  \A c \in Clients :
    LET k == call[c] IN
    At(c, "answered") /\ ~k.broken =>
      /\ k.answer \in {"vigy", "run"} => TellsTruth(k)
      /\ k.answer \in {"gone", "failed"} => NoRow \in k.seen
      /\ k.answer = "deleted" => k.seen \ {NoRow} # {}

\* The table, read back, is InMemoryStore's map: it changes by registrations
\* that were accepted, each at most once and whole, by the `enabled` of a vigy
\* that is there, and by deletions, whatever statements of other requests come
\* between the two of one call.
ReadBack == [v \in Vigies |-> Present(v)]

\* The registration that call k still has to carry out.
Asks(k)  == IF k.op = "register" /\ k.pc \in {"find", "write"}
            THEN [id |-> k.vigy, vigy |-> k.want] ELSE NoRow
UnderWay == [c \in Clients |-> Asks(call[c])]

Registrable == {p \in Vigy : p.ms >= MinTick}

Rows == INSTANCE Registry WITH Absent <- NoRow, vigies <- ReadBack, asked <- UnderWay

OneMap == Rows!Spec

================================================================================
