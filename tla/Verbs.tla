---------------------------------- MODULE Verbs ----------------------------------
(***************************************************************************)
(* The verbs that write to a host's write-only buffers, and what is left   *)
(* of them when a program ends: the actions.  A program is the calls it    *)
(* makes, each the name of a verb and its arguments; the call that is      *)
(* refused is its last, and the host is gone with it.                      *)
(***************************************************************************)
EXTENDS Values, Sequences, TLC

None == Value("none", "")

Kinds == {"noop", "defer", "pull", "push", "create", "update", "delete",
          "apply", "restart", "custom"}

Call(verb, args) == [verb |-> verb, args |-> args]
Action(kind, payload, result) == [kind |-> kind, payload |-> payload, result |-> result]

\* The tables' rows: how many arguments a verb takes, at least and at most.
ActionArity ==
  [v \in {"noop"} |-> 0..0]
    @@ [v \in {"defer", "pull", "push", "create", "update", "delete-action",
               "apply", "restart"} |-> 1..1]
    @@ [v \in {"emit"} |-> 1..2]
StateArity == [v \in {"desired", "observed"} |-> 2..2] @@ [v \in {"condition"} |-> 2..4]
DiagnosticArity == [v \in {"log", "trace", "metric", "event"} |-> 2..2]
Arity == ActionArity @@ StateArity @@ DiagnosticArity

(***************************************************************************)
(* Which calls are refused                                                 *)
(***************************************************************************)
IsText(l) == l.type \in {"str", "symbol", "keyword"}
Levels == {"trace", "debug", "info", "warn", "error"}
Statuses == {"true", "True", "false", "False", "unknown", "Unknown"}

Says(l, S) == IsText(l) /\ l.has \in S

LegalState(c) ==
  /\ IsText(c.args[1])
  /\ c.verb = "condition" =>
       Says(c.args[2], Statuses) /\ \A i \in DOMAIN c.args : IsText(c.args[i])

LegalDiagnostic(c) ==
  CASE c.verb = "log" -> Says(c.args[1], Levels) /\ IsText(c.args[2])
    [] c.verb = "trace" -> IsText(c.args[1])
    [] c.verb = "metric" -> IsText(c.args[1]) /\ c.args[2].type \in {"int", "float"}
    [] c.verb = "event" -> IsText(c.args[1]) /\ IsText(c.args[2])

Legal(c) ==
  /\ c.verb \in DOMAIN Arity /\ Len(c.args) \in Arity[c.verb]
  /\ c.verb = "emit" => Says(c.args[1], Kinds)
  /\ c.verb \in DOMAIN StateArity => LegalState(c)
  /\ c.verb \in DOMAIN DiagnosticArity => LegalDiagnostic(c)

(***************************************************************************)
(* What a call emits, and a tick leaves                                    *)
(***************************************************************************)
Emitted(c) ==
  CASE c.verb = "noop" -> Action("noop", None, "ok")
    [] c.verb = "defer" -> Action("defer", None, "skipped")
    [] c.verb = "emit" ->
         Action(c.args[1].has, IF Len(c.args) = 2 THEN ScalarJson(c.args[2]) ELSE None, "none")
    [] c.verb = "delete-action" -> Action("delete", ScalarJson(c.args[1]), "none")
    [] OTHER -> Action(c.verb, ScalarJson(c.args[1]), "none")

Emits(c) == c.verb \in DOMAIN ActionArity

\* host.actions when the calls have been made: each that emits pushes one.
Buffer(program) ==
  LET after[n \in 0..Len(program)] ==
        IF n = 0 THEN <<>>
        ELSE IF Emits(program[n]) THEN Append(after[n - 1], Emitted(program[n]))
        ELSE after[n - 1]
  IN  after[Len(program)]

M_Outcome(program) ==
  [result |-> IF \A i \in DOMAIN program : Legal(program[i]) THEN "ok" ELSE "failed",
   actions |-> Buffer(program)]

\* The actions of a program that ended Ok, the error of one that did not.
Outcome(program) ==
  IF \A i \in DOMAIN program : Legal(program[i])
  THEN [result |-> "ok", actions |-> Buffer(program)]
  ELSE [result |-> "failed", actions |-> <<>>]

\* As the run is read back from the store: a payload of JSON null is no payload.
Reread(a) == [a EXCEPT !.payload = IF @ = Null THEN None ELSE @]

================================================================================
