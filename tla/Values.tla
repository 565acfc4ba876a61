--------------------------------- MODULE Values ---------------------------------
(***************************************************************************)
(* lisp_to_json and json_to_lisp: what becomes of a program's values on    *)
(* their way into the store and back.  A scalar is its type and its text;  *)
(* lists and maps hold scalars here, the code maps itself over what is     *)
(* nested.                                                                 *)
(***************************************************************************)
EXTENDS Functions, Naturals

CONSTANTS
  Words,     \* the texts of strings, symbols and keywords
  Colon,     \* Colon[w]: w with a colon before it
  Ints,      \* the texts of whole numbers
  Floats,    \* the texts of floats
  NaN        \* the float that JSON cannot write

ASSUME ValuesAssumption == DOMAIN Colon = Words

Value(type, has) == [type |-> type, has |-> has]
Nil  == Value("nil", "null")
Null == Value("null", "null")

(***************************************************************************)
(* lisp_to_json                                                            *)
(***************************************************************************)
ScalarJson(l) ==
  CASE l.type = "nil" \/ (l.type = "float" /\ l.has = NaN) -> Null
    [] l.type \in {"bool", "int"} \/ (l.type = "float" /\ l.has # NaN) -> l
    [] l.type = "keyword" -> Value("string", Colon[l.has])
    [] OTHER -> Value("string", l.has)

\* The string that stands for a map's key.
KeyText(k) == IF k.type = "keyword" THEN Colon[k.has] ELSE k.has

\* Keys may meet in one string: the hash map's order says whose value stays.
ObjectsOf(m) ==
  {o \in [{KeyText(k) : k \in DOMAIN m} -> {ScalarJson(v) : v \in Range(m)}] :
     \A s \in DOMAIN o : \E k \in DOMAIN m : KeyText(k) = s /\ o[s] = ScalarJson(m[k])}

\* The JSON a value may become.
JsonsOf(l) ==
  CASE l.type = "list" -> {Value("array", [i \in DOMAIN l.has |-> ScalarJson(l.has[i])])}
    [] l.type = "map" -> {Value("object", o) : o \in ObjectsOf(l.has)}
    [] OTHER -> {ScalarJson(l)}

(***************************************************************************)
(* json_to_lisp                                                            *)
(***************************************************************************)
M_ScalarLisp(j) ==
  CASE j.type = "null" -> Nil
    [] j.type \in {"int", "float"} -> Value("float", j.has)
    [] j.type = "string" -> Value("str", j.has)
    [] OTHER -> j

ScalarLisp(j) ==
  CASE j.type = "null" -> Nil
    [] j.type = "string" -> Value("str", j.has)
    [] OTHER -> j

LispOf(j) ==
  CASE j.type = "array" -> Value("list", [i \in DOMAIN j.has |-> ScalarLisp(j.has[i])])
    [] j.type = "object" ->
         Value("map", [k \in {Value("str", s) : s \in DOMAIN j.has} |-> ScalarLisp(j.has[k.has])])
    [] OTHER -> ScalarLisp(j)

(***************************************************************************)
(* Properties                                                              *)
(***************************************************************************)
\* What JSON has a shape for: scalars that keep their type.
Plain ==
  {Nil, Value("bool", "true")}
    \cup [type : {"str"}, has : Words \cup Range(Colon)]
    \cup [type : {"int"}, has : Ints]
    \cup [type : {"float"}, has : Floats \ {NaN}]

Scalars ==
  Plain \cup {Value("float", NaN), Value("other", "<fn>")}
        \cup [type : {"symbol", "keyword"}, has : Words]

Keys == {k \in Scalars : k.type # "other"}

Lists(S) == {Value("list", s) : s \in [1..2 -> S]}
Maps(K, S) == {Value("map", m) : m \in UNION {UNION {[{k, j} -> S] : j \in K} : k \in K}}

\* A value written, read and written again by the next tick is the value that
\* was written: vigy-set of what vigy-get said changes no row.
WrittenStays(l) == \A j \in JsonsOf(l) : JsonsOf(LispOf(j)) = {j}

\* A plain value is read as it was written.
ReadAsWritten(l) == {LispOf(j) : j \in JsonsOf(l)} = {l}

\* Every value settles; plain ones, lists of them and maps of them under strings
\* do not change at all.
Settles ==
  LET Strings == {k \in Plain : k.type = "str"}
      Few == {Nil, Value("float", NaN), Value("keyword", CHOOSE w \in Words : TRUE)}
  IN  /\ \A l \in Scalars : WrittenStays(l)
      /\ \A l \in Lists(Scalars) : WrittenStays(l)
      /\ \A l \in Maps(Keys, Few) : WrittenStays(l)
      /\ \A l \in Plain : ReadAsWritten(l)
      /\ \A l \in Lists(Plain) : ReadAsWritten(l)
      /\ \A l \in Maps(Strings, Plain) : ReadAsWritten(l)

================================================================================
