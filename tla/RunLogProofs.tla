------------------------------ MODULE RunLogProofs ------------------------------
(***************************************************************************)
(* Theorems about RunLog, for every retention limit, every number of       *)
(* tasks and runs, and any order of their ids.                             *)
(***************************************************************************)
EXTENDS RunLog, RetentionProofs

(***************************************************************************)
(* Safety                                                                  *)
(***************************************************************************)
LEMMA RestType == Rest \in Writer
BY WritersAssumption DEF Rest, Writer, AnyVigy, AnyId

\* Insert, and the steps that leave the table alone, keep the types; so does a
\* trim, which only removes rows.
LEMMA TypeStep ==
  ASSUME TypeOK, [Next]_vars
  PROVE  TypeOK'
<1>1. ASSUME NEW w \in Writers, Begin(w)
      PROVE  TypeOK'
  <2>1. PICK v \in Vigies, id \in RunIds :
          writer' = [writer EXCEPT ![w] = [Rest EXCEPT !.pc = "tick", !.vigy = v, !.id = id]]
    BY <1>1 DEF Begin
  <2>2. [Rest EXCEPT !.pc = "tick", !.vigy = v, !.id = id] \in Writer
    BY RestType DEF Writer
  <2>3. QED
    BY <1>1, <2>1, <2>2 DEF TypeOK, Begin
<1>2. ASSUME NEW w \in Writers, Insert(w)
      PROVE  TypeOK'
  <2> DEFINE v == writer[w].vigy
             id == writer[w].id
  <2>1. v \in Vigies /\ id \in RunIds
    BY DEF TypeOK, Writer
  <2>2. /\ rows' = [rows EXCEPT ![v] = @ \cup {id}]
        /\ recorded' = [recorded EXCEPT ![v] = @ \cup {id}]
        /\ cut' = cut
    BY <1>2 DEF Insert
  <2>3. writer' \in [Writers -> Writer]
    BY <1>2, RestType DEF TypeOK, Insert, Done, Writer
  <2>4. /\ rows' \in [Vigies -> SUBSET RunIds]
        /\ recorded' \in [Vigies -> SUBSET RunIds]
    BY <2>1, <2>2 DEF TypeOK
  <2>5. ASSUME NEW u \in Vigies
        PROVE  rows'[u] \subseteq recorded'[u] /\ IsFiniteSet(recorded'[u])
    <3>1. rows[u] \subseteq recorded[u] /\ IsFiniteSet(recorded[u])
      BY DEF TypeOK
    <3>2. IsFiniteSet(recorded[u] \cup {id})
      BY <3>1, FS_AddElement
    <3>3. QED
      BY <2>2, <3>1, <3>2 DEF TypeOK
  <2>6. QED
    BY <2>2, <2>3, <2>4, <2>5 DEF TypeOK
<1>3. ASSUME NEW w \in Writers, FindFloor(w)
      PROVE  TypeOK'
  <2>1. ASSUME NEW f \in rows[writer[w].vigy]
        PROVE  f \in RunIds
    BY DEF TypeOK, Writer
  <2>2. writer' \in [Writers -> Writer]
    BY <1>3, <2>1, RestType
       DEF TypeOK, FindFloor, Done, Writer
  <2>3. QED
    BY <1>3, <2>2 DEF TypeOK, FindFloor
<1>4. ASSUME NEW w \in Writers, Trim(w)
      PROVE  TypeOK'
  <2>1. writer' \in [Writers -> Writer]
    BY <1>4, RestType DEF TypeOK, Trim, Done, Writer
  <2>2. /\ rows' \in [Vigies -> SUBSET RunIds]
        /\ \A u \in Vigies : rows'[u] \subseteq rows[u]
    BY <1>4 DEF TypeOK, Trim
  <2>3. QED
    BY <1>4, <2>1, <2>2 DEF TypeOK, Trim
<1>5. ASSUME NEW w \in Writers, Stop(w)
      PROVE  TypeOK'
  BY <1>5, RestType DEF TypeOK, Stop, Done, Writer
<1>6. CASE UNCHANGED vars
  BY <1>6 DEF TypeOK, vars
<1>7. QED
  BY <1>1, <1>2, <1>3, <1>4, <1>5, <1>6 DEF Next, Step

\* The state is always of its type, and no row appears without an INSERT.
THEOREM TypeCorrect == Spec => []TypeOK
<1>1. Init => TypeOK
  BY FS_EmptySet, WritersAssumption DEF Init, TypeOK, Writer, Rest, AnyVigy, AnyId
<1>2. TypeOK /\ [Next]_vars => TypeOK'
  BY TypeStep
<1>3. QED
  BY <1>1, <1>2, PTL DEF Spec

\* A task only gets beyond its INSERT if there is a limit, and when it is about
\* to trim there are enough recorded runs that the trim leaves.
FloorHigh ==
  \A w \in Writers :
    writer[w].pc \in {"floor", "trim"} =>
      /\ Limited
      /\ At(w, "trim") =>
           ~(Cardinality({i \in recorded[writer[w].vigy] : i >= writer[w].floor}) < Keep)

KeptInv == TypeOK /\ NewestKept /\ FloorHigh

\* In a state of the invariant the rows and the recorded runs agree on what the
\* limit keeps.
LEMMA SameNewest ==
  ASSUME TypeOK, NewestKept, NEW v \in Vigies
  PROVE  /\ Newest(rows[v]) = Newest(recorded[v])
         /\ IsFiniteSet(rows[v]) /\ rows[v] \subseteq Nat
         /\ IsFiniteSet(recorded[v]) /\ recorded[v] \subseteq Nat
<1>1. /\ rows[v] \in SUBSET recorded[v] /\ IsFiniteSet(recorded[v])
      /\ recorded[v] \subseteq Nat /\ rows[v] \subseteq Nat
  BY RetentionAssumption DEF TypeOK
<1>2. IsFiniteSet(rows[v])
  BY <1>1, FS_Subset
<1>3. Newest(rows[v]) = Newest(recorded[v])
  BY <1>1, NewestSandwich DEF NewestKept
<1>4. QED
  BY <1>1, <1>2, <1>3

\* A set only grows with more runs, and with it the runs above a floor.
LEMMA FloorStaysHigh ==
  ASSUME NEW T, IsFiniteSet(T), NEW S, S \subseteq T, NEW f, Limited,
         ~(Cardinality({i \in S : i >= f}) < Keep)
  PROVE  ~(Cardinality({i \in T : i >= f}) < Keep)
<1>1. {i \in T : i >= f} \in SUBSET T /\ {i \in S : i >= f} \in SUBSET {i \in T : i >= f}
  OBVIOUS
<1>2. IsFiniteSet({i \in T : i >= f})
  BY <1>1, FS_Subset
<1>3. /\ IsFiniteSet({i \in S : i >= f})
      /\ Cardinality({i \in S : i >= f}) <= Cardinality({i \in T : i >= f})
  BY <1>1, <1>2, FS_Subset
<1>4. Cardinality({i \in S : i >= f}) \in Nat /\ Cardinality({i \in T : i >= f}) \in Nat
  BY <1>2, <1>3, FS_CardinalityType
<1>5. Keep \in Nat
  BY RetentionAssumption DEF Limited
<1>6. QED
  BY <1>3, <1>4, <1>5

\* Every step keeps the invariant; the two that could break it are an INSERT,
\* which may push a run out of the newest, and a trim.
LEMMA KeptStep ==
  ASSUME KeptInv, [Next]_vars
  PROVE  KeptInv'
<1> USE DEF KeptInv
<1>0. TypeOK'
  BY TypeStep
<1>1. ASSUME NEW w \in Writers, Begin(w)
      PROVE  NewestKept' /\ FloorHigh'
  <2>1. PICK v \in Vigies, id \in RunIds :
          writer' = [writer EXCEPT ![w] = [Rest EXCEPT !.pc = "tick", !.vigy = v, !.id = id]]
    BY <1>1 DEF Begin
  <2>2. writer'[w].pc = "tick" /\ \A u \in Writers \ {w} : writer'[u] = writer[u]
    BY <2>1 DEF TypeOK, Rest
  <2>3. QED
    BY <1>1, <2>2 DEF Begin, NewestKept, FloorHigh, At
<1>2. ASSUME NEW w \in Writers, Insert(w)
      PROVE  NewestKept' /\ FloorHigh'
  <2> DEFINE v == writer[w].vigy
             id == writer[w].id
  <2>1. v \in Vigies /\ id \in RunIds
    BY DEF TypeOK, Writer
  <2>2. /\ rows' = [rows EXCEPT ![v] = @ \cup {id}]
        /\ recorded' = [recorded EXCEPT ![v] = @ \cup {id}]
    BY <1>2 DEF Insert
  <2>3. /\ rows'[v] = rows[v] \cup {id} /\ recorded'[v] = recorded[v] \cup {id}
        /\ \A u \in Vigies \ {v} : rows'[u] = rows[u] /\ recorded'[u] = recorded[u]
    BY <2>1, <2>2 DEF TypeOK
  <2>4. NewestKept'
    <3>1. IsFiniteSet(recorded[v] \cup {id})
      BY <2>1, SameNewest, FS_AddElement
    <3>2. Newest(recorded[v] \cup {id}) \cap recorded[v] \subseteq Newest(recorded[v])
      BY <3>1, NewestOfLess
    <3>3. Newest(recorded[v] \cup {id}) \subseteq recorded[v] \cup {id}
      BY DEF Newest
    <3>4. Newest(recorded'[v]) \subseteq rows'[v]
      BY <2>1, <2>3, <3>2, <3>3 DEF NewestKept
    <3>5. QED
      BY <2>3, <3>4 DEF NewestKept
  <2>5. FloorHigh'
    <3>1. /\ \A u \in Writers \ {w} : writer'[u] = writer[u]
          /\ writer'[w].pc = (IF Limited THEN "floor" ELSE "idle")
      <4>1. CASE Limited
        BY <1>2, <4>1 DEF Insert, TypeOK, Writer
      <4>2. CASE ~Limited
        BY <1>2, <4>2 DEF Insert, Done, Rest, TypeOK
      <4>3. QED
        BY <4>1, <4>2
    <3>2. ASSUME NEW u \in Writers, u # w, At(u, "trim")
          PROVE  ~(Cardinality({i \in recorded'[writer[u].vigy] : i >= writer[u].floor}) < Keep)
      <4>1. writer[u].vigy \in Vigies /\ Limited
        BY <3>2 DEF TypeOK, Writer, FloorHigh, At
      <4>2. recorded[writer[u].vigy] \subseteq recorded'[writer[u].vigy]
        BY <2>3, <4>1
      <4>3. IsFiniteSet(recorded'[writer[u].vigy])
        BY <1>0, <4>1 DEF TypeOK
      <4>4. QED
        BY <3>2, <4>1, <4>2, <4>3, FloorStaysHigh DEF FloorHigh, At
    <3>3. QED
      BY <3>1, <3>2 DEF FloorHigh, At
  <2>6. QED
    BY <2>4, <2>5
<1>3. ASSUME NEW w \in Writers, FindFloor(w)
      PROVE  NewestKept' /\ FloorHigh'
  <2> DEFINE v == writer[w].vigy
  <2>0. v \in Vigies /\ Limited
    BY <1>3 DEF TypeOK, Writer, FloorHigh, FindFloor, At
  <2>1. CASE \E f \in rows[v] : /\ Cardinality(Later(rows[v], f)) = Keep - 1
                                /\ writer' = [writer EXCEPT ![w].pc = "trim", ![w].floor = f]
    <3>1. PICK f \in rows[v] :
            /\ Cardinality(Later(rows[v], f)) = Keep - 1
            /\ writer' = [writer EXCEPT ![w].pc = "trim", ![w].floor = f]
      BY <2>1
    <3>2. ~(Cardinality({i \in rows[v] : i >= f}) < Keep)
      <4>1. Cardinality({i \in rows[v] : i >= f}) = Keep
        BY <2>0, <3>1, SameNewest, FloorSplits
      <4>2. Keep \in Nat
        BY <2>0, RetentionAssumption DEF Limited
      <4>3. QED
        BY <4>1, <4>2
    <3>3. ~(Cardinality({i \in recorded[v] : i >= f}) < Keep)
      BY <2>0, <3>2, FloorStaysHigh DEF TypeOK
    <3>4. /\ writer'[w].vigy = v /\ writer'[w].floor = f
          /\ \A u \in Writers \ {w} : writer'[u] = writer[u]
      BY <3>1 DEF TypeOK, Writer
    <3>5. QED
      BY <1>3, <2>0, <3>3, <3>4 DEF FindFloor, NewestKept, FloorHigh, At
  <2>2. CASE Done(w)
    <3>1. writer'[w].pc = "idle" /\ \A u \in Writers \ {w} : writer'[u] = writer[u]
      BY <2>2 DEF Done, Rest, TypeOK
    <3>2. QED
      BY <1>3, <3>1 DEF FindFloor, NewestKept, FloorHigh, At
  <2>3. QED
    BY <1>3, <2>1, <2>2 DEF FindFloor
<1>4. ASSUME NEW w \in Writers, Trim(w)
      PROVE  NewestKept' /\ FloorHigh'
  <2> DEFINE v == writer[w].vigy
             f == writer[w].floor
  <2>1. v \in Vigies /\ f \in Nat
    BY RetentionAssumption DEF TypeOK, Writer
  <2>2. Limited /\ ~(Cardinality({i \in recorded[v] : i >= f}) < Keep)
    BY <1>4 DEF Trim, FloorHigh, At
  <2>3. /\ rows'[v] = {i \in rows[v] : i >= f}
        /\ \A u \in Vigies \ {v} : rows'[u] = rows[u]
    BY <1>4, <2>1 DEF Trim, TypeOK
  <2>4. \A i \in Newest(recorded[v]) : i >= f
    BY <2>1, <2>2, SameNewest, KeptAboveFloor
  <2>5. NewestKept'
    BY <1>4, <2>1, <2>3, <2>4 DEF Trim, NewestKept
  <2>6. writer'[w].pc = "idle" /\ \A u \in Writers \ {w} : writer'[u] = writer[u]
    BY <1>4 DEF Trim, Done, Rest, TypeOK
  <2>7. FloorHigh'
    BY <1>4, <2>6 DEF Trim, FloorHigh, At
  <2>8. QED
    BY <2>5, <2>7
<1>5. ASSUME NEW w \in Writers, Stop(w)
      PROVE  NewestKept' /\ FloorHigh'
  <2>1. writer'[w].pc = "idle" /\ \A u \in Writers \ {w} : writer'[u] = writer[u]
    BY <1>5 DEF Stop, Done, Rest, TypeOK
  <2>2. QED
    BY <1>5, <2>1 DEF Stop, NewestKept, FloorHigh, At
<1>6. ASSUME UNCHANGED vars
      PROVE  NewestKept' /\ FloorHigh'
  <2>1. rows' = rows /\ recorded' = recorded /\ writer' = writer
    BY <1>6 DEF vars
  <2>2. NewestKept'
    BY <2>1 DEF NewestKept
  <2>3. FloorHigh'
    BY <2>1 DEF FloorHigh, At
  <2>4. QED
    BY <2>2, <2>3
<1>7. QED
  BY <1>0, <1>1, <1>2, <1>3, <1>4, <1>5, <1>6 DEF Next, Step

LEMMA KeptInvariant == Spec => []KeptInv
<1>1. Init => KeptInv
  <2>1. SUFFICES ASSUME Init PROVE KeptInv
    OBVIOUS
  <2>2. TypeOK
    BY <2>1, FS_EmptySet, RestType DEF Init, TypeOK
  <2>3. NewestKept
    BY <2>1 DEF Init, NewestKept, Newest
  <2>4. FloorHigh
    BY <2>1 DEF Init, FloorHigh, Rest
  <2>5. QED
    BY <2>2, <2>3, <2>4 DEF KeptInv
<1>2. KeptInv /\ [Next]_vars => KeptInv'
  BY KeptStep
<1>3. QED
  BY <1>1, <1>2, PTL DEF Spec

\* No interleaving of inserts and trims, in whatever order the ids come and
\* wherever tasks stop, costs the store one of a vigy's newest Keep runs.
THEOREM NewestSurvive == Spec => []NewestKept
BY KeptInvariant, PTL DEF KeptInv

(***************************************************************************)
(* What is not among the newest runs goes                                  *)
(***************************************************************************)
\* w is about to look for a floor, or to cut v's rows down to the newest.
WillTrim(w, v) ==
  /\ writer[w].vigy = v
  /\ \/ At(w, "floor")
     \/ At(w, "trim") /\ {i \in rows[v] : i >= writer[w].floor} = Newest(rows[v])

\* Rows beyond the limit are on somebody's list, if nobody dropped them from
\* his: the last to find a floor saw every INSERT before it.
TrimComing ==
  \A v \in Vigies : \/ rows[v] = Newest(rows[v])
                    \/ \E w \in Writers : WillTrim(w, v)
                    \/ cut[v]

\* What the limit keeps of the rows changes with no step but an INSERT.
LEMMA NewestUnchanged ==
  ASSUME KeptInv, KeptInv', recorded' = recorded, NEW v \in Vigies
  PROVE  Newest(rows'[v]) = Newest(rows[v])
<1>1. Newest(rows[v]) = Newest(recorded[v])
  BY SameNewest DEF KeptInv
<1>2. /\ rows'[v] \in SUBSET recorded[v] /\ IsFiniteSet(recorded[v])
      /\ recorded[v] \subseteq Nat /\ Newest(recorded[v]) \subseteq rows'[v]
  BY RetentionAssumption DEF KeptInv, TypeOK, NewestKept
<1>3. Newest(rows'[v]) = Newest(recorded[v])
  BY <1>2, NewestSandwich
<1>4. QED
  BY <1>1, <1>3

LEMMA TrimStep ==
  ASSUME KeptInv, TrimComing, [Next]_vars
  PROVE  TrimComing'
<1>0. KeptInv' /\ TypeOK
  BY KeptStep DEF KeptInv
<1>1. ASSUME NEW w \in Writers, Begin(w)
      PROVE  TrimComing'
  <2>1. /\ writer[w].pc = "idle" /\ rows' = rows /\ cut' = cut
        /\ \A u \in Writers \ {w} : writer'[u] = writer[u]
    BY <1>0, <1>1 DEF Begin, At, TypeOK
  <2>2. ASSUME NEW u \in Writers, NEW v \in Vigies, WillTrim(u, v)
        PROVE  WillTrim(u, v)'
    <3>1. u # w
      BY <2>1, <2>2 DEF WillTrim, At
    <3>2. writer'[u] = writer[u]
      BY <2>1, <3>1
    <3>3. QED
      BY <2>1, <2>2, <3>2 DEF WillTrim, At
  <2>3. QED
    BY <2>1, <2>2 DEF TrimComing
<1>2. ASSUME NEW w \in Writers, Insert(w)
      PROVE  TrimComing'
  <2>1. PICK v \in Vigies : v = writer[w].vigy
    BY <1>0 DEF TypeOK, Writer
  <2>2. CASE ~Limited
    BY <2>2 DEF TrimComing, Newest
  <2>3. CASE Limited
    <3>1. /\ writer'[w].pc = "floor" /\ writer'[w].vigy = v /\ writer[w].pc = "tick"
          /\ \A u \in Writers \ {w} : writer'[u] = writer[u]
      BY <1>0, <1>2, <2>1, <2>3 DEF Insert, TypeOK, Writer, At
    <3>2. WillTrim(w, v)'
      BY <3>1 DEF WillTrim, At
    <3>3. cut' = cut /\ \A z \in Vigies \ {v} : rows'[z] = rows[z]
      BY <1>0, <1>2, <2>1 DEF Insert, TypeOK
    <3>4. ASSUME NEW u \in Writers, NEW z \in Vigies, z # v, WillTrim(u, z)
          PROVE  WillTrim(u, z)'
      <4>1. u # w
        BY <3>1, <3>4 DEF WillTrim, At
      <4>2. writer'[u] = writer[u] /\ rows'[z] = rows[z]
        BY <3>1, <3>3, <3>4, <4>1
      <4>3. QED
        BY <3>4, <4>2 DEF WillTrim, At
    <3>5. QED
      BY <3>2, <3>3, <3>4 DEF TrimComing
  <2>4. QED
    BY <2>2, <2>3
<1>3. ASSUME NEW w \in Writers, FindFloor(w)
      PROVE  TrimComing'
  <2>0. PICK v \in Vigies : v = writer[w].vigy
    BY <1>0 DEF TypeOK, Writer
  <2>1. Limited /\ rows' = rows /\ \A z \in Vigies \ {v} : cut'[z] = cut[z]
    BY <1>0, <1>3, <2>0 DEF KeptInv, FloorHigh, FindFloor, At, TypeOK
  <2>2. IsFiniteSet(rows[v]) /\ rows[v] \subseteq Nat
    BY <2>1, SameNewest DEF KeptInv
  <2>3. \A u \in Writers \ {w} : writer'[u] = writer[u]
    BY <1>0, <1>3 DEF FindFloor, Done, TypeOK
  <2>4. rows[v] = Newest(rows[v]) \/ WillTrim(w, v)'
    <3>1. CASE \E f \in rows[v] : /\ Cardinality(Later(rows[v], f)) = Keep - 1
                                  /\ writer' = [writer EXCEPT ![w].pc = "trim", ![w].floor = f]
      <4>1. PICK f \in rows[v] :
              /\ Cardinality(Later(rows[v], f)) = Keep - 1
              /\ writer' = [writer EXCEPT ![w].pc = "trim", ![w].floor = f]
        BY <3>1
      <4>2. {i \in rows[v] : i >= f} = Newest(rows[v])
        BY <2>1, <2>2, <4>1, FloorSplits
      <4>3. writer'[w].pc = "trim" /\ writer'[w].vigy = v /\ writer'[w].floor = f
        BY <1>0, <2>0, <4>1 DEF TypeOK, Writer
      <4>4. QED
        BY <2>1, <4>2, <4>3 DEF WillTrim, At
    <3>2. CASE \A f \in rows[v] : Cardinality(Later(rows[v], f)) # Keep - 1
      BY <2>1, <2>2, <3>2, NoFloorNoLoss
    <3>3. QED
      BY <1>3, <2>0, <3>1, <3>2 DEF FindFloor
  <2>5. ASSUME NEW u \in Writers, NEW z \in Vigies, z # v, WillTrim(u, z)
        PROVE  WillTrim(u, z)'
    <3>1. u # w
      BY <2>0, <2>5 DEF WillTrim
    <3>2. writer'[u] = writer[u]
      BY <2>3, <3>1
    <3>3. QED
      BY <2>1, <2>5, <3>2 DEF WillTrim, At
  <2>6. QED
    BY <2>1, <2>4, <2>5 DEF TrimComing
<1>4. ASSUME NEW w \in Writers, Trim(w)
      PROVE  TrimComing'
  <2>1. PICK v \in Vigies, f \in RunIds : v = writer[w].vigy /\ f = writer[w].floor
    BY <1>0 DEF TypeOK, Writer
  <2>2. /\ rows'[v] = {i \in rows[v] : i >= f} /\ recorded' = recorded /\ cut' = cut
        /\ \A z \in Vigies \ {v} : rows'[z] = rows[z]
    BY <1>0, <1>4, <2>1 DEF Trim, TypeOK
  <2>3. Newest(rows'[v]) = Newest(rows[v]) /\ Newest(rows[v]) \subseteq rows'[v]
    <3>1. Newest(rows'[v]) = Newest(rows[v])
      BY <1>0, <2>1, <2>2, NewestUnchanged
    <3>2. QED
      BY <3>1 DEF Newest
  <2>4. writer[w].pc = "trim" /\ \A u \in Writers \ {w} : writer'[u] = writer[u]
    BY <1>0, <1>4 DEF Trim, Done, TypeOK, At
  <2>5. ASSUME NEW u \in Writers, u # w, NEW z \in Vigies, WillTrim(u, z)
        PROVE  WillTrim(u, z)'
    <3>1. writer'[u] = writer[u]
      BY <2>4, <2>5
    <3>2. CASE z = v
      <4>1. CASE At(u, "floor")
        BY <2>5, <3>1, <4>1 DEF WillTrim, At
      <4>2. CASE At(u, "trim") /\ {i \in rows[v] : i >= writer[u].floor} = Newest(rows[v])
        <5>1. {i \in rows'[v] : i >= writer[u].floor} = Newest(rows'[v])
          BY <2>2, <2>3, <4>2
        <5>2. QED
          BY <2>5, <3>1, <3>2, <4>2, <5>1 DEF WillTrim, At
      <4>3. QED
        BY <2>5, <3>2, <4>1, <4>2 DEF WillTrim
    <3>3. CASE z # v
      BY <2>2, <2>5, <3>1, <3>3 DEF WillTrim, At
    <3>4. QED
      BY <3>2, <3>3
  <2>6. CASE rows[v] = Newest(rows[v]) \/ WillTrim(w, v)
    <3>1. rows'[v] = Newest(rows'[v])
      BY <2>1, <2>2, <2>3, <2>4, <2>6 DEF WillTrim, At
    <3>2. \A z \in Vigies \ {v} : ~WillTrim(w, z)
      BY <2>1 DEF WillTrim
    <3>3. QED
      BY <2>2, <2>5, <3>1, <3>2 DEF TrimComing
  <2>7. CASE ~(rows[v] = Newest(rows[v]) \/ WillTrim(w, v))
    <3>1. \A z \in Vigies : ~WillTrim(w, z)
      BY <2>1, <2>7 DEF WillTrim
    <3>2. cut'[v] \/ \E u \in Writers : WillTrim(u, v)'
      BY <2>1, <2>2, <2>5, <2>7, <3>1 DEF TrimComing
    <3>3. QED
      BY <2>2, <2>5, <3>1, <3>2 DEF TrimComing
  <2>8. QED
    BY <2>6, <2>7
<1>5. ASSUME NEW w \in Writers, Stop(w)
      PROVE  TrimComing'
  <2>1. PICK v \in Vigies : v = writer[w].vigy
    BY <1>0 DEF TypeOK, Writer
  <2>2. /\ rows' = rows
        /\ \A u \in Writers \ {w} : writer'[u] = writer[u]
        /\ \A z \in Vigies : cut[z] => cut'[z]
    BY <1>0, <1>5 DEF Stop, Done, TypeOK
  <2>3. ASSUME NEW u \in Writers, u # w, NEW z \in Vigies, WillTrim(u, z)
        PROVE  WillTrim(u, z)'
    BY <2>2, <2>3 DEF WillTrim, At
  <2>4. ASSUME NEW z \in Vigies, WillTrim(w, z)
        PROVE  cut'[z]
    BY <1>0, <1>5, <2>4 DEF Stop, WillTrim, At, TypeOK
  <2>5. QED
    BY <2>2, <2>3, <2>4 DEF TrimComing
<1>6. CASE UNCHANGED vars
  BY <1>6 DEF vars, TrimComing, WillTrim, At
<1>7. QED
  BY <1>1, <1>2, <1>3, <1>4, <1>5, <1>6 DEF Next, Step

\* A vigy nobody records a run of has exactly its newest runs in the store:
\* concurrent trims leave nothing behind, and what a task that stopped half way
\* left is removed by the next that is not cut short.
THEOREM NothingElseStays == Spec => []OthersGone
<1>1. Init => TrimComing
  BY DEF Init, TrimComing, Newest
<1>2. KeptInv /\ TrimComing /\ [Next]_vars => TrimComing'
  BY TrimStep
<1>3. KeptInv /\ TrimComing => OthersGone
  <2>1. SUFFICES ASSUME KeptInv, TrimComing, NEW v \in Vigies, Quiet(v), ~cut[v]
                 PROVE  rows[v] = Newest(recorded[v])
    BY DEF OthersGone
  <2>2. \A w \in Writers : ~WillTrim(w, v)
    BY <2>1 DEF Quiet, WillTrim, At
  <2>3. rows[v] = Newest(rows[v])
    BY <2>1, <2>2 DEF TrimComing
  <2>4. QED
    BY <2>1, <2>3, SameNewest DEF KeptInv
<1>4. QED
  BY <1>1, <1>2, <1>3, KeptInvariant, PTL DEF Spec

(***************************************************************************)
(* Refinement                                                              *)
(***************************************************************************)
\* Only an INSERT changes what the limit keeps of the rows, and it does so the
\* way the atomic insert_run does.
LEMMA HistoryStep ==
  ASSUME KeptInv, [Next]_vars
  PROVE  [History!Next]_([v \in Vigies |-> Newest(rows[v])])
<1> DEFINE kept == [v \in Vigies |-> Newest(rows[v])]
<1>0. TypeOK /\ NewestKept /\ TypeOK' /\ NewestKept'
  BY KeptStep DEF KeptInv
<1>1. CASE recorded' = recorded
  <2>1. ASSUME NEW v \in Vigies
        PROVE  Newest(rows'[v]) = Newest(rows[v])
    <3>1. Newest(rows[v]) = Newest(recorded[v])
      BY <1>0, SameNewest
    <3>2. /\ rows'[v] \in SUBSET recorded[v] /\ IsFiniteSet(recorded[v])
          /\ recorded[v] \subseteq Nat /\ Newest(recorded[v]) \subseteq rows'[v]
      BY <1>0, <1>1, RetentionAssumption DEF TypeOK, NewestKept
    <3>3. Newest(rows'[v]) = Newest(recorded[v])
      BY <3>2, NewestSandwich
    <3>4. QED
      BY <3>1, <3>3
  <2>2. kept' = kept
    BY <2>1
  <2>3. QED
    BY <2>2
<1>2. ASSUME NEW w \in Writers, Insert(w)
      PROVE  History!Next
  <2> DEFINE v == writer[w].vigy
             id == writer[w].id
             Kept == Newest(rows[v])
  <2>1. v \in Vigies /\ id \in RunIds
    BY <1>0 DEF TypeOK, Writer
  <2>2. /\ rows'[v] = rows[v] \cup {id}
        /\ \A u \in Vigies \ {v} : rows'[u] = rows[u]
    BY <1>0, <1>2, <2>1 DEF Insert, TypeOK
  <2>3. IsFiniteSet(rows[v] \cup {id}) /\ rows[v] \cup {id} \subseteq Nat
    BY <1>0, <2>1, SameNewest, FS_AddElement, RetentionAssumption
  <2>4. Newest(rows[v] \cup {id}) \subseteq Kept \cup {id}
    <3>1. Newest(rows[v] \cup {id}) \cap rows[v] \subseteq Kept
      BY <2>3, NewestOfLess
    <3>2. Newest(rows[v] \cup {id}) \subseteq rows[v] \cup {id}
      BY DEF Newest
    <3>3. QED
      BY <3>1, <3>2
  <2>5. Kept \cup {id} \subseteq rows[v] \cup {id}
    BY DEF Newest
  <2>6. Newest(rows[v] \cup {id}) = Newest(Kept \cup {id})
    BY <2>3, <2>4, <2>5, NewestSandwich
  <2>7. kept' = [kept EXCEPT ![v] = Newest(kept[v] \cup {id})]
    BY <2>1, <2>2, <2>6
  <2>8. QED
    BY <2>1, <2>7 DEF History!Next, History!Record
<1>3. ASSUME NEW w \in Writers, ~Insert(w), Step(w)
      PROVE  recorded' = recorded
  BY <1>3 DEF Step, Begin, FindFloor, Trim, Stop
<1>4. CASE UNCHANGED vars
  BY <1>1, <1>4 DEF vars
<1>5. QED
  BY <1>1, <1>2, <1>3, <1>4 DEF Next

\* SeaormStore's three statements implement InMemoryStore's one step.
THEOREM RunLogImplementsHistory == Spec => TrimsUnseen
<1>1. Init => History!Init
  BY DEF Init, History!Init, Newest
<1>2. KeptInv /\ [Next]_vars => [History!Next]_([v \in Vigies |-> Newest(rows[v])])
  BY HistoryStep
<1>3. QED
  BY <1>1, <1>2, KeptInvariant, PTL DEF Spec, TrimsUnseen, History!Spec

================================================================================
