--------------------------------- MODULE TickTxn ---------------------------------
(***************************************************************************)
(* What a tick promises of a vigy's keys: "hydrate kv before, save dirty   *)
(* after" as one transaction.  The tick sees the keys the last one left,   *)
(* counts itself, writes to its own view, and in the end the view replaces *)
(* the keys or is thrown away; nobody sees anything in between.            *)
(***************************************************************************)
EXTENDS VigyHost

CONSTANT NoView

VARIABLES
  kv,     \* the keys
  view    \* what the tick under way sees, or NoView

vars == <<kv, view>>

Init == kv = Empty /\ view = NoView

Begin ==
  /\ view = NoView
  /\ view' # NoView
  /\ view'[PrevTick] \in Nat
  /\ view' = [kv EXCEPT ![TickCount] = AsInt(kv[TickCount]) + 1,
                        ![PrevTick] = view'[PrevTick]]
  /\ UNCHANGED kv

Write ==
  /\ view # NoView /\ view' # NoView
  /\ \E k \in Key : /\ view'[k] \in Value \cup {Absent}
                    /\ view' = [view EXCEPT ![k] = view'[k]]
  /\ UNCHANGED kv

Commit  == view # NoView /\ kv' = view /\ view' = NoView
Discard == view # NoView /\ view' = NoView /\ UNCHANGED kv

Next == Begin \/ Write \/ Commit \/ Discard

Spec == Init /\ [][Next]_vars

================================================================================
