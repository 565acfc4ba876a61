---------------------------------- MODULE Feed ----------------------------------
(***************************************************************************)
(* What a runtime's event bus promises its subscribers: everything sent    *)
(* while they are subscribed, in the order sent, one by one, but for what  *)
(* exceeds Capacity, of which they learn how many.  A tail shows what      *)
(* passes its filter.                                                      *)
(***************************************************************************)
EXTENDS Naturals, Sequences

CONSTANTS Subscribers, Items, Capacity, Shows    \* Shows[s]: the items s shows

VARIABLES open, due, shown, lost

vars == <<open, due, shown, lost>>

Init ==
  /\ open = {}
  /\ due = [s \in Subscribers |-> <<>>]
  /\ shown = [s \in Subscribers |-> <<>>]
  /\ lost = [s \in Subscribers |-> 0]

Join(s) ==
  /\ s \notin open /\ open' = open \cup {s}
  /\ UNCHANGED <<due, shown, lost>>

Quit(s) ==
  /\ open' = open \ {s}
  /\ due' = [due EXCEPT ![s] = <<>>]
  /\ shown' = [shown EXCEPT ![s] = <<>>]
  /\ lost' = [lost EXCEPT ![s] = 0]

Publish(item) ==
  /\ due' = [s \in Subscribers |-> IF s \in open THEN Append(due[s], item) ELSE due[s]]
  /\ UNCHANGED <<open, shown, lost>>

Deliver(s) ==
  /\ due[s] # <<>>
  /\ due' = [due EXCEPT ![s] = Tail(@)]
  /\ shown' = [shown EXCEPT ![s] = IF Head(due[s]) \in Shows[s] THEN Append(@, Head(due[s])) ELSE @]
  /\ UNCHANGED <<open, lost>>

Drop(s) ==
  LET n == Len(due[s]) - Capacity IN
  /\ Len(due[s]) > Capacity
  /\ due' = [due EXCEPT ![s] = SubSeq(@, n + 1, Len(@))]
  /\ lost' = [lost EXCEPT ![s] = @ + n]
  /\ UNCHANGED <<open, shown>>

Next ==
  \/ \E s \in Subscribers : Join(s) \/ Quit(s) \/ Deliver(s) \/ Drop(s)
  \/ \E item \in Items : Publish(item)

Spec == Init /\ [][Next]_vars

================================================================================
