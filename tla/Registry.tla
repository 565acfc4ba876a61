-------------------------------- MODULE Registry --------------------------------
(***************************************************************************)
(* What a store promises of its vigies: one map, which each operation      *)
(* changes at one instant.  These are the operations of InMemoryStore on   *)
(* its vigies, each under the store's write lock, and the registrations    *)
(* that callers have under way: each takes effect once or not at all.      *)
(***************************************************************************)
CONSTANTS
  Vigies,       \* vigy ids
  Clients,      \* callers
  Registrable,  \* the vigies that can be registered
  Absent        \* no vigy under an id, nothing asked for

VARIABLES
  vigies,       \* vigies[v]: what is registered under id v
  asked         \* asked[c]: what c has asked to be registered, and where

Init ==
  /\ vigies = [v \in Vigies |-> Absent]
  /\ asked = [c \in Clients |-> Absent]

Ask(c, v, p) ==
  /\ asked[c] = Absent
  /\ asked' = [asked EXCEPT ![c] = [id |-> v, vigy |-> p]]
  /\ UNCHANGED vigies

GiveUp(c) ==
  /\ asked' = [asked EXCEPT ![c] = Absent]
  /\ UNCHANGED vigies

Upsert(c) ==
  /\ asked[c] # Absent
  /\ vigies' = [vigies EXCEPT ![asked[c].id] = asked[c].vigy]
  /\ asked' = [asked EXCEPT ![c] = Absent]

SetEnabled(v, on) ==
  /\ vigies[v] # Absent
  /\ vigies' = [vigies EXCEPT ![v].enabled = on]
  /\ UNCHANGED asked

Delete(v) ==
  /\ vigies' = [vigies EXCEPT ![v] = Absent]
  /\ UNCHANGED asked

Next ==
  \/ \E c \in Clients : \/ \E v \in Vigies, p \in Registrable : Ask(c, v, p)
                        \/ Upsert(c) \/ GiveUp(c)
  \/ \E v \in Vigies : Delete(v) \/ \E on \in BOOLEAN : SetEnabled(v, on)

Spec == Init /\ [][Next]_<<vigies, asked>>

================================================================================
