------------------------------ MODULE MCLifecycle ------------------------------
(* Values of Lifecycle's constants for TLC: the scopes of one or two runtimes *)
(* and the labels a vigy is registered under.                                 *)
EXTENDS Lifecycle

CONSTANTS r1, r2, arnes, mado

\* `vigy serve` alone.
ServeScope == [r \in Runtimes |-> [kind |-> "Unlabelled", host |-> NoHost]]

\* One process, the primary host: its own label and the unlabelled vigies.
PrimaryScope == [r \in Runtimes |-> [kind |-> "HostAndUnlabelled", host |-> mado]]

\* Two hosts that share the store, mado the primary one.
HostScopes ==
  [r \in Runtimes |-> IF r = r1 THEN [kind |-> "HostAndUnlabelled", host |-> mado]
                                ELSE [kind |-> "Host", host |-> arnes]]

\* A vigy may be registered under every label, or keeps the one it has.
AnyLabel == [v \in Vigies |-> Label]
FixedLabel == [v \in Vigies |-> {arnes}]
Unlabelled == [v \in Vigies |-> {NoHost}]

================================================================================
