------------------------------- MODULE MCSurfaces -------------------------------
(* Payloads for TLC: an interval below the minimum, one whose stored form is *)
(* negative, labels that only REST takes and a program that is blank.        *)
EXTENDS Surfaces, TLC

CONSTANTS plain, odd, c1, c2

Sent == [sound : {TRUE},
         vigy  : {[enabled |-> TRUE, ms |-> 0, labels |-> plain],
                  [enabled |-> FALSE, ms |-> 1, labels |-> odd],
                  [enabled |-> TRUE, ms |-> 3, labels |-> plain]}]
        \cup [sound : {FALSE}, vigy : {[enabled |-> TRUE, ms |-> 1, labels |-> plain]}]

Interchangeable == Permutations(Clients)

================================================================================
