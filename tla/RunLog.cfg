SPECIFICATION Spec
CONSTANTS
  RunIds <- Ids
  Keep = 2
  KeepAll = KeepAll
  Vigies = {v1, v2}
  Writers = {w1, w2, w3}
  Faults = {"error", "abort"}
INVARIANTS TypeOK NewestKept OthersGone
PROPERTIES TrimsUnseen
SYMMETRY Symmetry
CHECK_DEADLOCK FALSE
