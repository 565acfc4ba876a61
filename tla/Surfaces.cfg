SPECIFICATION Spec
CONSTANTS
  plain = plain  odd = odd  c1 = c1  c2 = c2
  Vigies = {v1}
  Clients = {c1, c2}
  Half = 2
  MinTick = 1
  LabelSets = {plain, odd}
  ValidLabels = {plain}
  Inputs <- Sent
  NoRow = NoRow
  Faults = {"abandon", "dberror"}
SYMMETRY Interchangeable
INVARIANTS TypeOK RowsReadable AnswersWereTrue
PROPERTIES OneMap
