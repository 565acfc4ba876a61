SPECIFICATION Spec
CONSTANTS
  r1 = r1  r2 = r2  arnes = arnes  mado = mado
  Runtimes = {r1}
  Vigies = {v1}
  Callers = {c1, c2}
  Slots = {s1, s2, s3}
  Hosts = {arnes, mado}
  NoHost = NoHost  NoRow = NoRow  NoTask = NoTask
  Scope <- ServeScope
  LabelsOf <- Unlabelled
  Overlap = TRUE
  Faults = {}
INVARIANTS OneLoopPerVigy
