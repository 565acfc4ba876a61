SPECIFICATION FairSpec
CONSTANTS
  r1 = r1  r2 = r2  arnes = arnes  mado = mado
  Runtimes = {r1, r2}
  Vigies = {v1}
  Callers = {c1, c2}
  Slots = {s1, s2}
  Hosts = {arnes, mado}
  NoHost = NoHost  NoRow = NoRow  NoTask = NoTask
  Scope <- HostScopes
  LabelsOf <- FixedLabel
  Overlap = TRUE
  Faults = {"abandon", "dbread", "exit", "drop"}
INVARIANTS TypeOK OneHostTicks
PROPERTIES DisabledStops
