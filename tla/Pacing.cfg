SPECIFICATION FairSpec
CONSTANTS
  Callers = {c1, c2}
  Intervals = {1, 3}
  MaxBackoff = 30
  MaxFailures = 8
  Jitter = 1
INVARIANTS TypeOK PacedAsStored
PROPERTIES Paced NeverGivesUp
