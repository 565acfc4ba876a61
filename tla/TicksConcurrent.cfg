SPECIFICATION Spec
CONSTANTS
  Names = {n1}
  Text = Text  Absent = Absent
  MaxInt = 2
  Tickers = {t1, t2}
  Verbs = {"del", "once"}
  Raw <- OwnKeys
  Payloads <- Numbers
  Faults = {"load", "fail", "save", "abort"}
  MinMs = 2
  MaxVerbs = 1
  MaxTicks = 3
  MaxTime = 2
INVARIANTS TypeOK
PROPERTIES SentinelsStay
CHECK_DEADLOCK FALSE
