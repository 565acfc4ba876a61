SPECIFICATION Spec
CONSTANTS
  Names = {n1}
  Text = Text  Absent = Absent
  MaxInt = 2
  Tickers = {t1}
  Verbs = {"set", "incr", "del", "once", "mark", "rate"}
  Raw <- OwnKeys
  Payloads <- Anything
  Faults = {"fail"}
  MinMs = 2
  MaxVerbs = 2
  MaxTicks = 3
  MaxTime = 4
INVARIANTS CountsOkTicks SavedOnTickEnd OnceUnlessFailed
PROPERTIES TickIsTransaction RateSpaced
CHECK_DEADLOCK FALSE
