SPECIFICATION FairSpec
CONSTANTS
  Processes = {p1, p2, p3}
  Faults = {"cut"}
INVARIANTS TypeOK OpenIsReady OneWinner
PROPERTIES UpgradesInOrder EveryoneGetsIn
