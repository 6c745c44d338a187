SPECIFICATION LiveSpec
CONSTANTS
  Producers = {"factory"}
  Workers = {w1}
  Sessions = {s1}
  NoWorker = NoWorker
  MaxSnapshots = 1
  MaxFaults = 2
CHECK_DEADLOCK FALSE
INVARIANT CancellationNamesGrant
PROPERTIES ImplementsAtomicHandoff DecisionIsCarriedOut
