SPECIFICATION LiveSpec
CONSTANTS
  Producers = {"factory"}
  Keys = {k1}
  Workers = {w1, w2}
  Sessions = {s1}
  NoWorker = NoWorker
  NoKey = NoKey
  MaxSettlements = 2
  MaxOwners = 2
  MaxChanges = 1
  MaxFaults = 1
CHECK_DEADLOCK FALSE
INVARIANTS RecordsAreSound TombstoneIsFinal NobodyLetsGoEarly
PROPERTY DecisionIsCarriedOut
