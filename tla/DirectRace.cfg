SPECIFICATION LiveSpec
CONSTANTS
  Devices <- MCDevices
  Ops = {"prov1"}
  Results = {"prov1"}
  Workers = {w1, w2}
  Agents = {w1, w2}
  Activities <- MCActivities
  TypeOf <- MCTypeOf
  DeviceOf <- MCDeviceOf
  ActivityOf <- MCActivityOf
  OpOf <- MCResultOf
  ResultOf <- MCResultOf
  NoActivity = NoActivity
  NoWorker = NoWorker
  MaxAttempts = 2
  MaxFaults = 2
  BatchSize = 1
CHECK_DEADLOCK FALSE
INVARIANTS TypeOK AttemptsBounded CompletionMatchesInbox SucceededOnlyIfApplied
PROPERTIES RepairKeepsCompletion ImplementsQueue MessageSettles
