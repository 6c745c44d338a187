SPECIFICATION Spec
CONSTANTS
  Devices <- MCDevices
  Ops = {"prov1", "prov2", "deact", "unprov", "entl"}
  Results = {"prov1", "prov2", "deact", "unprov", "entl"}
  Workers = {w1}
  Agents = {w1}
  Activities <- MCActivities
  TypeOf <- MCTypeOf
  DeviceOf <- MCDeviceOf
  ActivityOf <- MCActivityOf
  OpOf <- MCResultOf
  ResultOf <- MCResultOf
  NoActivity = NoActivity
  NoWorker = NoWorker
  MaxAttempts = 1
  MaxFaults = 0
  BatchSize = 2
CHECK_DEADLOCK FALSE
INVARIANT ProjectionOfCurrentActivity
PROPERTY DeletedDeviceCompletesNothing
