SPECIFICATION Spec
CONSTANTS
  Devices <- MCDevices
  Ops = {"prov1"}
  Results = {"r1", "r2"}
  Workers = {w1}
  Agents = {c1, c2}
  Activities <- MCActivities
  TypeOf <- MCTypeOf
  DeviceOf <- MCDeviceOf
  ActivityOf <- MCActivityOf
  OpOf <- MCOpOf
  NoActivity = NoActivity
  NoWorker = NoWorker
  MaxAttempts = 1
  MaxFaults = 1
  BatchSize = 1
CHECK_DEADLOCK FALSE
SYMMETRY AgentSymmetry
INVARIANTS NoResultLost ResultsAgree
