SPECIFICATION HubLiveSpec
CONSTANTS
  NumPartitions = 2
  MaxEvents = 3
  Limit = 2
  Undecodable <- MCUndecodable
  Refused <- MCRefused
  MaxCrashes = 2
  MaxDrops = 2
CHECK_DEADLOCK FALSE
INVARIANT CheckpointIsSound
PROPERTY SettledUnlessDisturbed
