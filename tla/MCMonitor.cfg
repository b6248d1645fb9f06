SPECIFICATION MonSpec
CONSTANTS
  JobIds = {}
  Nodes = {1, 2}
  Timeout = 3
  QueueSize = 3
  BeatEvery = 1
  Stall = 4
  Gap = 1
INVARIANTS
  MonTypeOK
  LiveIsOnline
  DeadIsOffline
PROPERTIES
  ImplementsLateFlag
