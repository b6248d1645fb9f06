SPECIFICATION CUpFairSpec
CONSTANTS
  JobIds = {1}
  Nodes = {1}
  Specs <- Singles
  CPUs <- OneCPU
  Cancellable = {1}
  Events = {"completed", "failed", "cancelled"}
  Silent = {}
  Restarting = {}
  ExitCodes = {0, 1}
  NoReport = NoReport
  Streams = {s1}
  NoStream = NoStream
  WorkBuf = 2
  MaxQueue = 4
  Limited = {}
  Exits = {"exit0", "exit1"}
  MaxStarts = 1
  Faults = {}
  MaxFaults = 0
PROPERTIES
  CancelledIsKilled
CHECK_DEADLOCK FALSE
