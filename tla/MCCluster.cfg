SPECIFICATION CUpSpec
CONSTANTS
  JobIds = {1, 2}
  Nodes = {1}
  Specs <- Singles
  CPUs <- OneCPU
  Cancellable = {}
  Events = {"completed", "failed", "cancelled"}
  Silent = {}
  Restarting = {1}
  ExitCodes = {0, 1}
  NoReport = NoReport
  Streams = {s1, s2}
  NoStream = NoStream
  WorkBuf = 2
  MaxQueue = 4
  Limited = {1}
  Exits = {"exit0"}
  MaxStarts = 2
  Faults = {"report", "stream", "stop", "crash"}
  MaxFaults = 1
SYMMETRY Symmetry
INVARIANTS
  RunningHoldsGang
  NoLostWakeup
  OwedIsInHand
  CompletedMeansRan
  ProgramsAreOwed
CHECK_DEADLOCK FALSE
