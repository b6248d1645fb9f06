SPECIFICATION MCFairSpec
CONSTANTS
  JobIds = {1, 2}
  Nodes = {1}
  Limited = {}
  CancelJobs = {1}
  Exits = {"exit1"}
  Streams = {s1, s2}
  NoStream = NoStream
  WorkBuf = 2
  MaxQueue = 4
  MaxStarts = 1
INVARIANTS
  AgentTypeOK
  SlotNamesProcess
  StoppedForCause
PROPERTIES
  CancelReaches
  EndedIsReported
CHECK_DEADLOCK FALSE
