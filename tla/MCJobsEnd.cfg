SPECIFICATION FairSpec
CONSTANTS
  JobIds = {1, 2}
  Nodes = {1, 2}
  Specs <- Pairs
  CPUs <- NoCPUs
  Cancellable = {}
  Events = {"completed"}
  Silent = {}
  Restarting = {}
  ExitCodes = {0, 1}
  NoReport = NoReport
  Streams = {}
  NoStream = NoStream
  WorkBuf = 1
  MaxQueue = 1
PROPERTIES
  JobsEnd
