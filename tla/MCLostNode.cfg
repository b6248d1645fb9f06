SPECIFICATION UpSpec
CONSTANTS
  JobIds = {1}
  Nodes = {1, 2}
  Specs <- Pairs
  CPUs <- TwoCPUs
  Cancellable = {}
  Events = {"completed"}
  Silent = {1}
  Restarting = {}
  ExitCodes = {0, 1}
  NoReport = NoReport
  Streams = {}
  NoStream = NoStream
  WorkBuf = 1
  MaxQueue = 1
INVARIANTS
  LostNodeFailsJob
