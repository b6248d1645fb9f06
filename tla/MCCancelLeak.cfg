SPECIFICATION UpSpec
CONSTANTS
  JobIds = {1}
  Nodes = {1, 2}
  Specs <- Pairs
  CPUs <- TwoCPUs
  Cancellable = {1}
  Events = {"completed"}
  Silent = {}
  Restarting = {}
  ExitCodes = {0, 1}
  NoReport = NoReport
  Streams = {}
  NoStream = NoStream
  WorkBuf = 1
  MaxQueue = 1
INVARIANTS
  CancelReleases
