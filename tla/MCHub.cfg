SPECIFICATION MCFairSpec
CONSTANTS
  JobIds = {1, 2}
  Nodes = {1}
  Streams = {s1, s2, s3}
  NoStream = NoStream
  WorkBuf = 1
  MaxQueue = 2
  MCMsgs <- MCMessages
INVARIANTS
  HubTypeOK
  SubscriberIsLive
  InOnePlace
  StreamInOrder
PROPERTIES
  NewestKept
  QueueDrains
CHECK_DEADLOCK FALSE
