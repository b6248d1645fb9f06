SPECIFICATION ClientSpec
CONSTANTS
  JobIds = {9, 10, 11}
  Nodes = {1}
  Specs <- Requested
  ExitCodes = {1}
  NoReport = NoReport
  Asks <- Flags
  Requests = {{}, {0, 1}}
  Half = 128
  Times = {1, 2}
  FirstId = 8
  Tens = {1, 10}
  Longest = 10
INVARIANTS
  JMTypeOK
  QueueIsPending
  SubmissionOrderKept
PROPERTIES
  FirstComeFirstServed
  OutcomeIsFinal
  ListingsAgree
  ClientsUseManagerRight
CHECK_DEADLOCK FALSE
