SPECIFICATION FairSpec
CONSTANTS
  v1 = v1
  bad = bad
  None = None
  Data <- MCData
  Unmarshalable <- MCBad
  Undecodable <- Nothing
  Oversize <- Nothing
  WireCap = 1
  MaxBuffered = 1
  MaxMsgs = 1
  MaxWrites = 2
  MaxKeepAlives = 1
INVARIANTS
  HalfCloseKeepsResponse
  CutRequestIsReported
PROPERTIES
  FailureIsVisible
  CallEnds
CHECK_DEADLOCK FALSE
