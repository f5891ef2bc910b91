SPECIFICATION FairSpec
CONSTANTS
  v1 = v1
  bad = bad
  None = None
  Data <- MCData
  Unmarshalable <- MCBad
  Undecodable <- Nothing
  Oversize <- Nothing
  WireCap = 1
  MaxBuffered = 1
  MaxMsgs = 1
  MaxWrites = 1
  MaxKeepAlives = 0
INVARIANTS
  OnlyBrokenIfCaused
CHECK_DEADLOCK FALSE
