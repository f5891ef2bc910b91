SPECIFICATION FairSpec
CONSTANTS
  v1 = v1
  v2 = v2
  bad = bad
  Data <- MCData
  Unmarshalable <- MCUnmarshalable
  None = None
  WireCap = 2
  BuildCanFail = TRUE
  MaxMsgs = 3
  MaxKeepAlives = 1
INVARIANTS
  CleanEndIsComplete
  ReturnedMeansChannelClosed
  IndInv
PROPERTIES
  ImplementsMessageStream
  ReleasedIfBuilt
  PumpReturns
CHECK_DEADLOCK FALSE
