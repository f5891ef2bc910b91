SPECIFICATION FairSpec
CONSTANTS
  v1 = v1
  v2 = v2
  bad = bad
  odd = odd
  big = big
  Data <- MCData
  Unmarshalable <- MCUnmarshalable
  Undecodable <- MCUndecodable
  Oversize <- MCOversize
  EmptyDecodes = TRUE
  None = None
  WireCap = 2
  MaxBuffered = 2
  MaxMsgs = 4
INVARIANTS
  TypeOK
  CleanResultIsComplete
  SuccessMeansAnswered
  StatsMatchHead
PROPERTIES
  ImplementsMessageStream
  DoReturns
  PumpFinishes
