SPECIFICATION FairSpec
CONSTANTS
  s1 = s1
  s2 = s2
  s3 = s3
  quiet = quiet
  Spans <- MCSpans
  Unsampled <- MCUnsampled
  ChanCap = 1
  MaxBatchSize = 2
  MaxRetries = 2
INVARIANTS
  TypeOK
  NoSilentLoss
  AnsweredOnce
PROPERTIES
  TrimsOldestOfFull
  SubmitReturns
  SpansArrive
CHECK_DEADLOCK FALSE
