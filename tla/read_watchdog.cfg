SPECIFICATION FairSpec
CONSTANTS
  Period = 3
  Patience = 2
  MaxSilence = 7
  MaxMsgs = 4
INVARIANTS
  CancelIfSilentForLong
  CancelOnlyIfSilent
  NothingDropped
  IndInv
PROPERTIES
  EndsWithInput
