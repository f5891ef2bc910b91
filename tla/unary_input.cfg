SPECIFICATION Spec
CONSTANTS
  StringLength <- MCStringLength
  WordBits = 3
  Versions <- MCVersions
  ValuesOf <- MCValuesOf
  HandlerErrors <- MCHandlerErrors
INVARIANTS
  TypeOK
  InputIsWhatWasSent
  ValidatedIsValid
  RefusedOnlyForCause
