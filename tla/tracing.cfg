SPECIFICATION Spec
CONSTANTS
  c1 = c1
  c2 = c2
  Calls <- MCCalls
  Contexts <- MCContexts
  Inherited <- MCInherited
SYMMETRY Alike
INVARIANTS
  SharedIdsAreHalves
  ServerSpanHasItsPlace
