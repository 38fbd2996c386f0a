SPECIFICATION Spec
CONSTANTS
  a1 = a1
  a2 = a2
  Apps = {a1}
  IsDeveloperMode = FALSE
  FailureSets <- MCFailureSets
  MaxStops = 1
INVARIANTS BetaClosable
