SPECIFICATION Spec
CONSTANTS
  a1 = a1
  a2 = a2
  Apps = {a1, a2}
  IsDeveloperMode = TRUE
  FailureSets <- MCFailureSets
  MaxStops = 1
INVARIANTS TypeOK KernelAgrees SwitchesRule CommandFlagHeld SystemDumpIsOwn DynamicHasStop
PROPERTIES OnlyOwnerLowers
SYMMETRY Symmetric
