SPECIFICATION Spec
CONSTANTS
  Modes = {"EVERY_SECOND"}
  MaxRecords = 2
  MaxCrashes = 2
  OpenFails = FALSE
INVARIANT RecoversDurable
