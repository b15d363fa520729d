SPECIFICATION FairSpec
CONSTANTS
  Modes = {"ALWAYS", "EVERY_SECOND", "NEVER"}
  MaxRecords = 3
  MaxCrashes = 2
  OpenFails = TRUE
INVARIANTS TypeOK NoStrandedRecord RecoversLog CleanRestartComplete
PROPERTY EventuallySynced
