SPECIFICATION FairSpec
CONSTANTS
  Workers = {w1, w2}
  Threads = {w1, w2}
  None = None
  NoKey = None
  NoTime = None
  MaxTasks = 2
  Keys = {1, 2}
  MaxTime = 2
INVARIANTS PoolTypeOK TtlTypeOK WorkConserving NoOversleep NoEntryLost
PROPERTIES ImplementsFifoPool ImplementsExpiryQueue TeardownCompletes
