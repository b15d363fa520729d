SPECIFICATION Spec
CONSTANTS
  c1 = c1
  c2 = c2
  Conns = {c1, c2}
  Scripts <- MCScripts
  Reads = {1, 6, 60}
  None = None
  Done = Done
  Token <- MCToken
  MaxNumber = 9
  Sec = 2
  MaxTime = 3
INVARIANTS TypeOK NoFrameWaits ParsesStream RepliesDecode DeletedOnce
PROPERTY ExpiryHonoured
