SPECIFICATION FairSpec
CONSTANTS
  Fds = {f1}
  Workers = {w1}
  Listen = Listen
  Pipe = Pipe
  None = None
  MaxConns = 2
  MaxSent = 1
  MaxRecv = 2
  SndCap = 1
  PipeCap = 2
  MAX_EVENTS = 3
  IdleTimeout = FALSE
  Faults = {"fin"}
PROPERTY BacklogServed
