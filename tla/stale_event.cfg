SPECIFICATION Spec
CONSTANTS
  Fds = {f1}
  Workers = {w1}
  Listen = Listen
  Pipe = Pipe
  None = None
  MaxConns = 2
  MaxSent = 2
  MaxRecv = 2
  SndCap = 1
  PipeCap = 2
  MAX_EVENTS = 3
  IdleTimeout = FALSE
  Faults = {"rst"}
PROPERTY CloseJustified
