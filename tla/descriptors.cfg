SPECIFICATION Spec
CONSTANTS
  Fds = {f1, f2}
  Workers = {w1, w2}
  Listen = Listen
  Pipe = Pipe
  None = None
  MaxConns = 2
  MaxSent = 2
  MaxRecv = 2
  SndCap = 1
  PipeCap = 2
  MAX_EVENTS = 2
  IdleTimeout = FALSE
  Faults = {"rst"}
SYMMETRY WorkerSymmetry
INVARIANTS RepliesInOrder OneInFlight NoLostEdge
