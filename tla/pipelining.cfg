SPECIFICATION FairSpec
CONSTANTS
  Fds = {f1}
  Workers = {w1, w2}
  Listen = Listen
  Pipe = Pipe
  None = None
  MaxConns = 1
  MaxSent = 6
  MaxRecv = 6
  SndCap = 1
  PipeCap = 1
  MAX_EVENTS = 3
  IdleTimeout = FALSE
  Faults = {"stop"}
INVARIANTS TypeOK ExecutedInOrder OneInFlight NoLostEdge NoLostWakeup NoTaskAfterDestroy
PROPERTIES ImplementsRequestReply EveryCommandAnswered ShutdownCompletes
