SPECIFICATION Spec
CONSTANTS
  k1 = k1
  Keys = {k1}
  Values = {a, b}
  Workers = {w1, w2}
  None = None
  NShards = 2
  ShardOf <- OneShard
  Ttls = {1}
  MaxTime = 3
  MaxOps = 3
INVARIANT RecoveryExact
