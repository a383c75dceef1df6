CONSTANTS
  g = g  a1 = a1  a2 = a2  b1 = b1  b2 = b2  b3 = b3  t1 = t1  t2 = t2
  Block <- MCBlock
  Genesis = g
  Prev <- MCPrev
  Work <- MCWork
  Addr <- MCAddr
  Thread = {t1, t2}
  ReplayBlocks = 0
  Scenario <- MCReorg
SPECIFICATION Spec
VIEW NoDisk
SYMMETRY ThreadSymmetry
INVARIANTS LinkedWhenComplete  ActiveChainNotFailed FailedOnlyBelowInvalid BestChainActivated
PROPERTY ActivationImproves
CHECK_DEADLOCK FALSE
