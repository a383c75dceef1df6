CONSTANTS
  g = g  a1 = a1  a2 = a2  b1 = b1  b2 = b2  b3 = b3  t1 = t1  t2 = t2
  Block <- MCBlock
  Genesis = g
  Prev <- MCPrev
  Work <- MCWork
  Addr <- MCAddr
  Thread = {t1}
  ReplayBlocks = 0
  Scenario <- MCFaults
SPECIFICATION FairSpec
VIEW NoDisk
INVARIANTS CandidatesAtLeastTip BestChainActivated
 
CHECK_DEADLOCK FALSE
