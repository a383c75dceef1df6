\* Two workers, four checks in a block, two blocks, batches of up to two.
SPECIFICATION FairSpec
CONSTANTS
  Worker = {w1, w2}
  Master = m
  Check = {c1, c2, c3, c4}
  nBatchSize = 2
  MaxBad = 1
  MaxBlocks = 2
INVARIANTS CountersExact
PROPERTIES ResultIsConjunction WaitReturns
CHECK_DEADLOCK FALSE
