SPECIFICATION FairSyncSpec
CONSTANTS
  Node = {p1, p2}
  OldNode = {p2}
  h1 = h1
  Item <- MCItem
  Timeout = 1
  Threshold = 1
  RetryDelay = 1
  MaxSetbacks = 1
 
PROPERTIES  FailedIsRetried
