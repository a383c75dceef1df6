SPECIFICATION FairSpec
CONSTANTS
  MCLength = 4
  p1 = p1
  p2 = p2
  Block <- MCBlock
  Genesis = 0
  Prev <- MCPrev
  Height <- MCHeight
  StakeRefused = {1, 2}
  Submitted = {1}
  Peer = {p1, p2}
  Tips <- MCTips
  InvLimit = 2
  BLOCK_DOWNLOAD_WINDOW = 1
  MAX_BLOCKS_IN_TRANSIT_PER_PEER = 1
  MaxUpsets = 1
  None = None
INVARIANTS InFlightConsistent CommonIsHeld
 
CHECK_DEADLOCK FALSE
