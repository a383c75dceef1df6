SPECIFICATION Spec
CONSTANTS
  Tx <- MCTx
  Ins <- MCIns
  Outs <- MCOuts
  CoinBase <- MCCoinBase
  CoinStake <- MCCoinStake
  Hash <- MCHash
  NonStandard <- MCNonStandard
  Invalid <- MCInvalid
  Peer = {p1, p2}
  nMaxOrphanTx = 2
  Maturity = 2
  MaxHeight = 4
  StakeDepth = 1
  BlockSize = 2
  Worlds <- MCWorlds
SYMMETRY Peers
INVARIANTS
  NextTxExact
  PoolMinable
  OrphansIndexed

  
