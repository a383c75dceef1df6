CONSTANTS
  Block <- MCBlock
  Genesis = "G"
  Prev <- MCPrev
  Bodies <- MCBodies
  Txid <- MCTxid
  TxData <- MCTxData
  ZKey = {"s1", "c1"}
  None = None
  Maturity = 1
  CheckDepth = 1
SPECIFICATION Spec
INVARIANTS
  CoinsMatchChain
  TipCanBeUndone
  ZerocoinsOfChainAreKnown
  NoSerialSpentTwice
  StartupSucceeds
  SupplyMatchesCoins
