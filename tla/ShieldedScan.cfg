CONSTANTS
  NoBlock = NoBlock
  Genesis = "g"
  Block <- MCBlock
  Parent <- MCParent
  Height <- MCHeight
  Chain <- MCChain
  Outs <- MCOuts
  Size <- MCSize
  Nulls <- MCNulls
  Mine = {"n1", "n2"}
  Birthday = 1
  SCAN_CHUNK = 2
  REORG_CHECKPOINTS = 3
  ReportsSize = TRUE
  MaxMoves = 3
  MaxFaults = 1
SPECIFICATION FairSpec
INVARIANTS
  WalletIsExact
  CheckpointsDescribeTheWallet
PROPERTIES
  FollowsOneChain
  CatchesUp
