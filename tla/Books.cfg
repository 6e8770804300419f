CONSTANTS
  None = None
  Junk = Junk
  NotTaken = NotTaken
  NoExponent = NoExponent
  NoEstimate = NoEstimate
  TX_OVERHEAD = 1
  INPUT_SIZE = 3
  P2PKH_OUTPUT_SIZE = 1
  SMART_OUTPUT_SIZE = 2
  KB = 2
  MIN_FEE = 3
  DUST_THRESHOLD = 1
  MAX_MINER_FEE = 12
  MaxU64 = 16
  Outpoints = {1, 2, 3}
  Values = {0, 1, 4, 5, 9}
  Requests = {0, 1, 3, 8, 16}
  Rates = {1, 2}
  MaxUtxos = 3
  Native = "V"
  Tokens = {"T"}
  Outputs <- MCOutputs
  Asked <- MCAsked
  Stranger = "x"
  COINBASE_MATURITY = 3
  KeyKinds = {"p2pkh"}
  IdentityKinds = {"held"}
  MaxBlocks = 3
  MaxFaults = 1
  NoBlock = NoBlock
  Genesis = "g"
  Block <- MCBlock
  Parent <- MCParent
  Height <- MCHeight
  Chain <- MCChain
  Outs <- MCOuts
  Size <- MCSize
  Nulls <- MCNulls
  Mine <- MCMine
  Leaves <- MCLeaves
  Value <- MCValue
  Amounts = {0, 2, 4, 6, 9}
  Pins = {None, 2}
  MAX_SPEND_NOTES = 2
  Expiries = {None, 0, 5, 6}
  EXPIRY_BLOCKS = 2
  EXPIRY_HEIGHT_THRESHOLD = 6
  MaxMoves = 2
  MaxFailures = 1
SPECIFICATION BooksSpec
INVARIANTS
  ShortOnlyWhenHopeless
  PaysExactly
  BooksAreRight
  AbsenceWasSaid
  TextsAreExact
  NothingIsLost
  ProofsAreNotWasted
  SkewIsHarmless
CHECK_DEADLOCK FALSE
