CONSTANTS
  None = None
  maker = maker
  taker = taker
  ident = ident
  vrsc = vrsc
  gold = gold
  silver = silver
  Native = vrsc
  Tokens = {gold, silver}
  Keys = {maker, taker}
  Identities = {ident}
  Protocol = Protocol
  Issuer <- MCIssuer
  Authority <- MCAuthority
  TX_OVERHEAD = 1
  INPUT_SIZE = 1
  P2PKH_OUTPUT_SIZE = 0
  SMART_OUTPUT_SIZE = 1
  MIN_FEE = 3
  DUST_THRESHOLD = 1
  InitialCoins <- MCInitialCoins
  Orders <- MCOrders
  Transfers <- MCTransfers
  Wanted <- MCWanted
  OfferAmounts = {5}
  TakeFee = 2
  Lifetime = 1
  MaxHeight = 2
  MaxAccepted = 2
  MaxOffers = 2
SPECIFICATION Spec
INVARIANTS
  PreparedIsAcceptable
  NothingIsStranded
PROPERTY OnlyWhatWasAsked
CHECK_DEADLOCK FALSE
