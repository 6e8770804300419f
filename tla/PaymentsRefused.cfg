CONSTANTS
  None = None
  Payments <- MCPayments
  Amount <- MCAmount
  Confirmed <- MCConfirmed
  FEE = 1
  EXPIRY_BLOCKS = 3
  SOON = 1
  COINBASE_MATURITY = 3
  FirstHeight = 2
  MaxHeight = 7
  MaxLosses = 2
  Question <- MCQuestion
  Writes <- MCWrites
  Asks <- AskReadsMaybeSend
  Refuses <- StaleOutputs
  ReplyTo <- MCReply
  MAX_ROUNDS = 5
  MaxMoment = 3
  MaxLost = 2
SPECIFICATION RefusalSpec
INVARIANT RejectionsAreFinal
CHECK_DEADLOCK FALSE
