CONSTANTS
  Nothing = Nothing
  EXPIRY_BLOCKS = 4
  SOON = 1
  Attempts = 1
  MaxHeight = 6
  MaxReorgs = 1
  MaxLosses = 0
  MaxRestarts = 0
SPECIFICATION FairSpec
PROPERTY PollingAgainSettles
CHECK_DEADLOCK FALSE
