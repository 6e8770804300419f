CONSTANTS
  Nothing = Nothing
  EXPIRY_BLOCKS = 3
  SOON = 1
  Attempts = 2
  MaxHeight = 5
  MaxReorgs = 1
  MaxLosses = 1
  MaxRestarts = 1
SPECIFICATION FairSpec
INVARIANTS
  SaltIsNeverLost
  NoFalseReorg
PROPERTIES
  NeverSendsDoomedBytes
  Settles
CHECK_DEADLOCK FALSE
