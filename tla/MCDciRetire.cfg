CONSTANTS
  Needed = 1
  maxRetries = 2
  MaxExtra = 1
  MaxLate = 0
  MaxDrop = 0
  MaxLoss = 2
  MaxCopies = 1
SPECIFICATION FairSpec
PROPERTY Retires
CHECK_DEADLOCK FALSE
