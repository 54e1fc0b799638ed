CONSTANTS
  Needed = 1
  maxRetries = 2
  MaxExtra = 1
  MaxLate = 1
  MaxDrop = 1
  MaxLoss = 1
  MaxCopies = 1
SPECIFICATION Spec
INVARIANTS
  TypeOK
  ReceiverNeedsSource
  RetiredInPairs
  ViewNeverAhead
  RetirableIsDelivered
  RegistrationRetired
CHECK_DEADLOCK FALSE
