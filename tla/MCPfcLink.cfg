CONSTANTS
  Prop = 3
  NicDelay = 0
  Wait = 1
  PauseTime = 4
  MaxShared = 1
SPECIFICATION Spec
INVARIANTS
  TypeOK
  NoLoss
  PauseRenewed
