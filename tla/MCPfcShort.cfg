CONSTANTS
  Prop = 1
  NicDelay = 0
  Wait = 2
  PauseTime = 4
  MaxShared = 1
SPECIFICATION FairSpec
INVARIANTS
  PauseIsAsked
PROPERTY PauseEnds
