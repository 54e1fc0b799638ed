CONSTANTS
  f1 = f1
  f2 = f2
  Flow = {f1, f2}
  m_size = 2
  MaxAttempts = 2
  m_maxQps = 2
  m_maxQpsRx = 1
  MaxQpn = 4
  MaxLoss = 1
SPECIFICATION FairSpec
INVARIANTS
  TypeOK
  StatePaired
  TimersRunOnce
PROPERTIES
  CompletesUnlessRejected
CHECK_DEADLOCK FALSE
