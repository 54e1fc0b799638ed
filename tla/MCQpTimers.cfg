CONSTANTS
  f1 = f1
  f2 = f2
  Flow = {f1, f2}
  m_size = 1
  MaxAttempts = 2
  m_maxQps = 2
  m_maxQpsRx = 1
  MaxQpn = 4
  MaxLoss = 1
SPECIFICATION Spec
INVARIANT
  CompletedHasNoTimers
CHECK_DEADLOCK FALSE
