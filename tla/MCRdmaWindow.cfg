CONSTANTS
  m_size = 13
  m_mtu = 2
  m_win = 8
  m_chunk = 4
  m_ack_interval = 3
  m_backto0 = FALSE
  Word = 65536
  MaxLoss = 1
SPECIFICATION Spec
INVARIANTS
  WindowBoundsFlight
CHECK_DEADLOCK FALSE
