CONSTANTS
  a = a
  b = b
  c = c
  Flows <- Started
  m_size <- Sizes
  m_win <- StopAndWait
  m_pg <- Priorities
  Stopping = {c}
  ack_q_idx = 3
  tcpip_q_idx = 1
  Pausable = {3}
  MaxGap = 2
  MaxControl = 1
  MaxTcp = 1
SPECIFICATION Spec
INVARIANTS
  TypeOK
  QpsKept
  WorkConserving
  EverybodyInTurn
  ChosenIsServed
CHECK_DEADLOCK FALSE
