CONSTANTS
  m_bifrostPfcPeriodUs = 1
  m_rate = 2
  Rtt = 2
  ReceiveDelays = 1
  m_bifrostBuffer = 8
  m_bifrostLeakSlots = 2
  Packet = 1
  MaxLeak = 1
SPECIFICATION Spec
INVARIANTS
  TypeOK
  QueueBounded
PROPERTIES
  GrantKeepsUp
