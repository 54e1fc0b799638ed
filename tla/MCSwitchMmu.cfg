CONSTANTS
  p1 = p1
  p2 = p2
  Port = {p1, p2}
  Queue = {1, 3}
  Packet <- Mixed
  bufferPool = 16
  ingressPool = 8
  egressPool <- SmallLossyEgress
  reserveIngress <- SomeReserve
  xoff <- Xoff
  xon <- Xon
  xon_offset <- XonOffset
  alphaIngress <- AlphaOne
  alphaEgress <- AlphaHigh
  Word = 65536
  MaxDrops = 1
SPECIFICATION Spec
INVARIANTS
  TypeOK
  CountersExact
  PoolsRespected
  PfcInStep
  HeadroomRespected
  LosslessUntilPaused
