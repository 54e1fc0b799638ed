CONSTANTS
  g = g
  h = h
  Plain = {}
  Logical = {1, 2, 3}
  Leaving = {1}
  Group = {g, h}
  GroupOf <- Groups
  Priority <- Priorities
  Pausable = {3}
  Burst = 2
  Capacity = 2
  Rates = {0, 1}
  Sizes = {1, 2}
  MaxPackets = 1
SPECIFICATION Spec
INVARIANTS
  TypeOK
  BudgetExact
  WorkConserving
  RoundRobin
CHECK_DEADLOCK FALSE
