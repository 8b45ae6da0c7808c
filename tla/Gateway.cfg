SPECIFICATION GatewaySpec
CONSTANTS
  Client = {c1, c2}
  Serial = {n1, n2, n3, n4}
  MaxRequests = 2
  Window = 2
  Horizon = 4
  NoAnswer = NoAnswer
SYMMETRY Keys
INVARIANTS WindowBound
PROPERTIES RejectedOnlyWhenFull
CHECK_DEADLOCK FALSE
