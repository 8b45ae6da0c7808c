SPECIFICATION MCSpec
CONSTANTS
  Row = {r1, r2, r3}
  Value = {"admin", "guest", "x"}
  Reserved <- MCReserved
  Logins <- MCLogins
  MaxCalls = 2
  MaxPresses = 2
  MaxUpsets = 1
  None = None
  Unborn = Unborn
SYMMETRY Rows
CHECK_DEADLOCK FALSE
INVARIANTS
  OffersAreAccepted
  FormShowsTheRecord
PROPERTIES
  ClosesItsOwn
