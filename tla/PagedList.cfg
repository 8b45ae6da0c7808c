SPECIFICATION Spec
CONSTANTS
  all = all
  some = some
  Row = {1, 2}
  Text = {all, some}
  Matches <- MCMatches
  Size = {1, 2}
  MaxOther = 1
  MaxPresses = 3
  None = None
INVARIANTS
  RestShowsWhatIsAsked
  EmptyPageHasACause
PROPERTIES
  ListSettles
CHECK_DEADLOCK FALSE
