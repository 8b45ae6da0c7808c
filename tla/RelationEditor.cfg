SPECIFICATION Spec
CONSTANTS
  admin = admin
  p = p
  Item <- MCItem
  Wildcard = admin
  MaxPresses <- MCPresses
  MaxUpsets = 1
  None = None
INVARIANTS
  WildcardHeld
  SavesAskForEdits
  SuccessMeansSaved
  ScreensAgree
PROPERTIES
  ConfirmationsStayOpen
  Settles
CHECK_DEADLOCK FALSE
