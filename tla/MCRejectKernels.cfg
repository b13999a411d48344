SPECIFICATION Spec
CONSTANTS
  N = 5
  Width = 4
  Slack = 4
  GroupsPerBlock = 2
  MaxBlocks = 2
INVARIANTS
  FirstAcceptedInOrder
PROPERTIES
  StoresStayInside
CHECK_DEADLOCK FALSE
