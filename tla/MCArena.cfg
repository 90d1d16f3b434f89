CONSTANTS
  PageSize = 8
  Requests <- MCRequests
  MaxBlocks = 5
SPECIFICATION ArenaSpec
INVARIANTS
  ArenaTypeOK
  BlocksApart
  BlocksInPages
CHECK_DEADLOCK FALSE
