CONSTANTS
  Client = {1}
  B = 3
  S = 2
  Lists <- MCLists
  Access <- MCAccess
  Request = {3}
  OpenBox = {0, 1}
  OpenSegment = {0, 1}
  NULL = NULL
SPECIFICATION Spec
CHECK_DEADLOCK FALSE
INVARIANTS NothingDelivered
PROPERTIES EditsGoToTheLast FirstIsReused ServiceRefusesAliasesOfZero
