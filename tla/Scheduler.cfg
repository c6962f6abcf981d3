CONSTANTS
  Core = {0, 1}
  Task = {0, 1}
  NULL = NULL
  Memory <- MCMemory
  Victim = {0}
  Walk = 2
SPECIFICATION Spec
CHECK_DEADLOCK FALSE
INVARIANTS OtherQueuesStayEmpty PunishmentCostsACore
PROPERTIES LostStaysLost
