\* Two queues, four tasks, indices up to 5.
CONSTANTS
  t1 = t1
  t2 = t2
  t3 = t3
  t4 = t4
  ready = ready
  waiting = waiting
  NULL = NULL
  Task = {t1, t2, t3, t4}
  Queue = {ready, waiting}
  MaxIndex = 5
SPECIFICATION Spec
SYMMETRY Symmetry
INVARIANTS
  Represents
  WalksFind
