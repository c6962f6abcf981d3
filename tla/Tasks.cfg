\* Two cores, three task blocks, two frames; both cores may have ended their
\* task for good.
CONSTANTS
  Core <- TwoCores
  P = 3
  F = 2
  NULL = NULL
SPECIFICATION Spec
CHECK_DEADLOCK FALSE
INVARIANTS
  PowerServiceExists
  PagesOwned
PROPERTY FreedBySweepOnly
