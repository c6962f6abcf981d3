\* Three cores on one word of three values; no symmetry (it is unsound for
\* liveness).
CONSTANTS
  c1 = c1
  c2 = c2
  c3 = c3
  Core = {c1, c2, c3}
  MaxWord = 2
SPECIFICATION LiveSpec
INVARIANTS
  TypeOK
  PairsAreAtomic
PROPERTIES
  ImplementsCountingSemaphore
  SpinwaitReturns
