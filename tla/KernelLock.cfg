\* The kernel's lock idiom on the three cores of a liveness run, the word free,
\* gained or the 2 of an uninitialised bank.
CONSTANTS
  c1 = c1
  c2 = c2
  c3 = c3
  Core = {c1, c2, c3}
  Word = {0, 1, 2}
SPECIFICATION KLiveSpec
INVARIANTS
  InsideWithoutLock
PROPERTY LoserProceeds
