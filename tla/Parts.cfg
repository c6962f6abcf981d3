\* Four components that share nothing, one at a time.  Three cores and a word
\* that is free, gained or the 2 of an uninitialised bank for the mutex.  Two
\* cores for the interrupts; numbers of lines on both sides of every test, with
\* a shift of 0, in the middle and at the end of the word.  A bank of four
\* address space ids: all full, all free, and every mixture.  Two callers of
\* the UART.
CONSTANTS
  t1 = t1
  t2 = t2
  Core = {c1, c2, c3}
  Word = {0, 1, 2}
  Cores = {c1, c2}
  Lines = {0, 2, 30, 63, 92, 103, 127, 255}
  Contents <- Registers
  Id = {0, 7, 8, 15, 16, 30, 97, 125, 153}
  A = 4
  Owner = {0, 1, 2}
  Caller = {t1, t2}
  Nobody = Nobody
  Enablation <- Enablations
SPECIFICATION MCSpec
CHECK_DEADLOCK FALSE
INVARIANTS
  PrioritiesAddUp
  NoneIsAnswered
  ServicesShareOne
  SettingsTakeEffect
PROPERTIES
  HeldStaysHeld
  WriterReturns
