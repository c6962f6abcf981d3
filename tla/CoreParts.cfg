\* Three cores stop; two cores end tasks 0 and 1 in any order and fill two
\* entries; addresses have 6 bits, a KB is 4, and the syndrome has a bit for
\* each kind of test.
CONSTANTS
  K = 3
  Space = 64
  KB = 4
  Syndrome = {0, 2, 3, 4, 12, 31}
  MaxCount = 6
  NULL = NULL
  Page = Page
  Stray = Stray
  Cores = {c1, c2}
  Task = {0, 1}
  D = 2
  MaxTime = 1
SPECIFICATION PartsSpec
CHECK_DEADLOCK FALSE
INVARIANTS
  StopsOnlyByAuthority
  RequesterEndsFirst
  NeverPoweredOff
  AbortOutcomes
  OutsideOnlyWhenFull
PROPERTIES
  NullLinkIsCountedForEver
  FirstDumpsStay
