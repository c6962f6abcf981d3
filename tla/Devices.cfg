\* Two tasks and three calls each on two entries, three requests and two
\* units; messages of one and two bytes, up to two bytes of input.
CONSTANTS
  Task = {0, 1}
  Privileged = {}
  Pin = {4, 5}
  E = 2
  R = 3
  Lock = {l1}
  Units = 2
  Limit = 1
  Calls = 3
  NULL = NULL
  short = short
  long = long
  Buffer = {short, long}
  Size <- Sizes
  Alien = 9
  MaxRead = 2
SPECIFICATION DevicesSpec
CHECK_DEADLOCK FALSE
INVARIANTS
  DrivenByAsker
  RequestsAreQueued
  UnitsConserved
  SentFromTheSecond
  DoneMeansSent
  ReadGoesOn
