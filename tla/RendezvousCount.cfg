\* The count as the code has it: it tests the word it stores.
CONSTANTS
  N <- FourCores
  Tested = "w1"
SPECIFICATION LiveSpec
PROPERTIES
  CoreZeroIsCounted
