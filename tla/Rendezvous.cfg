\* A count that leaves once its store has succeeded; any word at power on.
CONSTANTS
  N <- FourCores
  Tested = "w0"
SPECIFICATION LiveSpec
INVARIANTS
  AbsentSeemReady
  LostOnlyByMeeting
PROPERTIES
  CoreZeroStarts
