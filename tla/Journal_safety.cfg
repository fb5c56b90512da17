SPECIFICATION FairSpec
CONSTANTS
  MaxLog = 4
  MaxCrashes = 1
  MayReject = TRUE
  MayFail = TRUE
  Classes = {"complete", "incomplete", "unparsable"}
INVARIANTS
  TypeOK
  NothingSkippedUnseen
PROPERTIES
  CheckpointMovesToSettled
  CompleteIsPassed
  ImplementsStoreAndForward
