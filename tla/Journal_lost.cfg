SPECIFICATION Spec
CONSTANTS
  MaxLog = 2
  MaxCrashes = 0
  MayReject = TRUE
  MayFail = FALSE
  Classes = {"complete"}
INVARIANTS
  NoDataLost
