SPECIFICATION Spec
CONSTANTS
  t1 = t1
  t2 = t2
  NoRoot = NoRoot
  NoDoc = NoDoc
  NoTrace = NoTrace
  Traces = {t1}
  Docs <- RootAndError
  Lookback = 1
  RotateAfter = 1
  MaxExport = 10
  MaxChildren = 10
  UseBloom = TRUE
  FalseHits = TRUE
  MayFail = TRUE
  SlowRounds = TRUE
  MaxTime = 4
  MaxCrashes = 1
INVARIANTS
  TypeOK
  FiltersCoverRoots
  ParentStaysPut
PROPERTIES
  YoungRootsKept
  ChildrenFollowRoot
  ClearedOnlyAfterSent
  ImplementsTailSampling
