SPECIFICATION FairSpec
CONSTANTS
  t1 = t1
  t2 = t2
  NoRoot = NoRoot
  NoDoc = NoDoc
  NoTrace = NoTrace
  Traces = {t1, t2}
  Docs <- TwoTraces
  Lookback = 1
  RotateAfter = 1
  MaxExport = 10
  MaxChildren = 1
  UseBloom = FALSE
  FalseHits = FALSE
  MayFail = FALSE
  SlowRounds = FALSE
  MaxTime = 4
  MaxCrashes = 0
INVARIANTS
  OnlyTriggeredTracesSent
PROPERTIES
  ClearedOnlyAfterSent
  ReadyTracesAreSent
