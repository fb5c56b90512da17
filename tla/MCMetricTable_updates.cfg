SPECIFICATION Spec
CONSTANTS
  u1 = u1
  u2 = u2
  h1 = h1
  h2 = h2
  agg = agg
  f1 = f1
  f2 = f2
  latency = latency
  memory = memory
  heap = heap
  Nobody = Nobody
  Averages = {heap}
  Workloads <- EachMetric
  Histograms = {latency}
  Handlers = {h1, h2}
  Aggregator = agg
  Flushers = {f1, f2}
  FlushEvery = 1
  QuietAfter = 0
  DestroyAfter = 1
  MayFail = TRUE
  MaxTime = 3
SYMMETRY Symmetry
INVARIANTS
  TypeOK
  KeptUnlessExcused
  SentOnce
  AveragesAgree
PROPERTIES
  ReportsGrow
