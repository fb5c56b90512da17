SPECIFICATION Spec
CONSTANTS
  Teams <- MCTeams
  CollectHost <- Hosts
  CollectSystem <- Systems
  RollupAll <- Hosts
  Messages <- MCMessages
  Scenarios <- EachAndSeveral
  MaxBatch = 2
  LagLimit = 2
INVARIANTS
  TypeOK
  NothingLostUnlessExcused
  CountedOnce
  MarkedRootsKept
  TotalsAgree
  NoMetricTwice
  FlatWithinNested
  HostMetricsOnlyIfAsked
PROPERTIES
  SheddingEnds
  EveryDocumentCounted
