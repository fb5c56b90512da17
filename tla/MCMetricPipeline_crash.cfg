SPECIFICATION Spec
CONSTANTS
  Teams <- MCTeams
  CollectHost <- Hosts
  CollectSystem <- Systems
  RollupAll <- Hosts
  Messages <- MCMessages
  Scenarios <- OneCrash
  MaxBatch = 2
  LagLimit = 2
INVARIANTS
  AggregatesSurviveCrash
