SPECIFICATION FairSpec
CONSTANTS
  N = 4
  Capabilities = {"net", "fs"}
  Mechanisms = {"none", "appcontainer", "job-only"}
  Plans <- MCPlans
  WorkerLimits = {0, 1, 2, 8}
  WorkerAnswers <- MCWorkerAnswers
  LocalAnswers <- MCLocalAnswers
  Links = {"url", "domain", "other url"}
  BrokerRecords <- MCBrokerRecords
INVARIANTS
  TypeOK
  ReportIsDeterministic
  NothingOutlivesAnalysis
  PoolWithinLimit
  
  InventoryIsComplete
  WeakestWorkerDecides
  MechanismIsUniform
PROPERTY AnalysisEnds
