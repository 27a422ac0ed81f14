CONSTANTS
  agent = agent  owner = owner
  v1 = v1
  repoDatabase = repoDatabase  branchStatus = branchStatus  note = note
  NoFact = NoFact  NoValue = NoValue
  Ids <- MCFacts
  Facts <- MCFacts
  Sources <- MCSources
  Values <- MCValues
  Shapes <- MCShapes
  UniqueShapes <- MCUniqueShapes
  Policy <- MCPolicy
  Grants <- MCGrants
  Workloads <- MCWorkloads
  VolatileCeiling = 3
  RegistryMaxTtl = 5
  MaxMillis = 9
  EntrenchmentGate = TRUE
  RecordChallenges = TRUE
SPECIFICATION OpsSpec
INVARIANT StoreStaysLoadable
CHECK_DEADLOCK FALSE
