CONSTANTS
  agent = agent  owner = owner
  v1 = v1  repoDatabase = repoDatabase
  NoFact = NoFact  NoValue = NoValue
  Ids <- MCFacts
  Facts <- MCFacts
  Sources <- MCSources
  Values <- MCValues
  Shapes <- MCShapes
  UniqueShapes <- MCShapes
  Policy <- MCPolicy
  VolatileCeiling = 3
  RegistryMaxTtl = 5
  MaxMillis = 9
  EntrenchmentGate = FALSE
  RecordChallenges = TRUE
  Commands <- MCCommands
  MaxWrites = 4
  MaxTorn = 2
  MaxNumber = 12
SPECIFICATION FileSpec
INVARIANT LossIsReported
INVARIANT OrphansAreRefused
CHECK_DEADLOCK FALSE
