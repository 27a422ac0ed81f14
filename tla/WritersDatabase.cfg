CONSTANTS
  p1 = p1  p2 = p2  p3 = p3
  agent = agent  owner = owner
  v1 = v1  repoDatabase = repoDatabase
  NoFact = NoFact  NoValue = NoValue  NoProc = NoProc
  Procs <- MCProcs
  Ids <- MCFacts
  Facts <- MCFacts
  Sources <- MCSources
  Values <- MCValues
  Shapes <- MCShapes
  UniqueShapes <- MCShapes
  Policy <- MCPolicy
  VolatileCeiling = 3
  RegistryMaxTtl = 5
  MaxMillis = 9
  EntrenchmentGate = FALSE
  RecordChallenges = TRUE
  Jobs <- Race
  Unleased = {p3}
  Backend = "database"
  Contended = TRUE
  MaxAttempts = 2
  MaxNumber = 12
SPECIFICATION Spec
INVARIANT ReplyMatchesLog
INVARIANT NoSilentDuplicates
PROPERTY EveryOperationEnds
CHECK_DEADLOCK FALSE
