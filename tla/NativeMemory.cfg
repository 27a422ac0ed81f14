CONSTANTS
  agent = agent  owner = owner  bot = bot
  v1 = v1  v2 = v2  endText = endText  object = object  objectText = objectText
  repoDatabase = repoDatabase  note = note
  c1 = c1  c2 = c2
  NoFact = NoFact  NoValue = NoValue  NoProc = NoProc  NoSource = NoSource
  AgentSource = agent
  Ids <- MCFacts
  Facts <- MCFacts
  Sources <- MCSources
  Values <- MCValues
  SentinelValues <- MCSentinelValues
  JsonText <- MCJsonText
  SourceWords <- MCSourceWords
  Shapes <- MCShapes
  UniqueShapes <- MCUniqueShapes
  Policy <- MCPolicy
  Grants <- MCGrants
  Workloads <- MCWorkloads
  Plans <- MCPlans
  Procs <- MCProcs
  VolatileCeiling = 3
  RegistryMaxTtl = 5
  MaxMillis = 9
  EntrenchmentGate = TRUE
  RecordChallenges = TRUE
SPECIFICATION Spec
INVARIANT QueueAccounts
INVARIANT UnscannedIsFlagged
INVARIANT JournalTellsTruth
INVARIANT ExportRoundTrips
PROPERTY CommandsEnd
CHECK_DEADLOCK FALSE
