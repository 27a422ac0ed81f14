CONSTANTS
  i1 = i1  i2 = i2  i3 = i3  i4 = i4
  f1 = f1  f2 = f2
  s1 = s1  s2 = s2
  v1 = v1  v2 = v2
  repoDb = repoDb
  NoFact = NoFact  NoValue = NoValue
  Ids <- MCIds
  Facts <- MCFacts
  Sources <- MCSources
  Values <- MCValues
  Shapes <- MCShapes
  UniqueShapes <- MCShapes
  Candidates <- MCCandidates
  Policies <- MCPolicies
  MaxMillis = 9
  MaxLog = 4
SPECIFICATION Spec
SYMMETRY Symm
INVARIANT CommittedNoLaundering
INVARIANT CommittedClosedByRank
INVARIANT ReplayAgrees
INVARIANT DistrustOnlyWeakens
INVARIANT AsOfNeverInvents
CHECK_DEADLOCK FALSE
