SPECIFICATION Spec
CONSTANTS
  n1 = n1
  n2 = n2
  n3 = n3
  owner = owner
  x = x
  y = y
  e1 = e1
  e2 = e2
  Everywhere = Everywhere
  Malformed = Malformed
  NoIssuer = NoIssuer
  NoGrant = NoGrant
  NoFile = NoFile
  Idle = Idle
  Refused = Refused
  Names <- MCNames
  Sources <- MCSources
  Operators = {owner}
  Subjects <- MCSubjects
  Levels = {1, 3}
  Profile <- MCProfile
  Commands <- MCCommands
  Editors <- MCEditors
  HandEdits <- MCHandEdits
  Required = FALSE
  MaxEdits = 2
  MaxByHand = 1
SYMMETRY Symm
INVARIANT NoGrantGroundsItself
INVARIANT AddAgreesWithGate
PROPERTY RevocationOnlyTightens
CHECK_DEADLOCK FALSE
