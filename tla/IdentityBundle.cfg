\* Three commands on a bundle of two sources, with a failure or a kill, beside writers.
SPECIFICATION Spec
CONSTANTS
  NoHash = NoHash
  Always = Always
  Absent = Absent
  AllSources = AllSources
  Idle = Idle
  Source = {s1, s2}
  Subject <- MCSubject
  Shape <- MCShape
  Authority <- MCAuthority
  MaxKeys = 2
  MaxNow = 1
  MaxCommands = 3
  MaxFaults = 1
  MaxWrites = 1
VIEW Followed
SYMMETRY SourceSymmetry
INVARIANTS
  KeyNeverLost
  ExclusionIsExplained
  GreenStatusIsTrue
PROPERTY RollbackRestores
CHECK_DEADLOCK FALSE
