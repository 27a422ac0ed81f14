CONSTANTS
  Absent = Absent
  Broken = Broken
  Idle = Idle
  Agent <- AllAgents
  Level <- Levels
  Url <- Urls
  InitArgs <- Inits
  AddArgs <- Adds
  InstallArgs <- Installs
  DoctorArgs <- Doctors
  MaxCommands = 3
  MaxFaults = 1
  MaxEdits = 1
SPECIFICATION Spec
INVARIANTS InitIsAtomic GuardInstalledBlocks GreenReportIsTrue
CHECK_DEADLOCK FALSE
