CONSTANTS
  Home <- UserHome
  WorkingDir <- ProjectDir
  LongerNames <- BackupNames
  ConfigFiles <- Files
  TUNInterfaces = {"utun4", "utun9"}
  Hosts <- HostStates
  Listings <- SandboxListings
  Inspections <- Sights
SPECIFICATION AdmissionSpec
INVARIANTS
  AdmissionTypeOK
  ConfigUsable
  WorkspaceOutside
  PreflightAgrees
  ListingsAgree
  EnvironmentClean
CHECK_DEADLOCK FALSE
