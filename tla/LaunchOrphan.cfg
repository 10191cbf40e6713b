CONSTANTS
  Configs <- HostConfigs
  MaxFaults = 2
  Meddling = {"stop"}
SPECIFICATION LaunchSpec
INVARIANTS
  NoOrphanMain
CHECK_DEADLOCK FALSE
