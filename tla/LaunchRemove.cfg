CONSTANTS
  Configs <- HostConfigs
  MaxFaults = 0
  Meddling = {}
SPECIFICATION LaunchSpec
PROPERTIES
  UsersMainKept
CHECK_DEADLOCK FALSE
