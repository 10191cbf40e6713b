CONSTANTS
  Configs <- AllConfigs
  MaxFaults = 2
  Meddling = {"crash", "start", "stop", "create", "list", "other", "interrupt"}
SPECIFICATION LaunchSpec
INVARIANTS
  LaunchTypeOK
  LeaseReleased
  FencedIsStopped
  DedicatedMainStopped
  ProbeRemoved
  CreatedMainStopped
PROPERTIES
  LeaseImplemented
  RunningMainSpared
  PreexistingMainKept
CHECK_DEADLOCK FALSE
