CONSTANTS
  EventSources = {"dedicated-daemon", "dedicated-health"}
  Stages = {1, 2, 3, 4, 5, 6}
  FirstStage <- StageOfEvent
  DebounceTicks = 1
  MaxChecks = 1
  Signals = {"group"}
  Configs <- DirectConfigs
  MaxFaults = 1
  Meddling = {"crash", "list"}
SPECIFICATION SessionSpec
INVARIANTS
  SessionTypeOK
  ChecksQuiet
  DedicatedMainStopped
  ExitReported
PROPERTIES
  LeaseKept
CHECK_DEADLOCK FALSE
