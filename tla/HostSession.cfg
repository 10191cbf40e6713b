CONSTANTS
  Signals = {"process", "group"}
  EventSources = {"route", "clash"}
  Stages = {1, 2, 3, 4}
  FirstStage <- AllFromFirst
  DebounceTicks = 1
  MaxChecks = 1
  MaxLines = 1
  MaxAttempts = 2
  MaxIncidents = 2
  BoundNoise = TRUE
  BoundSignals = TRUE
SPECIFICATION Spec
INVARIANTS
  HostTypeOK
  DriftNoticed
  NoFalseAlarm
CHECK_DEADLOCK FALSE
