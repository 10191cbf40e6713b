CONSTANTS
  Signals = {"process", "group"}
  EventSources = {"route", "clash"}
  Stages = {1, 2, 3, 4}
  FirstStage <- AllFromFirst
  DebounceTicks = 1
  MaxChecks = 1
  MaxLines = 1
  MaxAttempts = 2
  MaxIncidents = 0
  BoundNoise = TRUE
  BoundSignals = TRUE
SPECIFICATION Spec
INVARIANTS
  InterruptExits130
CHECK_DEADLOCK FALSE
