CONSTANTS
  Signals = {}
  EventSources = {"route", "clash"}
  Stages = {1, 2, 3, 4}
  FirstStage <- AllFromFirst
  DebounceTicks = 1
  MaxChecks = 1
  MaxLines = 1
  MaxAttempts = 2
  MaxIncidents = 1
  BoundNoise = TRUE
  BoundSignals = TRUE
SPECIFICATION Spec
PROPERTIES
  DriftStopsWhenCalm
  DeadSourceStops
CHECK_DEADLOCK FALSE
