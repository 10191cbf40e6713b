CONSTANTS
  Signals = {"process"}
  EventSources = {"route"}
  Stages = {1, 2}
  FirstStage <- AllFromFirst
  DebounceTicks = 2
  MaxChecks = 1
SPECIFICATION Spec
INVARIANTS
  AttachTypeOK
  PendingEventArmed
  SuccessIsClaudes
  ExitOnItsWay
PROPERTIES
  FailureStops
  CheckersEnd
  ExitEndsSession
  CommandsEnd
CHECK_DEADLOCK FALSE
