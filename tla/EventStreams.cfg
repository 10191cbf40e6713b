CONSTANTS
  Signals = {"process", "group"}
  MaxLines = 2
SPECIFICATION StreamSpec
INVARIANTS
  StreamTypeOK
  SourceDeathReported
  NoSendAfterClose
PROPERTIES
  CancelEndsStreams
CHECK_DEADLOCK FALSE
