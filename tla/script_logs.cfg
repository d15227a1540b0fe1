\* Scripts of one model print on two streams while somebody watches the log.
CONSTANTS
  MaxJobs = 2
  MaxLines = 2
  MaxChecked = 1
  Cap = 3
  PipeCap = 1
  PerMilli = 2
SPECIFICATION LogsFairSpec
INVARIANTS LogsTypeOK ShownInOrder OutputBeforeOutcome StreamShowsOutput
PROPERTIES ScriptsEnd
CHECK_DEADLOCK FALSE
