\* Two models whose names and aliases clash in every way, and one request.
CONSTANTS
  Strings = {x, y}
  MaxModels = 2
  MaxAliases = 1
  Kinds = {{"external"}, {"stopScript"}, {"healthCheck"}}
  Clients = {r1}
SPECIFICATION ProgramFairSpec
INVARIANTS ProgramTypeOK OwnNameIndexed
PROPERTIES RunningModelsStopped ShutdownEnds
CHECK_DEADLOCK FALSE
