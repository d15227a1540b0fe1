\* A health-checked model with a TTL and a stop script; the reaper, the checks and a client; its backend answers in the end.
CONSTANTS
  a = a
  NoModel = NoModel
  Reaper = Reaper
  Models = {a}
  Ports = {1}
  Operators = {o1}
  Internal = {Reaper}
  Scripts = {s1}
  Checkers = {k1}
  External = {}
  WithEndpoint = {a}
  WithPort = {}
  WithStopScript = {a}
  HealthChecked = {a}
  WithOverride = {}
  WithTTL = {a}
  Names <- PlainNames
  ModelOf <- PlainModelOf
  Serialized = FALSE
SPECIFICATION BackendFairSpec
INVARIANTS MonitorsTypeOK
PROPERTIES HealthCheckedStartingEnds IdleModelsAreReaped
