\* A request queued under an alias is not signalled when its model is ready.
CONSTANTS
  a = a
  b = b
  NoModel = NoModel
  Reaper = Reaper
  Models = {a}
  Ports = {1}
  Operators = {o1}
  Internal = {Reaper, r1, r2}
  Requests = {r1, r2}
  Scripts = {s1, s2}
  Checkers = {}
  External = {}
  WithEndpoint = {}
  WithPort = {}
  WithStopScript = {}
  HealthChecked = {}
  WithOverride = {a}
  WithTTL = {}
  Names <- AliasedNames
  ModelOf <- AliasedModelOf
  NameOf <- AliasedNameOf
  Serialized = FALSE
SPECIFICATION GatewaySpec
PROPERTIES ReadySignalsAll
