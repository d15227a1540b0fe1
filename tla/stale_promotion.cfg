\* A health check makes a model that failed meanwhile a running one, even when calls do not overlap.
CONSTANTS
  a = a
  NoModel = NoModel
  Reaper = Reaper
  Models = {a}
  Ports = {1}
  Operators = {o1}
  Internal = {Reaper}
  Scripts = {s1, s2}
  Checkers = {k1}
  External = {}
  WithEndpoint = {}
  WithPort = {a}
  WithStopScript = {a}
  HealthChecked = {a}
  WithOverride = {}
  WithTTL = {}
  Names <- AliasedNames
  ModelOf <- AliasedModelOf
  Serialized = TRUE
SPECIFICATION MonitorsSpec
PROPERTIES PromotesOnlyStarting
