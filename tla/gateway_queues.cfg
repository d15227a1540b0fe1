\* Two requests for two models that share a port, one with an alias and one health-checked; handlers, goroutines, timers are fair.
CONSTANTS
  a = a
  b = b
  NoModel = NoModel
  Reaper = Reaper
  Models = {a, b}
  Ports = {1}
  Operators = {}
  Internal = {Reaper, r1, r2}
  Requests = {r1, r2}
  Scripts = {s1}
  Checkers = {k1}
  External = {}
  WithEndpoint = {}
  WithPort = {a, b}
  WithStopScript = {}
  HealthChecked = {b}
  WithOverride = {}
  WithTTL = {}
  Names <- TwoNames
  ModelOf <- TwoModelOf
  NameOf <- TwoNameOf
  Serialized = FALSE
SPECIFICATION GatewayFairSpec
INVARIANTS GatewayTypeOK WaitingIsInOnePlace QueuedIsUnanswered RunningIsRoutable
PROPERTIES EveryRequestAnswered
