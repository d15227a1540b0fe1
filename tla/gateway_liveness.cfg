\* A request and a client that starts, stops and restarts the model meanwhile; handlers, goroutines, timers are fair, scripts end.
CONSTANTS
  a = a
  b = b
  NoModel = NoModel
  Reaper = Reaper
  Models = {a}
  Ports = {1}
  Operators = {o1}
  Internal = {Reaper, r1}
  Requests = {r1}
  Scripts = {s1, s2}
  Checkers = {}
  External = {}
  WithEndpoint = {}
  WithPort = {}
  WithStopScript = {a}
  HealthChecked = {}
  WithOverride = {a}
  WithTTL = {}
  Names <- PlainNames
  ModelOf <- PlainModelOf
  NameOf <- PlainNameOf
  Serialized = FALSE
SPECIFICATION GatewayFairSpec
PROPERTIES EveryRequestAnswered StoppingEnds StartingEnds
