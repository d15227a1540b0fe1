\* Two start scripts that run at once are given the same port.
CONSTANTS
  a = a
  b = b
  c = c
  NoModel = NoModel
  Models = {a, b}
  Ports = {1, 2}
  Operators = {o1}
  Internal = {}
  Scripts = {s1, s2}
  External = {}
  WithEndpoint = {}
  WithPort = {a, b}
  WithStopScript = {a}
  HealthChecked = {}
  Serialized = FALSE
SPECIFICATION Spec
INVARIANTS NoPortConflict
