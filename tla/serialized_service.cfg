\* Calls about one model do not overlap: each model is the service expected.
CONSTANTS
  a = a
  b = b
  c = c
  NoModel = NoModel
  Models = {a, b, c}
  Ports = {1, 2}
  Operators = {o1, o2}
  Internal = {}
  Scripts = {s1, s2}
  External = {b}
  WithEndpoint = {b}
  WithPort = {a, c}
  WithStopScript = {a}
  HealthChecked = {}
  Serialized = TRUE
SPECIFICATION Spec
SYMMETRY Symmetry
INVARIANTS PortsAreOwned
PROPERTIES ServicePromise LeasePromise
