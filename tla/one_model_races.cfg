\* Two clients race Start, Stop and Restart of one model.
CONSTANTS
  a = a
  b = b
  c = c
  NoModel = NoModel
  Models = {a}
  Ports = {1, 2}
  Operators = {o1, o2}
  Internal = {}
  Scripts = {s1, s2}
  External = {}
  WithEndpoint = {}
  WithPort = {a}
  WithStopScript = {a}
  HealthChecked = {}
  Serialized = FALSE
SPECIFICATION Spec
SYMMETRY Symmetry
INVARIANTS TypeOK StoppingHasOwner StartingHasOwner NoLeakAtRest OnePortPerModel
