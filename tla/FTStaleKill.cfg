SPECIFICATION Spec
CONSTANTS
  a = a
  b = b
  c = c
  Workers = {a, b}
  Manager = a
  Head <- TwoReplicas
  MaxRestarts = 1
  FaultKinds = {}
  MaxFaults = 0
PROPERTIES NoStaleKill
