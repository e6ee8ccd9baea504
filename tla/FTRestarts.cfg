SPECIFICATION FairSpec
CONSTANTS
  a = a
  b = b
  c = c
  Workers = {a, b}
  Manager = a
  Head <- OneReplica
  MaxRestarts = 1
  FaultKinds = {"spawn", "evict", "lose", "retry", "hang", "read", "kill", "children"}
  MaxFaults = 1
INVARIANTS TypeOK NoOrphan FlagFresh GenerationBacked
PROPERTIES Settles
