SPECIFICATION Spec
CONSTANTS
  Pools = {p1}
  Tiers = {"0", "1"}
  Topologies = {"a"}
  MaxVersion = 1
  MaxTries = 2
  MaxChanges = 1
  MaxFaults = 0
PROPERTY FailedNotRetried
CHECK_DEADLOCK FALSE
