SPECIFICATION FairSpec
CONSTANTS
  Pools = {p1, p2}
  Tiers = {"0", "1"}
  Topologies = {"a", "b"}
  MaxVersion = 2
  MaxTries = 2
  MaxChanges = 2
  MaxFaults = 1
INVARIANTS TypeOK StartsPlaced ReplacedForCause
PROPERTY Converges
CHECK_DEADLOCK FALSE
