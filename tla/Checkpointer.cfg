SPECIFICATION Spec
CONSTANTS
  p0 = p0
  p1 = p1
  Processes = {p0, p1}
  MaxStep = 4
  KeepLastN = 1
  KeepEveryN = 2
  MaxRuns = 2
  MaxFaults = 1
SYMMETRY Symmetric
INVARIANTS TypeOK CommittedComplete InProgressKept
PROPERTIES RestorePointAdvances SpacingKept
