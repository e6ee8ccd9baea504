SPECIFICATION Spec
CONSTANTS
  NoJob = noJob
  NoVersion = noVersion
  NoTier = noTier
  NoTopo = noTopo
  j1 = j1
  j2 = j2
  j3 = j3
  v1 = v1
  v2 = v2
  t1 = t1
  p1 = p1
  noJob = noJob
  noVersion = noVersion
  noTier = noTier
  noTopo = noTopo
  Jobs = {j1, j2, j3}
  Rank <- Order
  Versions = {v1}
  Tiers = {}
  Topos = {}
  CleanupJobs = {}
  OrphanThreshold = 1
  Calls = {"submit"}
  MaxSubmits = 1
  MaxPending = 1
  FaultKinds = {"malformed", "lost"}
  MaxFaults = 2
INVARIANTS LifeCycle
PROPERTIES KeepsLife
