SPECIFICATION FairSpec
CONSTANTS
  NoJob = noJob
  NoVersion = noVersion
  NoTier = noTier
  NoTopo = noTopo
  j1 = j1
  j2 = j2
  j3 = j3
  v1 = v1
  v2 = v2
  t1 = t1
  p1 = p1
  noJob = noJob
  noVersion = noVersion
  noTier = noTier
  noTopo = noTopo
  Jobs = {j1}
  Rank <- Order
  Versions = {v1}
  Tiers = {t1}
  Topos = {}
  CleanupJobs = {j1}
  OrphanThreshold = 2
  Calls = {"submit", "cancel", "update"}
  MaxSubmits = 2
  MaxPending = 1
  FaultKinds = {"crash", "lost", "delete", "membership", "update", "popen"}
  MaxFaults = 2
PROPERTIES CancelEnds
