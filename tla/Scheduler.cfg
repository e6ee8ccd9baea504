SPECIFICATION Spec
CONSTANTS
  Jobs = {1, 2, 3}
  Projects = {1, 2}
  Users = {1, 2}
  Specs = {1}
  Resources = {"a", "b"}
  LastTier = 1
  MaxReplicas = 3
  Requests <- MCRequests
  Quotas <- MCQuotas
  FairShare = TRUE
  Huge = 1000
INVARIANTS TypeOK ParentFirst ChargedInFull QuotaGuaranteed Seniority GrantsCharged
CHECK_DEADLOCK FALSE
