SPECIFICATION Spec
CONSTANTS
  N = 2
  FileStatuses = {"PENDING", "CLEANING"}
INVARIANTS KeepStatus
CHECK_DEADLOCK FALSE
