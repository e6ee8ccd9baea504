SPECIFICATION Spec
CONSTANTS
  N = 3
  FileStatuses = {"PENDING", "CLEANING"}
INVARIANTS OwnEntry StatusChosen
CHECK_DEADLOCK FALSE
