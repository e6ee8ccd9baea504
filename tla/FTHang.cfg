SPECIFICATION FairSpec
CONSTANTS
  a = a
  b = b
  c = c
  Workers = {a, b, c}
  Manager = a
  Head <- Heads
  Threshold = 2
  MaxAlarms = 1
  MayCut = {a, b, c}
INVARIANTS CopiesLag
PROPERTIES NoFalseAlarm SilenceNoticed
