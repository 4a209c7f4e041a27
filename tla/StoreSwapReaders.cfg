CONSTANTS
  g1 = g1
  g2 = g2
  Snapshots <- MCSnapshots
  Blank = Blank
  Torn = Torn
  Absent = Absent
  Closed = Closed
  MaxFaults = 0
  MaxCrashes = 0
  OtherOpens = TRUE
SPECIFICATION Spec
PROPERTY OtherSeesOldOrNew
