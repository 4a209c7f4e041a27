CONSTANTS
  g1 = g1
  g2 = g2
  Snapshots <- MCSnapshots
  Blank = Blank
  Torn = Torn
  Absent = Absent
  Closed = Closed
  MaxFaults = 3
  MaxCrashes = 2
  OtherOpens = TRUE
SPECIFICATION Spec
SYMMETRY MCSymmetry
INVARIANTS
  NoLoss
  StoreNeverTorn
  ReturnContract
  HandleOnStore
