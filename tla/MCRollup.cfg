CONSTANTS
  web = web
  batch = batch
  Absent = Absent
  Services = {web, batch}
  Names = {"web", "canary", "web-1", "web-2", "web-3", "agent", "job", "old", "e1", "e2"}
  Namespaces = {"default", "other"}
  TestDumps <- MCDumps
  TestAllows <- MCAllows
  TestRows <- MCRows
  MaxPacks = 2
SPECIFICATION Spec
CHECK_DEADLOCK FALSE
INVARIANTS
  WorstWins
  HealthyIsEarned
  RecoveryShows
  PackReplays
