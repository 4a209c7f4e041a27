CONSTANTS
  checkout = checkout
  payments = payments
  p1 = p1
  p2 = p2
  f1 = f1
  Services <- MCServices
  Alerts <- MCAlerts
  PromAlerts <- MCPromAlerts
  AlertService <- MCAlertService
  NoRow = NoRow
  TestWorlds <- MCWorlds
  Packs <- MCPacks
  MaxStops = 0
  ReadErrors = FALSE
SPECIFICATION Spec
INVARIANT StaleHealthPruned
