SPECIFICATION Spec
CONSTANTS
  Now = 12
  SuspectChangeWindow = 2
  correlateWindow = 4
  Services <- mcServices
  Agents <- mcAgents
  Names <- mcNames
  EvidenceIds <- mcEvidenceIds
  LegacyIds <- mcLegacyIds
  Tests <- mcTests
  Writes <- mcWrites
INVARIANTS TypeOK PartsAgree CitedShown CausesFound IncidentKept NoFireHidden ValidGraphAnswers
CHECK_DEADLOCK FALSE
