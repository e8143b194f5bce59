\* All scans may be used up; nothing must happen then.
CHECK_DEADLOCK FALSE
SPECIFICATION Spec
CONSTANTS
  analyze_orphans = analyze_orphans
  analyze_ssl = analyze_ssl
  r1 = r1
  r2 = r2
  Resources = {r1, r2}
  Findings <- OrphanFindings
  analyzerTypes <- Types
  minScansForDeletion = 3
  maxRetries = 1
  User = User
  None = None
  MaxScans = 2
  MaxFaults = 1
SYMMETRY Symmetry
INVARIANTS
  SeenStaysOpen
  OpenMeansSeen
  NothingForgotten
PROPERTIES
  UserDecisionStands
