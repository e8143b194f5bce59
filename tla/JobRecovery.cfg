\* A settled table with empty lists has nothing left to do.
CHECK_DEADLOCK FALSE
SPECIFICATION FairSpec
CONSTANTS
  scanJob = scanJob
  analyzerJob = analyzerJob
  scanner = scanner
  analyzer = analyzer
  Jobs = {analyzerJob}
  FromScanner = {analyzerJob}
  Processes = {scanner, analyzer}
  HandledBy <- MCHandledBy
  MaxRecoveryAttempts = 2
  maxRetries = 1
  CronRuns = TRUE
  None = None
  MaxFaults = 2
INVARIANTS
  RecoveryBounded
PROPERTIES
  CompleteNotOverturned
  RecoveryEnds
  LossIsRepaired
