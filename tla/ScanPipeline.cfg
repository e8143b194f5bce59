\* When every scan has ended, nothing is left to do.
CHECK_DEADLOCK FALSE
SPECIFICATION FairSpec
CONSTANTS
  Scans = {s1, s2}
  analyzerTypes <- TwoAnalyzers
  maxRetries = 1
  None = None
  MaxFaults = 1
INVARIANTS
  NothingStranded
  CompleteIsAnalysed
PROPERTIES
  EveryScanEnds

