\* The bounds of an instance run out.
CHECK_DEADLOCK FALSE
SPECIFICATION Spec
CONSTANTS
  None = None
  RequiredTags <- MCRequiredTags
  AllowedRegions <- MCAllowedRegions
  Facts <- MCFacts
  Clouds <- MCClouds
  Days <- MCDays
  MaxJumps = 1
  MaxChanges = 1
  MaxScans = 2
  MaxFaults = 1
INVARIANTS
  LinksAreTrue
PROPERTIES
  FlaggedOnlyIfTrue
  TrueIsFlagged
