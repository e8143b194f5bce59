\* A page may be left alone.
CHECK_DEADLOCK FALSE
SPECIFICATION WebSpec
CONSTANTS
  a = a
  b = b
  None = None
  Findings = {1, 2, 3}
  TypeOf <- MCTypeOf
  TypeOrder <- MCTypeOrder
  SeverityOf <- MCSeverityOf
  AccountOf <- MCAccountOf
  Savings <- MCSavings
  Matches = {1, 3}
  Tagged = {3}
  ListLimit = 2
  TotalResources = 20
  Urgent = {}
  Accounts = {a, b}
  Starts <- MCStarts
  StartsOn = {None, a}
  OrgSettings <- MCOrgSettings
  PageSizes = {1, 2}
  Limits <- MCLimits
  MapAccounts = {a, b}
  Estates <- MCEstates
  Dependencies <- MCDependencies
  Filters <- MCFilters
  NoFilter <- Unfiltered
  StoredBefore <- MCStored
  PageSize = 6
  MaxSteps = 3
INVARIANTS
  AcknowledgedIsShown
  CardsCountTheList
  LinksShowTheirCount
  DialogIsTrue
  PictureComplete
  NothingOverlaps
  ContainersHold
  ClustersAreComponents
