SPECIFICATION FairSpec
CONSTANTS
  c1 = c1
  c2 = c2
  o1 = o1
  o2 = o2
  Calls = {c1, c2}
  Orgs = {o1, o2}
  Home = o1
  NoOrg = NoOrg
  NoCall = NoCall
  MaxFaults = 1
PROPERTIES
  SessionKept
  EveryCallSettles
