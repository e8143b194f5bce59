\* Every producer stops after its message, so the queue may come to rest.
CHECK_DEADLOCK FALSE
SPECIFICATION FairSpec
CONSTANTS
  m1 = m1
  m2 = m2
  m3 = m3
  Messages = {m1, m2, m3}
  Consumers = {analyzer1, analyzer2}
  JobTypes = {"analyze_ssl", "analyze_cost"}
  TypeOf <- MCTypeOf
  Keys <- MCKeys
  maxRetries = 3
  NoJob = NoJob
  MaxFaults = 2
INVARIANTS
  OneLossPerFault
PROPERTIES
  ImplementsDelivery
  EverySettles
