\* When every delivery is settled and its webhook deleted, only timers go on.
CHECK_DEADLOCK FALSE
SPECIFICATION FairSpec
CONSTANTS
  Deliveries = {d1, d2}
  theWebhook = hook
  Webhooks = {hook}
  WebhookOf <- OneWebhook
  Batches = {b1, b2}
  BatchSize = 2
  MaxAttempts = 2
  NoDelivery = NoDelivery
  MaxFaults = 1
INVARIANTS
  OneCarrier
  PendingIsCarried
PROPERTIES
  ImplementsPromise
  EverySettles
