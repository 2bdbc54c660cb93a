SPECIFICATION WebhookFairSpec
CONSTANTS
  Update = {u1}
  Worker = {w1, w2, w3}
  NoWorker = NoWorker
  NoUpdate = NoUpdate
  MaxFaults = 3
CHECK_DEADLOCK FALSE
INVARIANTS
  AcknowledgedOnlyIfApplied
  WebhookConsistent
PROPERTIES
  EventuallyAcknowledged
  CompletedRepeatsJustified
