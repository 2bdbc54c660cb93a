SPECIFICATION PollingFairSpec
CONSTANTS
  MaxUpdate = 4
  MaxCrashes = 3
CHECK_DEADLOCK FALSE
INVARIANTS
  PollingConsistent
PROPERTIES
  EventuallyHandled
