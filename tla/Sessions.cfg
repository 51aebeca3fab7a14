\* The session under losses, failed opens and close(), and its recovery.
SPECIFICATION FairSpec
CONSTANTS
  InitialDelay = 1
  MaxDelay = 3
  ConfigDelay = 2
  MaxFaults = 3
INVARIANTS
  HandlesMatchSession
  StatusIsTrue
  BackoffFollowsFailures
  CallIsBounded
  PayloadIsOwn
PROPERTIES
  Recovers
  ImplementsDatastoreSession
