\* A request waits for a cancelled read without a deadline.
SPECIFICATION Spec
CONSTANTS
  Clients = {c1}
  Anonymous = {}
  Returning = {}
  Poller = poller
  NoClient = noclient
  NativeLongPoll = TRUE
  HistorySize = 2
  Requests = {"read", "post", "waitPoll"}
  MayClose = FALSE
  MaxRequests = 1
  MaxVersion = 1
  MaxFaults = 0
  MaxParts = 0
INVARIANTS
  PreemptionIsBounded
