\* A transition from an ETag of the previous session.
SPECIFICATION Spec
CONSTANTS
  Clients = {c1}
  Anonymous = {}
  Returning = {}
  Poller = poller
  NoClient = noclient
  NativeLongPoll = TRUE
  HistorySize = 2
  Requests = {"read", "post", "waitPoll"}
  MayClose = FALSE
  MaxRequests = 1
  MaxVersion = 1
  MaxFaults = 1
  MaxParts = 0
INVARIANTS
  HistoryWithinSession
