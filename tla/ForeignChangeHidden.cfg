\* A change of somebody else is filed as the client's own.
SPECIFICATION Spec
CONSTANTS
  Clients = {c1}
  Anonymous = {}
  Returning = {}
  Poller = poller
  NoClient = noclient
  NativeLongPoll = TRUE
  HistorySize = 2
  Requests = {"read", "post", "waitPoll"}
  MayClose = FALSE
  MaxRequests = 3
  MaxVersion = 2
  MaxFaults = 0
  MaxParts = 0
INVARIANTS
  ForeignChangesWake
