\* Native long poll: what must happen, for one client that writes or
\* waits in every way, a fault and close() at any moment.
SPECIFICATION FairSpec
CONSTANTS
  Clients = {c1}
  Anonymous = {}
  Returning = {c1}
  Poller = poller
  NoClient = noclient
  NativeLongPoll = TRUE
  HistorySize = 2
  Requests = {"post", "waitPoll", "waitQuery", "waitOther"}
  MayClose = TRUE
  MaxRequests = 1
  MaxVersion = 1
  MaxFaults = 1
  MaxParts = 0
PROPERTIES
  ForegroundServed
  WaitersAnswered
  CatchesUp
  CloseCompletes
