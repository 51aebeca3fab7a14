\* No preemptible long poll: two clients share one refresh.
SPECIFICATION FairSpec
CONSTANTS
  Clients = {c1, c2}
  Anonymous = {c2}
  Returning = {c2}
  Poller = poller
  NoClient = noclient
  NativeLongPoll = FALSE
  HistorySize = 1
  Requests = {"post", "waitPoll"}
  MayClose = FALSE
  MaxRequests = 1
  MaxVersion = 2
  MaxFaults = 1
  MaxParts = 0
INVARIANTS
  DegradedRefreshIsSingle
PROPERTIES
  WaitersAnswered
