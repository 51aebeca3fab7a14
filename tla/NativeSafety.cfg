\* Native long poll: two clients that read, write and wait, through a loss,
\* a power cycle or a missing reply.
SPECIFICATION Spec
CONSTANTS
  Clients = {c1, c2}
  Anonymous = {}
  Returning = {}
  Poller = poller
  NoClient = noclient
  NativeLongPoll = TRUE
  HistorySize = 1
  Requests = {"read", "post", "waitPoll"}
  MayClose = FALSE
  MaxRequests = 1
  MaxVersion = 2
  MaxFaults = 1
  MaxParts = 1
SYMMETRY Symmetry
INVARIANTS
  TypeOK
  PipeExclusive
  WaitingRequestCancelsPoll
  DeltasMatchTheirEtag
  HistoryEndsAtLatest
  NoLostWakeup
PROPERTIES
  LatestNeverGoesBack
