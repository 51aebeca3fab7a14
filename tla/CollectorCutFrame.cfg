SPECIFICATION Spec
CONSTANTS
  SeqCount = 4
  MaxFrames = 2
  MaxIgnored = 1
  MaxTotal = 4
  DrainReads = 2
  MaxRequests = 2
  MaxSegments = 2
  MaxChunks = 2
  MaxFaults = 0
INVARIANT StaleReplyNeverRaises
CHECK_DEADLOCK FALSE
