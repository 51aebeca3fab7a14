SPECIFICATION Spec
CONSTANTS
  SeqCount = 4
  MaxFrames = 2
  MaxIgnored = 1
  MaxTotal = 3
  DrainReads = 2
  MaxRequests = 3
  MaxSegments = 2
  MaxChunks = 2
  MaxFaults = 1
INVARIANTS
  TypeOK
  ResponseIsOwn
  LateFramesAreHarmless
CHECK_DEADLOCK FALSE
