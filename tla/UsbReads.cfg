\* One read, two threads that cancel it, a deadline and a disconnect.
SPECIFICATION FairSpec
CONSTANTS
  Reader = reader
  Cancellers = {k1, k2}
  HasDeadline = TRUE
  MayDetach = TRUE
INVARIANTS
  NoCancelledUrbLeft
PROPERTIES
  ReadEnds
  ImplementsCancellableRead
  ReapedUnlessErrnoIsLate
