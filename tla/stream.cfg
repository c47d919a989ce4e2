\* A server that may keep the framing contract or break it in every way the reader
\* refuses, over a connection that may end or break.
CONSTANTS
  reader = reader  other = other
  Reader = reader
  Closers = {reader, other}
  MaxEventBytes = 4
  MaxWrites = 4
  MaxInFlight = 1
SPECIFICATION FairSpec
INVARIANTS TypeOK BlameIsRight VerdictIsComplete ReleasedOnce
PROPERTIES ImplementsDelivery CloseUnblocks EventuallyReleased
\* A call ends: once the reader is gone nothing is left to do.
CHECK_DEADLOCK FALSE
