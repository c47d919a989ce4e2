\* Another goroutine closes the stream between two calls of Next.
CONSTANTS
  reader = reader  other = other
  Reader = reader
  Closers = {reader, other}
  MaxEventBytes = 4
  MaxWrites = 2
  MaxInFlight = 3
SPECIFICATION Spec
INVARIANTS NilErrMeansCleanEnd
\* A call ends: once the reader is gone nothing is left to do.
CHECK_DEADLOCK FALSE
