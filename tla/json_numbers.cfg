\* Every document of three values.
SPECIFICATION FairSpec
CONSTANTS
  a = a
  b = b
  c = c
  Values = {a, b, c}
  Places = {a, b, c}
  Documents <- EveryDocument
INVARIANTS TypeOK AcceptedIsSafe RefusedForCause
PROPERTY Terminates
\* A walk ends.
CHECK_DEADLOCK FALSE
