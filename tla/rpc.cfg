\* Every host configuration against every token for two methods, v registered both
\* as a handler and as a verifier; and, in the production configuration, two requests
\* in progress when the signal comes, with every way a handler or verifier can end.
SPECIFICATION LoadSpec
CONSTANTS
  m = m
  v = v
  s1 = s1
  s2 = s2
  Methods = {m, v}
  Handlers = {m, v}
  Verifiers = {v}
  Slots = {s1, s2}
  Configs <- EveryConfig
  Requests <- EveryLoad
  DurationSpan = 4
INVARIANT TypeOK
INVARIANT AuthorityProven
INVARIANT VerifierPowerless
INVARIANT FaultIsNoVerdict
INVARIANT BoundWithinHeader
PROPERTY NoneDropped
PROPERTY ShutdownEnds
\* The process exits, so it may stop.
CHECK_DEADLOCK FALSE
