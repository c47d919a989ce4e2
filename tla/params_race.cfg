\* Two goroutines, one platform: reordered answers, lagging replicas, samples taken
\* before the mutex, late puts, and max ages beyond what a time.Duration holds.
CONSTANTS
  t1 = t1  t2 = t2  k1 = k1  k2 = k2  k3 = k3  k4 = k4  p1 = p1  p2 = p2
  Threads = {t1, t2}
  Platforms = {p1}
  Keys = {k1}
  PlatformOf <- OnePlatform
  MaxAges = {0, 1, 5, 11}
  DurationSpan = 4
  McpTraffic = FALSE
  MaxVersion = 2
  MaxClock = 2
SPECIFICATION Spec
INVARIANTS TypeOK
PROPERTIES HitIsCurrent HitIsYoung
SYMMETRY JustThreads
