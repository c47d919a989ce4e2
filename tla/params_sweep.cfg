\* Four keys over two platforms: the map doubles twice, entries expire and are
\* outdated by either platform.
CONSTANTS
  t1 = t1  t2 = t2  k1 = k1  k2 = k2  k3 = k3  k4 = k4  p1 = p1  p2 = p2
  Threads = {t1}
  Platforms = {p1, p2}
  Keys = {k1, k2, k3, k4}
  PlatformOf <- TwoPlatforms
  MaxAges = {1}
  DurationSpan = 4
  McpTraffic = TRUE
  MaxVersion = 1
  MaxClock = 2
SPECIFICATION Spec
INVARIANTS SizeBounded
SYMMETRY KeysOfP1
