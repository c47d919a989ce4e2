\* The same process also receives responses on the MCP transport.
CONSTANTS
  t1 = t1  t2 = t2  k1 = k1  k2 = k2  k3 = k3  k4 = k4  p1 = p1  p2 = p2
  Threads = {t1}
  Platforms = {p1}
  Keys = {k1}
  PlatformOf <- OnePlatform
  MaxAges = {1}
  DurationSpan = 4
  McpTraffic = TRUE
  MaxVersion = 2
  MaxClock = 0
SPECIFICATION Spec
PROPERTIES HitIsCurrent
