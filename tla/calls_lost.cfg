\* A caller gives up on a request the platform still handles.
SPECIFICATION Spec
CONSTANTS
  Rows = {"r1", "r2", "r3"}
  IdLists <- IdsOfTwo
  Predicates <- Overlaps
  Offered <- EachShape
  TenantIDs = {"a"}
  TenantCodes = {"b"}
  None = "none"
  Handles = {"d1", "d2"}
  Cursors = {"c1", "c2"}
  MaxCalls = 1
  MaxOps = 2
  MaxActs = 1
  MaxSize = 2
  Limits = {0, 1, 2}
INVARIANTS
  TransportMeansUndecided
CHECK_DEADLOCK FALSE
