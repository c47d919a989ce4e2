\* Every kind of call, over a network that loses and a proxy that answers.
\* The program stops after MaxActs actions.
SPECIFICATION Spec
CONSTANTS
  Rows = {"r1", "r2", "r3"}
  IdLists <- IdsOfTwo
  Predicates <- Overlaps
  Offered <- EachShape
  TenantIDs = {"a"}
  TenantCodes = {"b"}
  None = "none"
  Handles = {"d1", "d2"}
  Cursors = {"c1", "c2"}
  MaxCalls = 1
  MaxOps = 2
  MaxActs = 5
  MaxSize = 2
  Limits = {0, 1, 2}
INVARIANTS
  TypeOK
  LastSelectionWins
  OutcomeIsTrue
  WritesWhatWasNamed
  FileVerdictFits
PROPERTIES
  ListingEnds
CHECK_DEADLOCK FALSE
