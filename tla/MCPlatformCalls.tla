---------------------------- MODULE MCPlatformCalls ----------------------------
EXTENDS PlatformCalls

\* Two rows named by ids, one of them met by each predicate, and a third by one alone.
IdsOfTwo  == {{}, {"r1", "r2"}}
Overlaps  == {{"r1", "r2"}, {"r2", "r3"}}
TwoOfThem == {"r2", "r3"}

\* One write of each shape that the wire or the platform treats differently.
EachShape == LET ids == {"r1", "r2"} IN
  {Unaddressed("create"), Restore({}),
   Update(ids, {TwoOfThem}, TRUE), Update(ids, {TwoOfThem}, FALSE), Update(ids, {}, FALSE),
   Delete({}, <<>>), Delete(ids, <<{TwoOfThem}>>),
   Delete({}, <<{ids}, {TwoOfThem}>>)}
=============================================================================
