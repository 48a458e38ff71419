SPECIFICATION FairSpec
CONSTANTS
  r1 = r1
  r2 = r2
  r3 = r3
  Requests = {r1, r2}
  MaxSources = 3
  MaxRev = 3
  Ops <- AllOps
  Flags = {TRUE, FALSE}
INVARIANT TypeOK
PROPERTIES DefaultLeaves UpdateOfRemovedFails CallsEnd
CHECK_DEADLOCK FALSE
