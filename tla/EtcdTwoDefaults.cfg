SPECIFICATION Spec
CONSTANTS
  r1 = r1
  r2 = r2
  r3 = r3
  Requests = {r1, r2}
  MaxSources = 3
  MaxRev = 3
  Ops <- AllOps
  Flags = {TRUE}
CHECK_DEADLOCK FALSE
INVARIANT AtMostOneDefault
