SPECIFICATION Spec
CONSTANTS
  r1 = r1
  r2 = r2
  o1 = o1
  o2 = o2
  Absent = Absent
  Requests = {r1, r2}
  Orgs = {o1, o2}
  MaxSources = 2
  MaxServers = 2
  Ops <- AllOps
CONSTRAINT Few
SYMMETRY Sym
INVARIANTS TypeOK OneActiveAlone NoOrphanAlone AtMostOneDefault
PROPERTIES OrgIsolation RemovalKeepsDefault
CHECK_DEADLOCK FALSE
