SPECIFICATION Spec
CONSTANTS
  r1 = r1
  r2 = r2
  o1 = o1
  o2 = o2
  a1 = a1
  a2 = a2
  c1 = c1
  c2 = c2
  k1 = k1
  k2 = k2
  t1 = t1
  Absent = Absent
  Requests = {r1, r2}
  Orgs = {o1}
  IPs = {a1}
  Collectors = {c1}
  Kapas = {k1, k2}
  Crons = {t1}
  MaxDevices = 1
  MaxAsked = 1
  MaxEntries = 1
  MaxFaults = 1
  GivenLists = {}
  GivenCollectors = {}
  Ops <- TasksOps
SYMMETRY Sym
INVARIANT TasksFollowOrgs
PROPERTY RemovedStaysRemoved
CHECK_DEADLOCK FALSE
