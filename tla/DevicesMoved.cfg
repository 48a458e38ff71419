SPECIFICATION Spec
CONSTANTS
  r1 = r1
  r2 = r2
  o1 = o1
  o2 = o2
  a1 = a1
  a2 = a2
  c1 = c1
  c2 = c2
  k1 = k1
  k2 = k2
  t1 = t1
  Absent = Absent
  Requests = {r1}
  Orgs = {o1, o2}
  IPs = {a1}
  Collectors = {c1}
  Kapas = {k1}
  Crons = {t1}
  MaxDevices = 3
  MaxAsked = 3
  MaxEntries = 3
  MaxFaults = 0
  GivenLists = {}
  GivenCollectors = {}
  Ops <- MovedOps
SYMMETRY Sym
INVARIANT CollectedOnce
CHECK_DEADLOCK FALSE
