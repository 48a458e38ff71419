SPECIFICATION Spec
CONSTANTS
  r1 = r1
  r2 = r2
  o1 = o1
  o2 = o2
  a1 = a1
  a2 = a2
  c1 = c1
  c2 = c2
  k1 = k1
  k2 = k2
  t1 = t1
  Absent = Absent
  Requests = {r1}
  Orgs = {o1, o2}
  IPs = {a1, a2}
  Collectors = {c1, c2}
  Kapas = {}
  Crons = {t1}
  MaxDevices = 2
  MaxAsked = 2
  MaxEntries = 1
  MaxFaults = 1
  GivenLists <- FilesLists
  GivenCollectors = {c1, c2}
  Ops <- FilesOps
CONSTRAINT RepairFirst
SYMMETRY Sym
INVARIANTS TypeOK FilesFollowLists
CHECK_DEADLOCK FALSE
