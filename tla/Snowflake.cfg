SPECIFICATION Spec
CONSTANTS
  g1 = g1
  g2 = g2
  g3 = g3
  p1 = p1
  p2 = p2
  Servers = {p1, p2}
  Goroutines = {g1, g2, g3}
  ServerOf <- MCServerOf
  Machine <- MCMachine
  Machines = 4
  Seqs = 2
  Or <- MCOr
  Attempts = 2
  MaxTime = 2
  MaxCalls = 3
INVARIANTS TypeOK Ascending Unique
CHECK_DEADLOCK FALSE
