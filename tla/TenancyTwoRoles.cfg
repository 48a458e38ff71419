SPECIFICATION Spec
CONSTANTS
  p1 = p1
  p2 = p2
  r1 = r1
  r2 = r2
  Absent = Absent
  Principals = {p1, p2}
  OrgIds <- MCOrgIds
  OrgNames = {n1, n2}
  DefaultName = n1
  Requests = {r1, r2}
  MappingIds = {0, 1}
  Matches <- MCMatches
  AdminGroup = {p2}
  MaxUsers = 2
  MaxOrgs = 1
  NumKinds = 0
  Ops <- TwoRolesOps
CHECK_DEADLOCK FALSE
INVARIANT OneRolePerOrg
