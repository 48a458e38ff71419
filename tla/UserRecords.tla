----------------------------- MODULE UserRecords -----------------------------
(****************************************************************************)
(* The user record of backend/cloudhub.go and the arithmetic the            *)
(* organization facade (backend/organizations/users.go) does on its list of *)
(* roles.  A record keeps the roles of EVERY organization in one list; the  *)
(* list is kept here as a bag, the number of roles per organization, which  *)
(* is what AuthorizedUser counts.  Role names, passwords and e-mail are     *)
(* data no property tells apart and are left out.                           *)
(****************************************************************************)
EXTENDS Naturals

CONSTANTS Principals,   \* (name, provider, scheme) triples users log in with
          OrgIds,       \* organization ids
          Absent        \* what a bucket answers for a key it does not hold

Roles == [OrgIds -> Nat]

UserRecord == [name : Principals, superAdmin : BOOLEAN, roles : Roles]

\* One role in each organization of S, none elsewhere.
RolesIn(S) == [o \in OrgIds |-> IF o \in S THEN 1 ELSE 0]

\* append(u.Roles, Role{Organization: o}): nothing looks for an earlier role.
Grant(roles, o) == [roles EXCEPT ![o] = @ + 1]

\* Mutant: the given record is stored as it is.
MutMerge(stored, given, o) == given

\* The facade's union: the stored roles outside o, the given roles inside o.
Merge(stored, given, o) == [stored EXCEPT ![o] = given[o]]

\* The facade's strip: the stored roles that are not scoped to o.
Strip(stored, o) == [stored EXCEPT ![o] = 0]

\* "there should only ever be one for any particular organization".
OneRole(rec) == \A o \in OrgIds : rec.roles[o] <= 1
==============================================================================
