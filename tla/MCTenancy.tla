------------------------------ MODULE MCTenancy ------------------------------
(* Instances of Tenancy for TLC. *)
EXTENDS TenancyProperties, TLC

CONSTANTS p1, p2, r1, r2

Sym == Permutations(Requests)

MCOrgIds == 0 .. MaxOrgs

\* Every mapping applies to p1; only the default one (all wildcards) to others.
MCMatches == [m \in MappingIds |-> IF m = 0 THEN Principals ELSE {p1}]

UserOps == {"Me", "UpdateMe", "NewBasicUser", "NewUser", "OrganizationNewUser",
            "UpdateUser", "OrganizationUpdateUser", "RemoveUser",
            "OrganizationRemoveUser", "LockedUser"}
OrgOps == {"NewOrganization", "UpdateOrganization", "RemoveOrganization"}
OtherOps == {"PutMapping", "RemoveMapping", "NewResource", "RemoveResource",
             "CreateDevice", "RemoveDevice"}

\* Who belongs where: the users handlers, and transactions that fail.
MemberOps == UserOps \cup {"NewOrganization", "StoreError"}

\* The organizations handlers, and what a removal cascades through.
CascadeOps == OrgOps \cup OtherOps \cup {"Me", "UpdateMe", "ReplaceAuthConfig"}

\* Handlers racing over users: first logins, the membership of the creator
\* of an organization, deletions, and the server stopping under them.
RaceOps == {"Me", "NewOrganization", "RemoveUser", "Crash"}

\* The smallest sets of operations under which a claim breaks.
TwoRolesOps == {"Me", "UpdateMe", "NewOrganization"}
DemotionOps == {"Me", "UpdateUser"}
==============================================================================
