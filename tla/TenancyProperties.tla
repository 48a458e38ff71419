-------------------------- MODULE TenancyProperties --------------------------
(****************************************************************************)
(* What the tenancy handlers promise.  The first group holds for every      *)
(* interleaving; the second when handlers run one at a time (Requests has   *)
(* one element), which is how the repository's tests run them; the third is *)
(* what comments in the source claim and interleaved handlers break.        *)
(****************************************************************************)
EXTENDS Tenancy

Quiet == InFlight = {}

----------------------------------------------------------------------------
(* Any interleaving. *)

\* AuthorizedUser locks out a user with two roles in one organization
\* (server/auth.go:196-201).  However handlers race, that never happens to a
\* user who was never super admin: only UpdateMe appends without looking.
RegularOneRole ==
    \A u \in Stored \ everSuper : OneRole(users[u])

\* The first user of an installation is a super admin (me.go newUsersAreSuperAdmin),
\* even when several first logins race: nobody else could make one.
FirstUserIsSuperAdmin == userSeq > 0 => 1 \in everSuper

\* Records are found by id: a stale Update, even one that brings a deleted
\* user back, never puts one principal's record under another one's id.
IdKeepsPrincipal ==
    [][\A u \in UserIds : users[u] # Absent /\ users'[u] # Absent =>
         users'[u].name = users[u].name]_vars

----------------------------------------------------------------------------
(* One handler at a time. *)

\* The stores are the directory they promise to be: the buckets and their
\* sequences are its state, the locals of the handlers are hidden.
D == INSTANCE Directory WITH users <- users, userSeq <- userSeq,
                             orgs <- orgs, orgSeq <- orgSeq,
                             UserIds <- UserIds, DefaultOrg <- DefaultOrg
DirectorySpec == D!DirSpec

\* Nothing refers to an organization that does not exist, once the handler
\* that deleted it is done: not a role, a mapping, a resource or a device.
References(o) ==
    \/ \E u \in Stored : users[u].roles[o] > 0
    \/ \E m \in MappingIds : mappings[m] = o
    \/ \E k \in Kinds : o \in owned[k]
    \/ o \in devices
NoDangling == Quiet => \A o \in OrgIds : References(o) => OrgExists(o)

\* "Each CRUD method here takes care to ensure that the only roles that are
\* modified are the roles for the organization that was provided"
\* (organizations/users.go:18-20): what a facade writes is what is stored,
\* outside its organization.
FacadeOps == {"OrganizationNewUser", "OrganizationUpdateUser",
              "OrganizationRemoveUser", "NewOrganization",
              "RemoveOrganization", "Cleanup"}
FacadeIsolation ==
    [][\A r \in Requests :
         At(r, "update.put") /\ req'[r] # req[r] /\ users' # users
           /\ req[r].op \in FacadeOps =>
         \A o \in OrgIds \ {req[r].org} :
           Present(req[r].uid) =>
             users'[req[r].uid].roles[o] = users[req[r].uid].roles[o]]_vars

\* "Don't allow SuperAdmins to modify their own SuperAdmin status. Allowing
\* them to do so could result in an application where there are no super
\* admins" (server/users.go:623-625): only RemoveUser takes the last one.
LastSuperAdminStays ==
    [][SuperAdmins # {} /\ SuperAdmins' = {} =>
         \E r \in Requests : At(r, "ru.del")]_vars

----------------------------------------------------------------------------
(* Claimed by the source, broken by interleaved handlers. *)

\* "use the first role, since there should only ever be one for any particular
\* organization" (server/auth.go:203-204).
OneRolePerOrg == \A u \in Stored : OneRole(users[u])
==============================================================================
