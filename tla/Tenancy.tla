------------------------------- MODULE Tenancy -------------------------------
(****************************************************************************)
(* Multi-tenancy of the CloudHub server: the users, organizations and       *)
(* mappings buckets of the key-value store (backend/kv) and the HTTP        *)
(* handlers that change them (backend/server, backend/organizations).       *)
(*                                                                          *)
(* net/http runs every handler in a goroutine of its own: `req` holds one   *)
(* in-flight handler per slot, with its program counter and its local       *)
(* variables.  Each step of a handler is one transaction of the store       *)
(* (bolt serialises them), so everything between two transactions of a      *)
(* handler is open to the other handlers.                                   *)
(*                                                                          *)
(* Authentication is on: without it there are no users to speak of, and     *)
(* every request has the store to itself (server/auth.go:114).              *)
(****************************************************************************)
EXTENDS UserRecords, FiniteSets

CONSTANTS Requests,      \* slots for handlers in flight
          OrgNames,      \* names an organization may have
          DefaultName,   \* the name CreateDefault gives
          MappingIds,    \* keys of the mappings bucket (0 is the default one)
          Matches,       \* Matches[m]: principals applyMapping accepts for m
          AdminGroup,    \* principals whose auth0 group makes them super admin
          MaxUsers,      \* bound: ids the users bucket hands out
          MaxOrgs,       \* bound: ids the organizations bucket hands out
          NumKinds,      \* resource stores a removal cascades through
          Ops            \* the operations clients use, the faults that happen

DefaultOrg == 0
UserIds == 1 .. MaxUsers
Kinds == 1 .. NumKinds

ASSUME TenancyAssumption ==
    /\ MaxUsers \in Nat /\ MaxOrgs \in Nat /\ NumKinds \in Nat
    /\ OrgIds = 0 .. MaxOrgs
    /\ Absent \notin UserRecord /\ Absent \notin OrgNames
    /\ Absent \notin OrgIds /\ Absent \notin Principals
    /\ DefaultName \in OrgNames
    /\ MappingIds \subseteq Nat /\ 0 \in MappingIds
    /\ Matches \in [MappingIds -> SUBSET Principals]

VARIABLES users,      \* users bucket
          userSeq,    \* its sequence
          orgs,       \* organizations bucket: id -> name
          orgSeq,     \* its sequence
          mappings,   \* mappings bucket: id -> organization
          owned,      \* owned[k]: organizations with a resource in store k
          devices,    \* organizations with a registered network device
          superAdminNewUsers,  \* config.Auth.SuperAdminNewUsers
          req,        \* handlers in flight
          everSuper   \* history: ids that have ever been super admin

store == <<users, userSeq, orgs, orgSeq, mappings, owned, devices,
           superAdminNewUsers>>
vars == <<users, userSeq, orgs, orgSeq, mappings, owned, devices,
          superAdminNewUsers, req, everSuper>>

Operations ==
    {"none", "Cleanup", "Me", "UpdateMe", "NewBasicUser", "NewUser",
     "OrganizationNewUser", "UpdateUser", "OrganizationUpdateUser", "RemoveUser",
     "OrganizationRemoveUser", "LockedUser", "NewOrganization",
     "UpdateOrganization", "RemoveOrganization", "PutMapping", "RemoveMapping",
     "NewResource", "CreateDevice"}

\* Where a handler is: what it asks the store next.
Labels ==
    {"idle", "me.get", "me.first", "me.config", "me.mappings", "me.orgs",
     "um.org", "um.facade", "um.raw", "roles", "new.config", "uu.get", "ru.get",
     "ru.del", "lock.get", "fadd.get", "fget", "fupd.get", "fdel.get",
     "update.get", "update.put", "add.exists", "add.put", "no.unique", "no.put",
     "uo.get", "uo.kvget", "uo.unique", "uo.put", "ro.get", "ro.devices",
     "odel.get", "odel.put", "casc.res", "casc.resdel", "casc.users",
     "casc.maps", "map.org", "map.put", "mapdel.get", "mapdel.put", "res.put",
     "dev.org", "dev.put"}

Local == [op : Operations, pc : Labels,
          name : Principals \cup {Absent},  \* principal, or name of the request
          actor : UserIds \cup {0},         \* ctx user of AuthorizedUser
          actorSuper : BOOLEAN,
          uid : UserIds \cup {0}, org : OrgIds, mid : MappingIds,
          oname : OrgNames \cup {Absent},
          rec : UserRecord \cup {Absent},   \* record read or being built
          asked : SUBSET OrgIds,            \* organizations still to look up
          grants : SUBSET OrgIds,           \* roles validated or mapped so far
          super : BOOLEAN, kind : Nat,
          usersLeft : SUBSET UserIds, mapsLeft : SUBSET MappingIds]

Idle == [op |-> "none", pc |-> "idle", name |-> Absent, actor |-> 0,
         actorSuper |-> FALSE, uid |-> 0, org |-> DefaultOrg, mid |-> 0,
         oname |-> Absent, rec |-> Absent, asked |-> {}, grants |-> {},
         super |-> FALSE, kind |-> 0, usersLeft |-> {}, mapsLeft |-> {}]

StoreTypeOK ==
    /\ users \in [UserIds -> UserRecord \cup {Absent}]
    /\ userSeq \in 0 .. MaxUsers
    /\ orgs \in [OrgIds -> OrgNames \cup {Absent}]
    /\ orgSeq \in 0 .. MaxOrgs
    /\ mappings \in [MappingIds -> OrgIds \cup {Absent}]
    /\ owned \in [Kinds -> SUBSET OrgIds]
    /\ devices \in SUBSET OrgIds
    /\ superAdminNewUsers \in BOOLEAN
    /\ everSuper \in SUBSET UserIds

TypeOK == StoreTypeOK /\ req \in [Requests -> Local]

----------------------------------------------------------------------------
(* What the stores answer. *)

Present(u) == u \in UserIds /\ users[u] # Absent
Stored == {u \in UserIds : users[u] # Absent}

\* Get by (name, provider, scheme): the first match in key order, if any.
Named(p) == {u \in Stored : users[u].name = p}
ByName(p) == {u \in Named(p) : \A v \in Named(p) : u <= v}

OrgExists(o) == orgs[o] # Absent
NameIsUnique(n) == \A o \in OrgIds : orgs[o] # n

\* AuthorizedUser, with authentication on: the session's organization exists and
\* the user is super admin, or has exactly one role in it.  Role names are left out, so any role
\* opens every route that is not for super admins only.
AuthorizedUser(u, o) ==
    /\ OrgExists(o) /\ Present(u)
    /\ users[u].superAdmin \/ users[u].roles[o] = 1
SuperAdmins == {u \in Stored : users[u].superAdmin}

InFlight == {r \in Requests : req[r].pc # "idle"}

----------------------------------------------------------------------------
(* Steps of a handler. *)

At(r, label) == req[r].pc = label
Go(r, l) == req' = [req EXCEPT ![r] = l]
Goto(r, label) == Go(r, [req[r] EXCEPT !.pc = label])
Finish(r) == Go(r, Idle)
Reads == UNCHANGED <<store, everSuper>>

\* A transaction may fail, and the store answer an error for it.
CallsMayFail == "StoreError" \in Ops

\* A store call of the handler returned an error.  Every handler replies and
\* stops, except NewOrganization, which deletes the organization it made if
\* adding its creator fails.
OnError(l) ==
    IF l.op = "NewOrganization" /\ l.pc \in {"fadd.get", "add.exists",
                                 "add.put", "update.get", "update.put"}
    THEN [Idle EXCEPT !.op = "Cleanup", !.pc = "odel.get", !.org = l.org]
    ELSE Idle
Error(r) == Go(r, OnError(req[r]))

\* usersStore.Update of rec under id u, and usersStore.Add of rec: what the
\* handler still needs afterwards is carried along.
Update(l, u, rec) ==
    [Idle EXCEPT !.op = l.op, !.pc = "update.get", !.name = l.name,
                 !.org = l.org, !.uid = u, !.rec = rec, !.usersLeft = l.usersLeft]
Add(l, rec) ==
    [Idle EXCEPT !.op = l.op, !.pc = "add.exists", !.name = l.name,
                 !.org = l.org, !.rec = rec]

\* A client calls an operation: the slot takes the handler's locals.
Begin(r, l) ==
    /\ l.op \in Ops
    /\ At(r, "idle")
    /\ Go(r, l)
    /\ Reads

----------------------------------------------------------------------------
(* Requests. Routes behind EnsureSuperAdmin need some super admin's session;  *)
(* the handlers that look at who is asking keep the context user.             *)

BeginMe(r) == \E p \in Principals :
    Begin(r, [Idle EXCEPT !.op = "Me", !.pc = "me.get", !.name = p])

BeginUpdateMe(r) == \E p \in Principals, o \in OrgIds :
    Begin(r, [Idle EXCEPT !.op = "UpdateMe", !.pc = "um.org", !.name = p,
                          !.org = o])

BeginNewBasicUser(r) == \E p \in Principals, S \in SUBSET OrgIds, b \in BOOLEAN :
    /\ S # {}
    /\ Begin(r, [Idle EXCEPT !.op = "NewBasicUser", !.pc = "roles", !.name = p,
                             !.asked = S, !.super = b])

BeginNewUser(r) ==
    \E a \in SuperAdmins, p \in Principals, S \in SUBSET OrgIds, b \in BOOLEAN :
    Begin(r, [Idle EXCEPT !.op = "NewUser", !.pc = "new.config", !.name = p,
                          !.asked = S, !.super = b, !.actor = a,
                          !.actorSuper = TRUE])

BeginOrganizationNewUser(r) ==
    \E o \in OrgIds, p \in Principals, S \in SUBSET OrgIds, b \in BOOLEAN :
    \E a \in {v \in Stored : AuthorizedUser(v, o)} :
    Begin(r, [Idle EXCEPT !.op = "OrganizationNewUser", !.pc = "new.config",
                          !.name = p, !.asked = S, !.super = b, !.org = o,
                          !.actor = a, !.actorSuper = users[a].superAdmin])

BeginUpdateUser(r) ==
    \E u \in UserIds, o \in OrgIds, S \in SUBSET OrgIds, b \in BOOLEAN :
    \E a \in {v \in Stored : AuthorizedUser(v, o)} :
    Begin(r, [Idle EXCEPT !.op = "UpdateUser", !.pc = "uu.get", !.uid = u,
                          !.asked = S, !.super = b, !.actor = a,
                          !.actorSuper = users[a].superAdmin])

BeginOrganizationUpdateUser(r) ==
    \E u \in UserIds, o \in OrgIds, S \in SUBSET OrgIds, b \in BOOLEAN :
    \E a \in {v \in Stored : AuthorizedUser(v, o)} :
    Begin(r, [Idle EXCEPT !.op = "OrganizationUpdateUser", !.pc = "fget",
                          !.uid = u, !.asked = S, !.super = b, !.org = o,
                          !.actor = a, !.actorSuper = users[a].superAdmin])

BeginRemoveUser(r) == \E u \in UserIds :
    /\ SuperAdmins # {}
    /\ Begin(r, [Idle EXCEPT !.op = "RemoveUser", !.pc = "ru.get", !.uid = u])

BeginOrganizationRemoveUser(r) == \E u \in UserIds, o \in OrgIds :
    /\ \E a \in Stored : AuthorizedUser(a, o)
    /\ Begin(r, [Idle EXCEPT !.op = "OrganizationRemoveUser", !.pc = "fget",
                             !.uid = u, !.org = o])

\* LockedUser, and the same read-modify-write of UserPassword and Login.
BeginLockedUser(r) == \E p \in Principals :
    Begin(r, [Idle EXCEPT !.op = "LockedUser", !.pc = "lock.get", !.name = p])

BeginNewOrganization(r) == \E a \in SuperAdmins, n \in OrgNames :
    Begin(r, [Idle EXCEPT !.op = "NewOrganization", !.pc = "no.unique",
                          !.oname = n, !.rec = users[a],
                          !.name = users[a].name])

\* The request may leave the name out: oname is Absent.
BeginUpdateOrganization(r) == \E o \in OrgIds, n \in OrgNames \cup {Absent} :
    /\ SuperAdmins # {}
    /\ Begin(r, [Idle EXCEPT !.op = "UpdateOrganization", !.pc = "uo.get",
                             !.org = o, !.oname = n])

BeginRemoveOrganization(r) == \E o \in OrgIds :
    /\ SuperAdmins # {}
    /\ Begin(r, [Idle EXCEPT !.op = "RemoveOrganization", !.pc = "ro.get",
                             !.org = o])

\* NewMapping and UpdateMapping; the id a new mapping gets is left open.
BeginPutMapping(r) == \E m \in MappingIds, o \in OrgIds :
    /\ SuperAdmins # {}
    /\ Begin(r, [Idle EXCEPT !.op = "PutMapping", !.pc = "map.org", !.mid = m,
                             !.org = o])

BeginRemoveMapping(r) == \E m \in MappingIds :
    /\ SuperAdmins # {}
    /\ Begin(r, [Idle EXCEPT !.op = "RemoveMapping", !.pc = "mapdel.get",
                             !.mid = m])

\* Add of sources, servers or dashboards in the session's organization.
BeginNewResource(r) == \E k \in Kinds, o \in OrgIds :
    /\ \E a \in Stored : AuthorizedUser(a, o)
    /\ Begin(r, [Idle EXCEPT !.op = "NewResource", !.pc = "res.put",
                             !.kind = k, !.org = o])

BeginCreateDevice(r) == \E o \in OrgIds :
    /\ \E a \in Stored : users[a].superAdmin \/ AuthorizedUser(a, o)
    /\ Begin(r, [Idle EXCEPT !.op = "CreateDevice", !.pc = "dev.org",
                             !.org = o])

BeginRequest(r) ==
    \/ BeginMe(r) \/ BeginUpdateMe(r) \/ BeginNewBasicUser(r) \/ BeginNewUser(r)
    \/ BeginOrganizationNewUser(r) \/ BeginUpdateUser(r)
    \/ BeginOrganizationUpdateUser(r) \/ BeginRemoveUser(r)
    \/ BeginOrganizationRemoveUser(r) \/ BeginLockedUser(r)
    \/ BeginNewOrganization(r) \/ BeginUpdateOrganization(r)
    \/ BeginRemoveOrganization(r) \/ BeginPutMapping(r) \/ BeginRemoveMapping(r)
    \/ BeginNewResource(r) \/ BeginCreateDevice(r)

----------------------------------------------------------------------------
(* usersStore of backend/kv: Update and Add are a read and then a write. *)

UpdateGet(r) ==
    /\ At(r, "update.get")
    /\ \/ Present(req[r].uid) /\ Goto(r, "update.put")
       \/ ~Present(req[r].uid) /\ Error(r)
    /\ Reads

\* What a handler goes on with once its Update is stored.
AfterPut(l) ==
    CASE l.op = "UpdateMe" ->
            [Idle EXCEPT !.op = "Me", !.pc = "me.get", !.name = l.name]
      [] l.op \in {"RemoveOrganization", "Cleanup"} ->
            [l EXCEPT !.pc = "casc.users", !.uid = 0, !.rec = Absent]
      [] OTHER -> Idle

WasSuper(u, rec) == everSuper' = everSuper \cup {v \in {u} : rec.superAdmin}

\* Put writes the record under its id whether or not the id is still there.
UpdatePut(r) ==
    /\ At(r, "update.put")
    /\ users' = [users EXCEPT ![req[r].uid] = req[r].rec]
    /\ WasSuper(req[r].uid, req[r].rec)
    /\ Go(r, AfterPut(req[r]))
    /\ UNCHANGED <<userSeq, orgs, orgSeq, mappings, owned, devices,
                   superAdminNewUsers>>

\* Mutant: nobody asks whether the user exists.
MutAddExists(r) == At(r, "add.exists") /\ Goto(r, "add.put") /\ Reads

AddExists(r) ==
    /\ At(r, "add.exists")
    /\ \/ Named(req[r].name) = {} /\ Goto(r, "add.put")
       \/ Named(req[r].name) # {} /\ Error(r)
    /\ Reads

\* Mutant: the id is the first free one, not the bucket's next sequence number.
MutAddPut(r) ==
    /\ At(r, "add.put")
    /\ \E id \in UserIds \ Stored :
         /\ \A u \in UserIds \ Stored : id <= u
         /\ users' = [users EXCEPT ![id] = req[r].rec]
         /\ WasSuper(id, req[r].rec)
         /\ userSeq' = IF id > userSeq THEN id ELSE userSeq
    /\ Finish(r)
    /\ UNCHANGED <<orgs, orgSeq, mappings, owned, devices, superAdminNewUsers>>

\* (A store that holds MaxUsers, or MaxOrgs below, fails: the bound.)
AddPut(r) ==
    /\ At(r, "add.put")
    /\ \/ /\ userSeq < MaxUsers
          /\ userSeq' = userSeq + 1
          /\ users' = [users EXCEPT ![userSeq + 1] = req[r].rec]
          /\ WasSuper(userSeq + 1, req[r].rec)
          /\ Finish(r)
       \/ userSeq = MaxUsers /\ Error(r) /\ UNCHANGED <<users, userSeq, everSuper>>
    /\ UNCHANGED <<orgs, orgSeq, mappings, owned, devices, superAdminNewUsers>>

----------------------------------------------------------------------------
(* UsersStore of backend/organizations: the facade of one organization. *)

OnlyIn(rec, o) == \A x \in OrgIds : rec.roles[x] > 0 => x = o

FacadeAdd(r) ==
    LET l == req[r]
        o == l.org
        found == ByName(l.name)
    IN  /\ At(r, "fadd.get")
        /\ \/ OnlyIn(l.rec, o) /\ found = {} /\ Go(r, Add(l, l.rec))
           \/ \E u \in found :
                /\ OnlyIn(l.rec, o) /\ users[u].roles[o] = 0
                /\ Go(r, Update(l, u, [users[u] EXCEPT
                                        !.superAdmin = @ \/ l.rec.superAdmin,
                                        !.roles = Merge(@, l.rec.roles, o)]))
           \/ /\ ~OnlyIn(l.rec, o) \/ \E u \in found : users[u].roles[o] > 0
              /\ Error(r)
        /\ Reads

\* Get: the stored user with the roles of the organization, if it has any.
FacadeGet(r) ==
    LET l == req[r]
        found == Present(l.uid) /\ users[l.uid].roles[l.org] > 0
        own == [users[l.uid] EXCEPT
                  !.roles = [o \in OrgIds |-> IF o = l.org THEN @[o] ELSE 0]]
    IN  /\ At(r, "fget")
        /\ \/ /\ found /\ l.op = "OrganizationUpdateUser"
              /\ Go(r, [l EXCEPT !.pc = "roles", !.rec = own])
           \/ found /\ l.op = "OrganizationRemoveUser" /\ Goto(r, "fdel.get")
           \/ ~found /\ Error(r)
        /\ Reads

FacadeUpdate(r) ==
    LET l == req[r]
        legal == OnlyIn(l.rec, l.org) /\ Present(l.uid)
    IN  /\ At(r, "fupd.get")
        /\ \/ /\ legal
              /\ Go(r, Update(l, l.uid, [l.rec EXCEPT
                              !.roles = Merge(users[l.uid].roles, @, l.org)]))
           \/ ~legal /\ Error(r)
        /\ Reads

FacadeDelete(r) ==
    LET l == req[r]
    IN  /\ At(r, "fdel.get")
        /\ \/ /\ Present(l.uid)
              /\ Go(r, Update(l, l.uid,
                           [users[l.uid] EXCEPT !.roles = Strip(@, l.org)]))
           \/ ~Present(l.uid) /\ Error(r)
        /\ Reads

----------------------------------------------------------------------------
(* Me and UpdateMe (server/me.go), NewBasicUser's share of it. *)

UpdateMeOrg(r) ==
    /\ At(r, "um.org")
    /\ \/ OrgExists(req[r].org) /\ Goto(r, "um.facade")
       \/ ~OrgExists(req[r].org) /\ Error(r)
    /\ Reads

\* Is the user a member of the organization?
UpdateMeFacade(r) ==
    LET l == req[r]
        member == \E u \in ByName(l.name) : users[u].roles[l.org] > 0
    IN  /\ At(r, "um.facade")
        /\ \/ member /\ Go(r, AfterPut(l))
           \/ ~member /\ Goto(r, "um.raw")
        /\ Reads

\* A super admin who is not gets a role in it.
UpdateMeRaw(r) ==
    LET l == req[r]
        found == {u \in ByName(l.name) : users[u].superAdmin}
    IN  /\ At(r, "um.raw")
        /\ \/ \E u \in found :
                Go(r, Update(l, u, [users[u] EXCEPT !.roles = Grant(@, l.org)]))
           \/ found = {} /\ Error(r)
        /\ Reads

MeGet(r) ==
    LET l == req[r]
        promoted(u) == l.name \in AdminGroup /\ ~users[u].superAdmin
    IN  /\ At(r, "me.get")
        /\ \/ ByName(l.name) = {} /\ Goto(r, "me.first")
           \/ \E u \in ByName(l.name) :
                /\ promoted(u)
                /\ Go(r, Update(l, u, [users[u] EXCEPT !.superAdmin = TRUE]))
           \/ \E u \in ByName(l.name) : ~promoted(u) /\ Finish(r)
        /\ Reads

\* What follows newUsersAreSuperAdmin, which answered b.
AfterNewUsers(l, b) ==
    IF l.op = "Me" THEN [l EXCEPT !.pc = "me.mappings", !.super = b]
    ELSE Add(l, [name |-> l.name, superAdmin |-> b \/ l.super,
                 roles |-> RolesIn(l.grants)])

\* Mutant: the first user is nobody special.
MutFirstUser(r) == At(r, "me.first") /\ Goto(r, "me.config") /\ Reads

\* firstUser answers false when the count fails; the handler goes on.
FirstUser(r) ==
    /\ At(r, "me.first")
    /\ \/ Stored = {} /\ Go(r, AfterNewUsers(req[r], TRUE))
       \/ (Stored # {} \/ CallsMayFail) /\ Goto(r, "me.config")
    /\ Reads

NewUsersConfig(r) ==
    /\ At(r, "me.config")
    /\ \/ Go(r, AfterNewUsers(req[r], superAdminNewUsers))
       \/ CallsMayFail /\ Go(r, AfterNewUsers(req[r], FALSE))
    /\ Reads

\* mapPrincipalToRoles: the mappings that apply, then their organizations; one
\* that cannot be read is passed over.
MePrincipalMappings(r) ==
    LET apply == {m \in MappingIds : mappings[m] # Absent
                                     /\ req[r].name \in Matches[m]}
    IN  /\ At(r, "me.mappings")
        /\ Go(r, [req[r] EXCEPT !.pc = "me.orgs",
                                !.asked = {mappings[m] : m \in apply}])
        /\ Reads

MeOrganization(r) ==
    /\ At(r, "me.orgs")
    /\ \E o \in req[r].asked :
         \/ /\ OrgExists(o)
            /\ Go(r, [req[r] EXCEPT !.asked = @ \ {o}, !.grants = @ \cup {o}])
         \/ /\ ~OrgExists(o) \/ CallsMayFail
            /\ Go(r, [req[r] EXCEPT !.asked = @ \ {o}])
    /\ Reads

MeNewUser(r) ==
    LET l == req[r]
        admin == l.name \in AdminGroup
        roles == IF l.super \/ admin THEN l.grants \cup {DefaultOrg} ELSE l.grants
    IN  /\ At(r, "me.orgs") /\ l.asked = {}
        /\ \/ ~admin /\ l.grants = {} /\ Finish(r)
           \/ /\ admin \/ l.grants # {}
              /\ Go(r, Add(l, [name |-> l.name, superAdmin |-> l.super \/ admin,
                               roles |-> RolesIn(roles)]))
        /\ Reads

MeStep(r) ==
    \/ UpdateMeOrg(r) \/ UpdateMeFacade(r) \/ UpdateMeRaw(r) \/ MeGet(r)
    \/ FirstUser(r) \/ NewUsersConfig(r) \/ MePrincipalMappings(r)
    \/ MeOrganization(r) \/ MeNewUser(r)

----------------------------------------------------------------------------
(* The users handlers (server/users.go). *)

NewUserConfig(r) ==
    /\ At(r, "new.config")
    /\ Go(r, [req[r] EXCEPT !.pc = "roles", !.super = @ \/ superAdminNewUsers])
    /\ Reads

UpdateUserGet(r) ==
    LET l == req[r]
    IN  /\ At(r, "uu.get")
        /\ \/ Present(l.uid) /\ Go(r, [l EXCEPT !.pc = "roles", !.rec = users[l.uid]])
           \/ ~Present(l.uid) /\ Error(r)
        /\ Reads

HasRole(rec, o) == rec # Absent /\ rec.roles[o] > 0

\* validRoles, one organization of the request: a role in a missing
\* organization is dropped if the user has it, unless the request left its name
\* open (the wildcard), and an error otherwise.  A role the user has is kept
\* when the organization cannot be read.
ValidRole(r) ==
    LET l == req[r]
    IN  /\ At(r, "roles")
        /\ \E o \in l.asked :
             \/ /\ OrgExists(o) \/ (CallsMayFail /\ HasRole(l.rec, o))
                /\ Go(r, [l EXCEPT !.asked = @ \ {o}, !.grants = @ \cup {o}])
             \/ /\ ~OrgExists(o) /\ HasRole(l.rec, o)
                /\ Go(r, [l EXCEPT !.asked = @ \ {o}])
             \/ ~OrgExists(o) /\ Error(r)
        /\ Reads

\* setSuperAdmin, for a record that now says `current`.
MaySetSuperAdmin(l, current) == l.actorSuper \/ current = l.super

CreateFromRequest(r) ==
    LET l == req[r]
        rec == [name |-> l.name, superAdmin |-> l.super,
                roles |-> RolesIn(l.grants)]
    IN  /\ At(r, "roles") /\ l.asked = {}
        /\ \/ /\ l.op = "NewUser" /\ MaySetSuperAdmin(l, FALSE)
              /\ Go(r, Add(l, rec))
           \/ /\ l.op = "OrganizationNewUser" /\ MaySetSuperAdmin(l, FALSE)
              /\ Go(r, [Add(l, rec) EXCEPT !.pc = "fadd.get"])
           \/ /\ l.op \in {"NewUser", "OrganizationNewUser"}
              /\ ~MaySetSuperAdmin(l, FALSE) /\ Error(r)
        /\ Reads

\* Mutant: super admins may demote themselves.
MutMayEdit(l) == MaySetSuperAdmin(l, l.rec.superAdmin)

\* Nobody may take super admin from themselves.
MayEdit(l) ==
    /\ ~(l.actor = l.uid /\ l.rec.superAdmin /\ ~l.super)
    /\ MaySetSuperAdmin(l, l.rec.superAdmin)

\* Mutant: the record is made from the request, not from the stored one.
MutEditAsNew(r) ==
    LET l == req[r]
        rec == [name |-> l.name, superAdmin |-> l.super,
                roles |-> RolesIn(l.grants)]
    IN  /\ At(r, "roles") /\ l.asked = {}
        /\ l.op = "UpdateUser" /\ MayEdit(l) /\ Go(r, Update(l, l.uid, rec))
        /\ Reads

\* Mutant: the roles of the request are appended to those the user has.
MutEditAppends(r) ==
    LET l == req[r]
        roles == [o \in OrgIds |-> l.rec.roles[o] + RolesIn(l.grants)[o]]
        rec == [l.rec EXCEPT !.superAdmin = l.super, !.roles = roles]
    IN  /\ At(r, "roles") /\ l.asked = {}
        /\ l.op = "UpdateUser" /\ MayEdit(l) /\ Go(r, Update(l, l.uid, rec))
        /\ Reads

EditFromRequest(r) ==
    LET l == req[r]
        rec == [l.rec EXCEPT !.superAdmin = l.super, !.roles = RolesIn(l.grants)]
    IN  /\ At(r, "roles") /\ l.asked = {}
        /\ \/ l.op = "UpdateUser" /\ MayEdit(l) /\ Go(r, Update(l, l.uid, rec))
           \/ /\ l.op = "OrganizationUpdateUser" /\ MayEdit(l)
              /\ Go(r, [Update(l, l.uid, rec) EXCEPT !.pc = "fupd.get"])
           \/ /\ l.op \in {"UpdateUser", "OrganizationUpdateUser"}
              /\ ~MayEdit(l) /\ Error(r)
        /\ Reads

NewBasicUserGet(r) ==
    /\ At(r, "roles") /\ req[r].asked = {} /\ req[r].op = "NewBasicUser"
    /\ \/ Named(req[r].name) = {} /\ Goto(r, "me.first")
       \/ Named(req[r].name) # {} /\ Error(r)
    /\ Reads

RemoveUserGet(r) ==
    /\ At(r, "ru.get")
    /\ \/ Present(req[r].uid) /\ Goto(r, "ru.del")
       \/ ~Present(req[r].uid) /\ Error(r)
    /\ Reads

RemoveUserDelete(r) ==
    /\ At(r, "ru.del")
    /\ users' = [users EXCEPT ![req[r].uid] = Absent]
    /\ Finish(r)
    /\ UNCHANGED <<userSeq, orgs, orgSeq, mappings, owned, devices,
                   superAdminNewUsers, everSuper>>

LockedUserGet(r) ==
    LET l == req[r]
    IN  /\ At(r, "lock.get")
        /\ \/ \E u \in ByName(l.name) :
                Go(r, Update(l, u, users[u]))
           \/ ByName(l.name) = {} /\ Error(r)
        /\ Reads

UsersStep(r) ==
    \/ NewUserConfig(r) \/ UpdateUserGet(r) \/ ValidRole(r)
    \/ CreateFromRequest(r) \/ EditFromRequest(r) \/ NewBasicUserGet(r)
    \/ RemoveUserGet(r) \/ RemoveUserDelete(r) \/ LockedUserGet(r)
    \/ FacadeAdd(r) \/ FacadeGet(r) \/ FacadeUpdate(r) \/ FacadeDelete(r)
    \/ UpdateGet(r) \/ UpdatePut(r) \/ AddExists(r) \/ AddPut(r)

----------------------------------------------------------------------------
(* The organizations handlers (server/organizations.go, kv/organizations.go). *)

NewOrganizationUnique(r) ==
    /\ At(r, "no.unique")
    /\ \/ NameIsUnique(req[r].oname) /\ Goto(r, "no.put")
       \/ ~NameIsUnique(req[r].oname) /\ Error(r)
    /\ Reads

\* The context user, as AuthorizedUser read it, becomes admin of the new one.
NewOrganizationPut(r) ==
    LET l == req[r]
        id == orgSeq + 1
    IN  /\ At(r, "no.put")
        /\ \/ /\ orgSeq < MaxOrgs
              /\ orgSeq' = id
              /\ orgs' = [orgs EXCEPT ![id] = l.oname]
              /\ Go(r, [Add(l, [l.rec EXCEPT !.roles = RolesIn({id})])
                          EXCEPT !.pc = "fadd.get", !.org = id])
           \/ orgSeq = MaxOrgs /\ Error(r) /\ UNCHANGED <<orgs, orgSeq>>
        /\ UNCHANGED <<users, userSeq, mappings, owned, devices,
                       superAdminNewUsers, everSuper>>

\* Only what the request names is changed on the organization just read.
UpdateOrganizationGet(r) ==
    LET l == req[r]
    IN  /\ At(r, "uo.get")
        /\ \/ /\ OrgExists(l.org)
              /\ Go(r, [l EXCEPT !.pc = "uo.kvget",
                          !.oname = IF @ = Absent THEN orgs[l.org] ELSE @])
           \/ ~OrgExists(l.org) /\ Error(r)
        /\ Reads

UpdateOrganizationKvGet(r) ==
    LET l == req[r]
    IN  /\ At(r, "uo.kvget")
        /\ \/ /\ OrgExists(l.org) /\ l.oname = orgs[l.org]
              /\ Goto(r, "uo.put")
           \/ /\ OrgExists(l.org) /\ l.oname # orgs[l.org]
              /\ Goto(r, "uo.unique")
           \/ ~OrgExists(l.org) /\ Error(r)
        /\ Reads

UpdateOrganizationUnique(r) ==
    /\ At(r, "uo.unique")
    /\ \/ NameIsUnique(req[r].oname) /\ Goto(r, "uo.put")
       \/ ~NameIsUnique(req[r].oname) /\ Error(r)
    /\ Reads

UpdateOrganizationPut(r) ==
    /\ At(r, "uo.put")
    /\ orgs' = [orgs EXCEPT ![req[r].org] = req[r].oname]
    /\ Finish(r)
    /\ UNCHANGED <<users, userSeq, orgSeq, mappings, owned, devices,
                   superAdminNewUsers, everSuper>>

RemoveOrganizationGet(r) ==
    /\ At(r, "ro.get")
    /\ \/ OrgExists(req[r].org) /\ Goto(r, "ro.devices")
       \/ ~OrgExists(req[r].org) /\ Error(r)
    /\ Reads

\* Mutant: registered devices do not keep an organization.
MutRemoveOrganizationDevices(r) ==
    At(r, "ro.devices") /\ Goto(r, "odel.get") /\ Reads

\* 409 while the organization has registered devices.
RemoveOrganizationDevices(r) ==
    /\ At(r, "ro.devices")
    /\ \/ req[r].org \notin devices /\ Goto(r, "odel.get")
       \/ req[r].org \in devices /\ Error(r)
    /\ Reads

\* Mutant: the default organization is an organization like the others.
MutDeleteOrganizationGet(r) ==
    /\ At(r, "odel.get")
    /\ \/ OrgExists(req[r].org) /\ Goto(r, "odel.put")
       \/ ~OrgExists(req[r].org) /\ Error(r)
    /\ Reads

DeleteOrganizationGet(r) ==
    LET deletable == req[r].org # DefaultOrg /\ OrgExists(req[r].org)
    IN  /\ At(r, "odel.get")
        /\ \/ deletable /\ Goto(r, "odel.put")
           \/ ~deletable /\ Error(r)
        /\ Reads

DeleteOrganizationPut(r) ==
    /\ At(r, "odel.put")
    /\ orgs' = [orgs EXCEPT ![req[r].org] = Absent]
    /\ Go(r, [req[r] EXCEPT !.pc = "casc.res", !.kind = 1])
    /\ UNCHANGED <<users, userSeq, orgSeq, mappings, owned, devices,
                   superAdminNewUsers, everSuper>>

\* The cascade, store by store.  All() of one store ...
CascadeList(r) ==
    LET l == req[r]
    IN  /\ At(r, "casc.res") /\ l.kind \in Kinds
        /\ \/ l.org \in owned[l.kind] /\ Goto(r, "casc.resdel")
           \/ l.org \notin owned[l.kind] /\ Go(r, [l EXCEPT !.kind = @ + 1])
        /\ Reads

\* ... and Delete of what it listed, which fails when it is already gone.
CascadeDelete(r) ==
    LET l == req[r]
    IN  /\ At(r, "casc.resdel")
        /\ \/ /\ l.org \in owned[l.kind]
              /\ owned' = [owned EXCEPT ![l.kind] = @ \ {l.org}]
              /\ Go(r, [l EXCEPT !.pc = "casc.res", !.kind = @ + 1])
           \/ /\ l.org \notin owned[l.kind]
              /\ Error(r)
              /\ UNCHANGED owned
        /\ UNCHANGED <<users, userSeq, orgs, orgSeq, mappings, devices,
                       superAdminNewUsers, everSuper>>

CascadeListUsers(r) ==
    LET l == req[r]
    IN  /\ At(r, "casc.res") /\ l.kind \notin Kinds
        /\ Go(r, [l EXCEPT !.pc = "casc.users",
                     !.usersLeft = {u \in Stored : users[u].roles[l.org] > 0}])
        /\ Reads

CascadeUser(r) ==
    LET l == req[r]
    IN  /\ At(r, "casc.users")
        /\ \E u \in l.usersLeft :
             \/ /\ Present(u)
                /\ Go(r, Update([l EXCEPT !.usersLeft = @ \ {u}], u,
                             [users[u] EXCEPT !.roles = Strip(@, l.org)]))
             \/ ~Present(u) /\ Error(r)
        /\ Reads

CascadeListMappings(r) ==
    LET l == req[r]
    IN  /\ At(r, "casc.users") /\ l.usersLeft = {}
        /\ Go(r, [l EXCEPT !.pc = "casc.maps",
                     !.mapsLeft = {m \in MappingIds : mappings[m] = l.org}])
        /\ Reads

CascadeMapping(r) ==
    LET l == req[r]
    IN  /\ At(r, "casc.maps")
        /\ \/ l.mapsLeft = {} /\ Finish(r) /\ UNCHANGED mappings
           \/ \E m \in l.mapsLeft :
                /\ mappings[m] # Absent
                /\ mappings' = [mappings EXCEPT ![m] = Absent]
                /\ Go(r, [l EXCEPT !.mapsLeft = @ \ {m}])
           \/ \E m \in l.mapsLeft :
                /\ mappings[m] = Absent
                /\ Error(r)
                /\ UNCHANGED mappings
        /\ UNCHANGED <<users, userSeq, orgs, orgSeq, owned, devices,
                       superAdminNewUsers, everSuper>>

OrganizationsStep(r) ==
    \/ NewOrganizationUnique(r) \/ NewOrganizationPut(r)
    \/ UpdateOrganizationGet(r) \/ UpdateOrganizationKvGet(r)
    \/ UpdateOrganizationUnique(r) \/ UpdateOrganizationPut(r)
    \/ RemoveOrganizationGet(r) \/ RemoveOrganizationDevices(r)
    \/ DeleteOrganizationGet(r) \/ DeleteOrganizationPut(r)
    \/ CascadeList(r) \/ CascadeDelete(r) \/ CascadeListUsers(r)
    \/ CascadeUser(r) \/ CascadeListMappings(r) \/ CascadeMapping(r)

----------------------------------------------------------------------------
(* Mappings, resources, devices and the configuration. *)

PutMappingOrg(r) ==
    /\ At(r, "map.org")
    /\ \/ OrgExists(req[r].org) /\ Goto(r, "map.put")
       \/ ~OrgExists(req[r].org) /\ Error(r)
    /\ Reads

PutMappingPut(r) ==
    /\ At(r, "map.put")
    /\ mappings' = [mappings EXCEPT ![req[r].mid] = req[r].org]
    /\ Finish(r)
    /\ UNCHANGED <<users, userSeq, orgs, orgSeq, owned, devices,
                   superAdminNewUsers, everSuper>>

RemoveMappingGet(r) ==
    /\ At(r, "mapdel.get")
    /\ \/ mappings[req[r].mid] # Absent /\ Goto(r, "mapdel.put")
       \/ mappings[req[r].mid] = Absent /\ Error(r)
    /\ Reads

RemoveMappingDelete(r) ==
    /\ At(r, "mapdel.put")
    /\ mappings' = [mappings EXCEPT ![req[r].mid] = Absent]
    /\ Finish(r)
    /\ UNCHANGED <<users, userSeq, orgs, orgSeq, owned, devices,
                   superAdminNewUsers, everSuper>>

NewResourcePut(r) ==
    /\ At(r, "res.put")
    /\ owned' = [owned EXCEPT ![req[r].kind] = @ \cup {req[r].org}]
    /\ Finish(r)
    /\ UNCHANGED <<users, userSeq, orgs, orgSeq, mappings, devices,
                   superAdminNewUsers, everSuper>>

CreateDeviceOrg(r) ==
    /\ At(r, "dev.org")
    /\ \/ OrgExists(req[r].org) /\ Goto(r, "dev.put")
       \/ ~OrgExists(req[r].org) /\ Error(r)
    /\ Reads

CreateDevicePut(r) ==
    /\ At(r, "dev.put")
    /\ devices' = devices \cup {req[r].org}
    /\ Finish(r)
    /\ UNCHANGED <<users, userSeq, orgs, orgSeq, mappings, owned,
                   superAdminNewUsers, everSuper>>

OtherStep(r) ==
    \/ PutMappingOrg(r) \/ PutMappingPut(r) \/ RemoveMappingGet(r)
    \/ RemoveMappingDelete(r) \/ NewResourcePut(r) \/ CreateDeviceOrg(r)
    \/ CreateDevicePut(r)

\* A member deletes a resource of the organization.
RemoveResource(k, o) ==
    /\ "RemoveResource" \in Ops
    /\ o \in owned[k] /\ \E a \in Stored : AuthorizedUser(a, o)
    /\ owned' = [owned EXCEPT ![k] = @ \ {o}]
    /\ UNCHANGED <<users, userSeq, orgs, orgSeq, mappings, devices,
                   superAdminNewUsers, req, everSuper>>

\* The last device of an organization is deleted; RemoveDevices refuses the
\* device of an organization that does not exist.
RemoveDevice(o) ==
    /\ "RemoveDevice" \in Ops
    /\ o \in devices /\ OrgExists(o)
    /\ \E a \in Stored : users[a].superAdmin \/ AuthorizedUser(a, o)
    /\ devices' = devices \ {o}
    /\ UNCHANGED <<users, userSeq, orgs, orgSeq, mappings, owned,
                   superAdminNewUsers, req, everSuper>>

ReplaceAuthConfig(b) ==
    /\ "ReplaceAuthConfig" \in Ops
    /\ SuperAdmins # {}
    /\ superAdminNewUsers' = b
    /\ UNCHANGED <<users, userSeq, orgs, orgSeq, mappings, owned, devices,
                   req, everSuper>>

\* A transaction of the handler fails: not where the handler has none to make,
\* or takes the failure for an answer.
StoreError(r) ==
    /\ CallsMayFail
    /\ req[r].pc \notin {"idle", "me.first", "me.config", "me.orgs"}
    /\ ~(At(r, "roles") /\ req[r].asked = {} /\ req[r].op # "NewBasicUser")
    /\ ~(At(r, "casc.maps") /\ req[r].mapsLeft = {})
    /\ Error(r)
    /\ Reads

\* The server stops and starts again: handlers in flight are gone, the store
\* stays, CreateDefault finds the default organization.
Crash ==
    /\ "Crash" \in Ops
    /\ InFlight # {}
    /\ req' = [r \in Requests |-> Idle]
    /\ Reads

----------------------------------------------------------------------------
\* CreateDefault on an empty store; nobody has logged in.
Init ==
    /\ users = [u \in UserIds |-> Absent]
    /\ userSeq = 0
    /\ orgs = [o \in OrgIds |-> IF o = DefaultOrg THEN DefaultName ELSE Absent]
    /\ orgSeq = 0
    /\ mappings = [m \in MappingIds |-> IF m = 0 THEN DefaultOrg ELSE Absent]
    /\ owned = [k \in Kinds |-> {}]
    /\ devices = {}
    /\ superAdminNewUsers = FALSE
    /\ req = [r \in Requests |-> Idle]
    /\ everSuper = {}

\* One step of the handler in slot r.
Step(r) == MeStep(r) \/ UsersStep(r) \/ OrganizationsStep(r) \/ OtherStep(r)

Next ==
    \/ \E r \in Requests : BeginRequest(r) \/ Step(r) \/ StoreError(r)
    \/ \E k \in Kinds, o \in OrgIds : RemoveResource(k, o)
    \/ \E o \in OrgIds : RemoveDevice(o)
    \/ \E b \in BOOLEAN : ReplaceAuthConfig(b)
    \/ Crash

Spec == Init /\ [][Next]_vars
==============================================================================
