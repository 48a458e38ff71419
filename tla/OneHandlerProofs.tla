-------------------------- MODULE OneHandlerProofs --------------------------
(****************************************************************************)
(* Proofs about Tenancy with one handler at a time: the stores are the      *)
(* Directory, a facade keeps to its organization, the last super admin      *)
(* stays and a removal leaves nothing behind; for every number of users,    *)
(* organizations, mappings and resource stores.                             *)
(****************************************************************************)
EXTENDS NamesProofs

\* The handlers run one at a time.
OneHandler == \A q, r \in Requests : q = r

\* What a handler is going to put for a user is a record the directory lets
\* that user get, and takes the last super admin from nobody.
Replaces(l) ==
    /\ Present(l.uid) /\ l.rec.name = users[l.uid].name /\ OneRole(l.rec)
    /\ \A o \in OrgIds : l.rec.roles[o] > users[l.uid].roles[o] => OrgExists(o)
    /\ users[l.uid].superAdmin /\ ~l.rec.superAdmin =>
         \E v \in SuperAdmins : v # l.uid

\* The request of an edit, and the record it is about as it is stored.
Edits(l) ==
    /\ Present(l.uid) /\ l.rec.name = users[l.uid].name
    /\ l.rec.superAdmin = users[l.uid].superAdmin
    /\ \A o \in OrgIds : l.rec.roles[o] <= users[l.uid].roles[o]
    /\ \A o \in l.grants : OrgExists(o) \/ l.rec.roles[o] > 0

Asks(l) == l.actorSuper => l.actor \in SuperAdmins

MayCreate(l) ==
    l.rec.name = l.name /\ \A o \in OrgIds : l.rec.roles[o] > 0 => OrgExists(o)

\* What the only handler in flight knows of the users and organizations: what
\* it has read is what is stored.
Knows(l) ==
    /\ l.pc \in {"um.org", "um.facade", "um.raw"} => l.op = "UpdateMe"
    /\ l.pc \in {"um.facade", "um.raw"} => OrgExists(l.org)
    /\ l.pc = "um.raw" => \A u \in ByName(l.name) : users[u].roles[l.org] = 0
    /\ l.pc = "me.get" => l.op = "Me" /\ l.grants = {}
    /\ l.pc \in {"me.first", "me.config", "me.mappings", "me.orgs"} =>
         \A o \in l.grants : OrgExists(o)
    /\ l.pc = "lock.get" => l.op = "LockedUser"
    /\ l.pc \in {"new.config", "uu.get", "fget"} => l.grants = {} /\ l.rec = Absent
    /\ l.pc = "uu.get" => l.op = "UpdateUser"
    /\ l.pc \in {"uu.get", "fget"} => Asks(l)
    /\ l.pc = "roles" /\ l.op \notin EditOps =>
         l.rec = Absent /\ \A o \in l.grants : OrgExists(o)
    /\ l.pc = "roles" /\ l.op \in EditOps => Edits(l) /\ Asks(l)
    /\ l.pc = "fupd.get" => Replaces(l) /\ l.op = "OrganizationUpdateUser"
    /\ l.pc = "fdel.get" => l.op = "OrganizationRemoveUser"
    /\ l.pc \in {"update.get", "update.put"} =>
         /\ Replaces(l)
         /\ l.op \in FacadeOps => \A o \in OrgIds \ {l.org} :
                                    l.rec.roles[o] = users[l.uid].roles[o]
    /\ l.pc = "fadd.get" => l.op \in {"OrganizationNewUser", "NewOrganization"}
    /\ l.pc \in {"fadd.get", "add.exists", "add.put"} => MayCreate(l)
    /\ l.pc = "add.put" => Named(l.name) = {}
    /\ l.pc \in {"no.unique", "no.put"} =>
         l.op = "NewOrganization" /\ l.rec.name = l.name
    /\ l.pc = "no.put" => NameIsUnique(l.oname)
    /\ l.pc \in {"uo.unique", "uo.put"} => OrgExists(l.org)
    /\ l.pc = "uo.put" => l.oname = orgs[l.org] \/ NameIsUnique(l.oname)
    /\ l.pc = "ru.del" => Present(l.uid)
    /\ l.pc = "odel.put" => OrgExists(l.org)

\* DirectorySpec, FacadeIsolation and LastSuperAdminStays as an invariant.
AloneInv ==
    /\ \A u \in Stored : OneRole(users[u])
    /\ \A r \in Requests : Knows(req[r])

----------------------------------------------------------------------------
(* The locals a handler goes on with. *)

\* Knows is about the users and organizations that are stored.
LEMMA KnowsStays ==
  ASSUME NEW m, Knows(m), UNCHANGED <<users, orgs>>
  PROVE  Knows(m)'
  <1>1. /\ \A o : OrgExists(o)' <=> OrgExists(o)
        /\ \A u : Present(u)' <=> Present(u)
        /\ \A p : ByName(p)' = ByName(p) /\ Named(p)' = Named(p)
        /\ \A n : NameIsUnique(n)' <=> NameIsUnique(n)
        /\ SuperAdmins' = SuperAdmins
    BY DEF OrgExists, Present, ByName, Named, Stored, NameIsUnique, SuperAdmins
  <1>2. Replaces(m)' <=> Replaces(m)
    BY <1>1 DEF Replaces
  <1>3. Edits(m)' <=> Edits(m)
    BY <1>1 DEF Edits
  <1>4. (Asks(m)' <=> Asks(m)) /\ (MayCreate(m)' <=> MayCreate(m))
    BY <1>1 DEF Asks, MayCreate
  <1> QED BY <1>1, <1>2, <1>3, <1>4 DEF Knows

LEMMA KnowStep ==
  ASSUME OneHandler, IInv, NEW r \in Requests, NEW m, Go(r, m), Knows(m)',
         \A u \in Stored' : OneRole(users'[u])
  PROVE  AloneInv'
  <1>1. \A q \in Requests : req'[q] = m
    BY DEF Go, OneHandler, IInv, TypeOK
  <1> QED BY <1>1 DEF AloneInv

LEMMA Reading ==
  ASSUME OneHandler, IInv, AloneInv, NEW r \in Requests, NEW m, Go(r, m), Knows(m),
         UNCHANGED <<users, orgs>>
  PROVE  AloneInv'
  <1>1. Knows(m)'
    BY KnowsStays
  <1>2. \A u \in Stored' : OneRole(users'[u])
    BY DEF AloneInv, Stored
  <1> QED BY <1>1, <1>2, KnowStep

LEMMA KnowsOfHandler ==
  ASSUME AloneInv, IInv, NEW r \in Requests
  PROVE  req[r] \in Local /\ Sane(req[r], everSuper) /\ Knows(req[r])
  BY LocalFacts DEF AloneInv

\* The labels at which Knows asks nothing.
OpenLabels == {"idle", "ru.get", "uo.get", "uo.kvget", "ro.get", "ro.devices",
               "odel.get", "casc.res", "casc.resdel", "casc.users", "casc.maps",
               "map.org", "map.put", "mapdel.get", "mapdel.put", "res.put",
               "dev.org", "dev.put"}

LEMMA KnowsOpen ==
  ASSUME NEW m, m.pc \in OpenLabels
  PROVE  Knows(m)
  BY DEF Knows, OpenLabels

LEMMA IdleOpen == Idle.pc \in OpenLabels /\ \A l : OnError(l).pc \in OpenLabels
  <1>1. Idle.pc \in OpenLabels
    BY DEF Idle, OpenLabels
  <1>2. \A o : [Idle EXCEPT !.op = "Cleanup", !.pc = "odel.get", !.org = o].pc
                 \in OpenLabels
    BY DEF Idle, OpenLabels
  <1> QED BY <1>1, <1>2 DEF OnError

LEMMA StopKnows ==
  ASSUME OneHandler, IInv, AloneInv, NEW r \in Requests, Error(r) \/ Finish(r),
         UNCHANGED <<users, orgs>>
  PROVE  AloneInv'
  BY IdleOpen, KnowsOpen, Reading DEF Error, Finish

LEMMA GotoOpen ==
  ASSUME OneHandler, IInv, AloneInv, NEW r \in Requests, NEW label \in OpenLabels,
         Goto(r, label), UNCHANGED <<users, orgs>>
  PROVE  AloneInv'
  <1> DEFINE m == [req[r] EXCEPT !.pc = label]
  <1>1. m.pc = label
    BY LocalFacts DEF Local
  <1> QED BY <1>1, KnowsOpen, Reading DEF Goto

LEMMA UpdateIs ==
  ASSUME NEW l, NEW u, NEW rec
  PROVE  LET m == Update(l, u, rec)
         IN  /\ m.pc = "update.get" /\ m.op = l.op /\ m.name = l.name
             /\ m.org = l.org /\ m.uid = u /\ m.rec = rec
             /\ m.usersLeft = l.usersLeft
  BY DEF Update, Idle

LEMMA AddIs ==
  ASSUME NEW l, NEW rec
  PROVE  LET m == Add(l, rec)
         IN  /\ m.pc = "add.exists" /\ m.op = l.op /\ m.name = l.name
             /\ m.org = l.org /\ m.rec = rec
  BY DEF Add, Idle

\* The Update of a record the directory allows.
LEMMA UpdateKnows ==
  ASSUME OneHandler, IInv, AloneInv, NEW r \in Requests, NEW l, NEW u \in Stored,
         NEW rec, Go(r, Update(l, u, rec)), UNCHANGED <<users, orgs>>,
         rec.name = users[u].name, OneRole(rec),
         \A o \in OrgIds : rec.roles[o] > users[u].roles[o] => OrgExists(o),
         users[u].superAdmin /\ ~rec.superAdmin => \E v \in SuperAdmins : v # u,
         l.op \in FacadeOps =>
           \A o \in OrgIds \ {l.org} : rec.roles[o] = users[u].roles[o]
  PROVE  AloneInv'
  <1> DEFINE m == Update(l, u, rec)
  <1>1. m.pc = "update.get" /\ m.op = l.op /\ m.org = l.org /\ m.uid = u
        /\ m.rec = rec
    BY UpdateIs
  <1> HIDE DEF m
  <1>2. Present(m.uid)
    BY <1>1 DEF Present, Stored
  <1>3. Replaces(m)
    BY <1>1, <1>2 DEF Replaces
  <1>4. Knows(m)
    BY <1>1, <1>3 DEF Knows
  <1> QED BY <1>4, Reading DEF m

\* The Add of a record with roles in organizations that exist.
LEMMA AddKnows ==
  ASSUME OneHandler, IInv, AloneInv, NEW r \in Requests, NEW l, NEW rec,
         Go(r, Add(l, rec)), UNCHANGED <<users, orgs>>, rec.name = l.name,
         \A o \in OrgIds : rec.roles[o] > 0 => OrgExists(o)
  PROVE  AloneInv'
  <1> DEFINE m == Add(l, rec)
  <1>1. m.pc = "add.exists" /\ m.name = l.name /\ m.rec = rec
    BY AddIs
  <1> HIDE DEF m
  <1>2. MayCreate(m)
    BY <1>1 DEF MayCreate
  <1>3. Knows(m)
    BY <1>1, <1>2 DEF Knows
  <1> QED BY <1>3, Reading DEF m

----------------------------------------------------------------------------
(* Requests. *)

\* Who is asking is stored as the request says.
LEMMA BeginKnows ==
  ASSUME OneHandler, IInv, AloneInv, NEW r \in Requests, BeginRequest(r)
  PROVE  AloneInv'
  <1>a. ASSUME NEW m, Begin(r, m), Knows(m)
        PROVE  AloneInv'
    BY <1>a, Reading DEF Begin, Reads, store
  <1>b. ASSUME NEW m, Begin(r, m), m.pc \in OpenLabels
        PROVE  AloneInv'
    BY <1>a, <1>b, KnowsOpen
  <1>c. \A a \in Stored : users[a].superAdmin => a \in SuperAdmins
    BY DEF SuperAdmins
  <1>1. CASE BeginMe(r)
    <2>1. ASSUME NEW m, Begin(r, m), m.op = "Me", m.pc = "me.get", m.grants = {}
          PROVE  AloneInv'
      BY <1>a, <2>1 DEF Knows
    <2> QED BY <1>1, <2>1 DEF BeginMe, Idle
  <1>2. CASE BeginUpdateMe(r)
    <2>1. ASSUME NEW m, Begin(r, m), m.op = "UpdateMe", m.pc = "um.org"
          PROVE  AloneInv'
      BY <1>a, <2>1 DEF Knows
    <2> QED BY <1>2, <2>1 DEF BeginUpdateMe, Idle
  <1>3. CASE BeginNewBasicUser(r)
    <2>1. ASSUME NEW m, Begin(r, m), m.op = "NewBasicUser", m.pc = "roles",
                 m.grants = {}, m.rec = Absent
          PROVE  AloneInv'
      BY <1>a, <2>1 DEF Knows, EditOps
    <2> QED BY <1>3, <2>1 DEF BeginNewBasicUser, Idle
  <1>4. ASSUME NEW m, Begin(r, m), m.pc = "new.config", m.grants = {},
               m.rec = Absent
        PROVE  AloneInv'
    BY <1>a, <1>4 DEF Knows
  <1>5. CASE BeginNewUser(r)
    BY <1>4, <1>5 DEF BeginNewUser, Idle
  <1>6. CASE BeginOrganizationNewUser(r)
    BY <1>4, <1>6 DEF BeginOrganizationNewUser, Idle
  <1>7. ASSUME NEW m, NEW a \in Stored, Begin(r, m), m.pc \in {"uu.get", "fget"},
               m.pc = "uu.get" => m.op = "UpdateUser",
               m.grants = {}, m.rec = Absent, m.actor = a,
               m.actorSuper = users[a].superAdmin
        PROVE  AloneInv'
    <2>1. Asks(m)
      BY <1>7, <1>c DEF Asks
    <2> QED BY <1>a, <1>7, <2>1 DEF Knows
  <1>8. CASE BeginUpdateUser(r)
    BY ZenonT(60), <1>7, <1>8 DEF BeginUpdateUser, Idle
  <1>9. CASE BeginOrganizationUpdateUser(r)
    BY ZenonT(60), <1>7, <1>9 DEF BeginOrganizationUpdateUser, Idle
  <1>10. CASE BeginOrganizationRemoveUser(r)
    <2>1. ASSUME NEW m, Begin(r, m), m.pc = "fget", m.grants = {}, m.rec = Absent,
                 m.actorSuper = FALSE
          PROVE  AloneInv'
      BY <1>a, <2>1 DEF Knows, Asks
    <2> QED BY <1>10, <2>1 DEF BeginOrganizationRemoveUser, Idle
  <1>11. CASE BeginLockedUser(r)
    <2>1. ASSUME NEW m, Begin(r, m), m.op = "LockedUser", m.pc = "lock.get"
          PROVE  AloneInv'
      BY <1>a, <2>1 DEF Knows
    <2> QED BY <1>11, <2>1 DEF BeginLockedUser, Idle
  <1>12. CASE BeginNewOrganization(r)
    <2>1. ASSUME NEW m, Begin(r, m), m.op = "NewOrganization", m.pc = "no.unique",
                 m.rec.name = m.name
          PROVE  AloneInv'
      BY <1>a, <2>1 DEF Knows
    <2> QED BY <1>12, <2>1 DEF BeginNewOrganization, Idle
  <1>13. CASE BeginRemoveUser(r)
    BY <1>13, <1>b DEF BeginRemoveUser, Idle, OpenLabels
  <1>14. CASE BeginUpdateOrganization(r)
    BY <1>14, <1>b DEF BeginUpdateOrganization, Idle, OpenLabels
  <1>15. CASE BeginRemoveOrganization(r)
    BY <1>15, <1>b DEF BeginRemoveOrganization, Idle, OpenLabels
  <1>16. CASE BeginPutMapping(r)
    BY <1>16, <1>b DEF BeginPutMapping, Idle, OpenLabels
  <1>17. CASE BeginRemoveMapping(r)
    BY <1>17, <1>b DEF BeginRemoveMapping, Idle, OpenLabels
  <1>18. CASE BeginNewResource(r)
    BY <1>18, <1>b DEF BeginNewResource, Idle, OpenLabels
  <1>19. CASE BeginCreateDevice(r)
    BY <1>19, <1>b DEF BeginCreateDevice, Idle, OpenLabels
  <1> QED BY <1>1, <1>2, <1>3, <1>5, <1>6, <1>8, <1>9, <1>10, <1>11, <1>12, <1>13,
             <1>14, <1>15, <1>16, <1>17, <1>18, <1>19 DEF BeginRequest

----------------------------------------------------------------------------
(* Me and UpdateMe. *)

\* A stored record with other roles, or promoted.
LEMMA RecordFacts ==
  ASSUME NEW rec \in UserRecord, NEW X, NEW b
  PROVE  LET n == [rec EXCEPT !.roles = X]
             p == [rec EXCEPT !.superAdmin = b]
             e == [rec EXCEPT !.superAdmin = b, !.roles = X]
         IN  /\ n.name = rec.name /\ n.superAdmin = rec.superAdmin /\ n.roles = X
             /\ p.name = rec.name /\ p.superAdmin = b /\ p.roles = rec.roles
             /\ e.name = rec.name /\ e.superAdmin = b /\ e.roles = X
  BY DEF UserRecord

LEMMA RoleNat ==
  ASSUME IInv, AloneInv, NEW u \in Stored, NEW o \in OrgIds
  PROVE  users[u].roles[o] \in {0, 1}
  <1>1. users[u].roles[o] \in Nat /\ users[u].roles[o] <= 1
    BY StoredFacts DEF IInv, AloneInv, OneRole, Roles
  <1> QED BY <1>1

\* A record that changes the super admin flag of a stored one upwards at most.
LEMMA PromoteKnows ==
  ASSUME OneHandler, IInv, AloneInv, NEW r \in Requests, NEW l, NEW u \in Stored,
         Go(r, Update(l, u, [users[u] EXCEPT !.superAdmin = TRUE])),
         UNCHANGED <<users, orgs>>
  PROVE  AloneInv'
  <1> DEFINE rec == [users[u] EXCEPT !.superAdmin = TRUE]
  <1>1. rec.name = users[u].name /\ rec.superAdmin /\ rec.roles = users[u].roles
    BY StoredFacts, RecordFacts DEF IInv
  <1>2. OneRole(rec)
    BY <1>1 DEF AloneInv, OneRole
  <1>3. \A o \in OrgIds : ~(rec.roles[o] > users[u].roles[o])
    BY <1>1, RoleNat
  <1> HIDE DEF rec
  <1>4. Go(r, Update(l, u, rec))
    BY DEF rec
  <1> QED BY <1>1, <1>2, <1>3, <1>4, UpdateKnows

\* A record with other roles in the handler's organization.
LEMMA RolesKnows ==
  ASSUME OneHandler, IInv, AloneInv, NEW r \in Requests, NEW l, NEW u \in Stored,
         NEW rec, Go(r, Update(l, u, rec)), UNCHANGED <<users, orgs>>,
         rec.name = users[u].name, users[u].superAdmin => rec.superAdmin,
         \A x \in OrgIds \ {l.org} : rec.roles[x] = users[u].roles[x],
         l.org \in OrgIds, rec.roles[l.org] \in {0, 1},
         rec.roles[l.org] = 1 => OrgExists(l.org)
  PROVE  AloneInv'
  <1>1. \A x \in OrgIds : rec.roles[x] \in {0, 1}
    BY RoleNat
  <1>2. OneRole(rec)
    BY <1>1 DEF OneRole
  <1>3. \A x \in OrgIds : rec.roles[x] > users[u].roles[x] => OrgExists(x)
    <2>1. SUFFICES ASSUME NEW x \in OrgIds, rec.roles[x] > users[u].roles[x]
                   PROVE  OrgExists(x)
      OBVIOUS
    <2>2. x = l.org
      BY <2>1, RoleNat
    <2>3. rec.roles[x] = 1
      BY <1>1, <2>1, RoleNat
    <2> QED BY <2>2, <2>3
  <1> QED BY <1>2, <1>3, UpdateKnows

LEMMA AfterNewUsersKnows ==
  ASSUME OneHandler, IInv, AloneInv, NEW r \in Requests, NEW b \in BOOLEAN,
         req[r].pc \in {"me.first", "me.config"},
         Go(r, AfterNewUsers(req[r], b)), UNCHANGED <<users, orgs>>
  PROVE  AloneInv'
  <1> DEFINE l == req[r]
             m == [l EXCEPT !.pc = "me.mappings", !.super = b]
             rec == [name |-> l.name, superAdmin |-> b \/ l.super,
                     roles |-> RolesIn(l.grants)]
  <1>0. l \in Local /\ \A o \in l.grants : OrgExists(o)
    BY KnowsOfHandler DEF Knows
  <1>1. CASE l.op = "Me"
    <2>1. m.pc = "me.mappings" /\ m.grants = l.grants
      BY <1>0 DEF Local
    <2> HIDE DEF m
    <2>2. Knows(m)
      BY <1>0, <2>1 DEF Knows
    <2> QED BY <1>1, <2>2, Reading DEF AfterNewUsers, m
  <1>2. CASE l.op # "Me"
    <2>1. rec.name = l.name /\ rec.roles = RolesIn(l.grants)
      OBVIOUS
    <2> HIDE DEF rec
    <2>2. \A o \in OrgIds : rec.roles[o] > 0 => OrgExists(o)
      BY <1>0, <2>1 DEF RolesIn
    <2>3. Go(r, Add(l, rec))
      BY <1>2 DEF AfterNewUsers, rec
    <2> QED BY <2>1, <2>2, <2>3, AddKnows
  <1> QED BY <1>1, <1>2

LEMMA MeKnows ==
  ASSUME OneHandler, IInv, AloneInv, NEW r \in Requests, MeStep(r)
  PROVE  AloneInv'
  <1> DEFINE l == req[r]
  <1>0. l \in Local /\ Sane(l, everSuper) /\ Knows(l)
    BY KnowsOfHandler
  <1>a. UNCHANGED <<users, orgs>>
    BY DEF MeStep, UpdateMeOrg, UpdateMeFacade, UpdateMeRaw, MeGet, FirstUser,
           NewUsersConfig, MePrincipalMappings, MeOrganization, MeNewUser, Reads, store
  <1>b. ASSUME NEW label, Goto(r, label), Knows([l EXCEPT !.pc = label])
        PROVE  AloneInv'
    BY <1>a, <1>b, Reading DEF Goto
  <1>c. \A label : LET m == [l EXCEPT !.pc = label]
                   IN  /\ m.pc = label /\ m.op = l.op /\ m.org = l.org
                       /\ m.name = l.name /\ m.grants = l.grants
    BY <1>0 DEF Local
  <1>d. \A u \in ByName(l.name) : u \in Stored /\ users[u].name = l.name
    BY NamedFacts
  <1>e. l.org \in OrgIds
    BY <1>0 DEF Local
  <1>1. CASE UpdateMeOrg(r)
    <2>1. CASE OrgExists(l.org) /\ Goto(r, "um.facade")
      <3>1. l.op = "UpdateMe"
        BY <1>0, <1>1 DEF UpdateMeOrg, At, Knows
      <3>2. Knows([l EXCEPT !.pc = "um.facade"])
        BY <1>c, <2>1, <3>1 DEF Knows
      <3> QED BY <1>b, <2>1, <3>2
    <2> QED BY <1>1, <1>a, <2>1, StopKnows DEF UpdateMeOrg
  <1>2. CASE UpdateMeFacade(r)
    <2>1. l.op = "UpdateMe" /\ OrgExists(l.org)
      BY <1>0, <1>2 DEF UpdateMeFacade, At, Knows
    <2>2. CASE Go(r, AfterPut(l))
      <3> DEFINE m == AfterPut(l)
      <3>1. m.op = "Me" /\ m.pc = "me.get" /\ m.grants = {}
        BY <2>1 DEF AfterPut, Idle
      <3> HIDE DEF m
      <3>2. Knows(m)
        BY <3>1 DEF Knows
      <3> QED BY <1>a, <2>2, <3>2, Reading DEF m
    <2>3. CASE /\ ~(\E u \in ByName(l.name) : users[u].roles[l.org] > 0)
               /\ Goto(r, "um.raw")
      <3>1. \A u \in ByName(l.name) : users[u].roles[l.org] = 0
        BY <1>d, <1>e, <2>3, RoleNat
      <3>2. Knows([l EXCEPT !.pc = "um.raw"])
        BY <1>c, <2>1, <3>1 DEF Knows
      <3> QED BY <1>b, <2>3, <3>2
    <2> QED BY <1>2, <2>2, <2>3 DEF UpdateMeFacade
  <1>3. CASE UpdateMeRaw(r)
    <2>1. ASSUME NEW u \in ByName(l.name),
                 Go(r, Update(l, u, [users[u] EXCEPT !.roles = Grant(@, l.org)]))
          PROVE  AloneInv'
      <3> DEFINE roles == Grant(users[u].roles, l.org)
                 rec == [users[u] EXCEPT !.roles = roles]
      <3>1. users[u].roles[l.org] = 0 /\ OrgExists(l.org)
        BY <1>0, <1>3 DEF UpdateMeRaw, At, Knows
      <3>2. users[u].roles \in Roles
        BY <1>d, StoredFacts DEF IInv
      <3>3. roles[l.org] = 1 /\ \A x \in OrgIds \ {l.org} : roles[x] = users[u].roles[x]
        BY <1>e, <3>1, <3>2 DEF Grant, Roles
      <3> HIDE DEF roles
      <3>4. rec.name = users[u].name /\ rec.superAdmin = users[u].superAdmin
            /\ rec.roles = roles
        BY <1>d, StoredFacts, RecordFacts DEF IInv
      <3> HIDE DEF rec
      <3>5. Go(r, Update(l, u, rec))
        BY <2>1 DEF rec, roles
      <3> QED BY <1>a, <1>d, <1>e, <3>1, <3>3, <3>4, <3>5, RolesKnows
    <2> QED BY <1>3, <1>a, <2>1, StopKnows DEF UpdateMeRaw
  <1>4. CASE MeGet(r)
    <2>1. CASE Goto(r, "me.first")
      <3>1. l.grants = {}
        BY <1>0, <1>4 DEF MeGet, At, Knows
      <3>2. Knows([l EXCEPT !.pc = "me.first"])
        BY <1>c, <3>1 DEF Knows
      <3> QED BY <1>b, <2>1, <3>2
    <2> QED BY <1>4, <1>a, <1>d, <2>1, PromoteKnows, StopKnows DEF MeGet
  <1>5. CASE FirstUser(r)
    <2>1. l.pc = "me.first"
      BY <1>5 DEF FirstUser, At
    <2>2. CASE Goto(r, "me.config")
      <3>1. Knows([l EXCEPT !.pc = "me.config"])
        BY <1>0, <1>c, <2>1 DEF Knows
      <3> QED BY <1>b, <2>2, <3>1
    <2> QED BY <1>5, <1>a, <2>1, <2>2, AfterNewUsersKnows DEF FirstUser
  <1>6. CASE NewUsersConfig(r)
    <2>1. superAdminNewUsers \in BOOLEAN
      BY DEF IInv, TypeOK, StoreTypeOK
    <2> QED BY <1>6, <2>1, <1>a, AfterNewUsersKnows DEF NewUsersConfig, At
  <1>7. ASSUME NEW m, Go(r, m), m.pc = "me.orgs", \A o \in m.grants : OrgExists(o)
        PROVE  AloneInv'
    <2>1. Knows(m)
      BY <1>7 DEF Knows
    <2> QED BY <1>7, <1>a, <2>1, Reading
  <1>8. CASE MePrincipalMappings(r)
    <2>1. \A X : LET m == [l EXCEPT !.pc = "me.orgs", !.asked = X]
                 IN  m.pc = "me.orgs" /\ m.grants = l.grants
      BY <1>0 DEF Local
    <2>2. \A o \in l.grants : OrgExists(o)
      BY <1>0, <1>8 DEF MePrincipalMappings, At, Knows
    <2> QED BY <1>8, <1>7, <2>1, <2>2 DEF MePrincipalMappings
  <1>9. CASE MeOrganization(r)
    <2>1. \A X, Y : LET m == [l EXCEPT !.asked = X, !.grants = Y]
                        n == [l EXCEPT !.asked = X]
                    IN  m.pc = l.pc /\ m.grants = Y /\ n.pc = l.pc
                        /\ n.grants = l.grants
      BY <1>0 DEF Local
    <2>2. l.pc = "me.orgs" /\ \A o \in l.grants : OrgExists(o)
      BY <1>0, <1>9 DEF MeOrganization, At, Knows
    <2>3. ASSUME NEW o, OrgExists(o),
                 Go(r, [l EXCEPT !.asked = @ \ {o}, !.grants = @ \cup {o}])
          PROVE  AloneInv'
      BY ZenonT(60), <1>7, <2>1, <2>2, <2>3
    <2> QED BY <1>7, <1>9, <2>1, <2>2, <2>3 DEF MeOrganization
  <1>10. CASE MeNewUser(r)
    <2>1. \A o \in l.grants : OrgExists(o)
      BY <1>0, <1>10 DEF MeNewUser, At, Knows
    <2>2. OrgExists(DefaultOrg)
      BY DEF IInv, DefaultOrgStays
    <2>3. ASSUME NEW b, NEW X, \A o \in X : OrgExists(o),
                 Go(r, Add(l, [name |-> l.name, superAdmin |-> b, roles |-> RolesIn(X)]))
          PROVE  AloneInv'
      <3> DEFINE rec == [name |-> l.name, superAdmin |-> b, roles |-> RolesIn(X)]
      <3>1. rec.name = l.name /\ rec.roles = RolesIn(X)
        OBVIOUS
      <3> HIDE DEF rec
      <3>2. \A o \in OrgIds : rec.roles[o] > 0 => OrgExists(o)
        BY <2>3, <3>1 DEF RolesIn
      <3> QED BY <1>a, <2>3, <3>1, <3>2, AddKnows DEF rec
    <2>4. \A o \in l.grants \cup {DefaultOrg} : OrgExists(o)
      BY <2>1, <2>2
    <2> QED BY <1>10, <1>a, <2>1, <2>3, <2>4, StopKnows DEF MeNewUser
  <1> QED BY <1>1, <1>2, <1>3, <1>4, <1>5, <1>6, <1>8, <1>9, <1>10 DEF MeStep

----------------------------------------------------------------------------
(* The users handlers. *)

\* The record an edit makes.
LEMMA EditFacts ==
  ASSUME IInv, AloneInv, NEW l, l.rec \in UserRecord, Edits(l), Asks(l),
         MayEdit(l), NEW rec, rec.name = l.rec.name, rec.superAdmin = l.super,
         rec.roles = RolesIn(l.grants)
  PROVE  /\ l.uid \in Stored /\ rec.name = users[l.uid].name /\ OneRole(rec)
         /\ \A o \in OrgIds : rec.roles[o] > users[l.uid].roles[o] => OrgExists(o)
         /\ users[l.uid].superAdmin /\ ~rec.superAdmin =>
              \E v \in SuperAdmins : v # l.uid
  <1>1. l.uid \in Stored
    BY DEF Edits, Present, Stored
  <1>2. OneRole(rec)
    BY DEF OneRole, RolesIn
  <1>3. \A o \in OrgIds : rec.roles[o] > users[l.uid].roles[o] => OrgExists(o)
    <2>1. SUFFICES ASSUME NEW o \in OrgIds, rec.roles[o] > users[l.uid].roles[o]
                   PROVE  OrgExists(o)
      OBVIOUS
    <2>2. o \in l.grants /\ users[l.uid].roles[o] = 0
      BY <1>1, <2>1, RoleNat DEF RolesIn
    <2>3. l.rec.roles[o] \in Nat /\ l.rec.roles[o] <= users[l.uid].roles[o]
      BY DEF Edits, UserRecord, Roles
    <2>4. ~(l.rec.roles[o] > 0)
      BY <2>2, <2>3
    <2> QED BY <2>2, <2>4 DEF Edits
  <1>4. ASSUME users[l.uid].superAdmin, ~rec.superAdmin
        PROVE  \E v \in SuperAdmins : v # l.uid
    BY <1>4 DEF Edits, Asks, MayEdit, MaySetSuperAdmin
  <1> QED BY <1>1, <1>2, <1>3, <1>4 DEF Edits

LEMMA ValidRoleKnows ==
  ASSUME OneHandler, IInv, AloneInv, NEW r \in Requests, ValidRole(r)
  PROVE  AloneInv'
  <1> DEFINE l == req[r]
  <1>0. l \in Local /\ l.pc = "roles" /\ Knows(l) /\ UNCHANGED <<users, orgs>>
    BY KnowsOfHandler DEF ValidRole, At, Reads, store
  <1>1. \A X, Y : LET m == [l EXCEPT !.asked = X, !.grants = Y]
                      n == [l EXCEPT !.asked = X]
                  IN  /\ m.pc = "roles" /\ m.op = l.op /\ m.uid = l.uid
                      /\ m.rec = l.rec /\ m.grants = Y /\ m.actor = l.actor
                      /\ m.actorSuper = l.actorSuper
                      /\ n.pc = "roles" /\ n.op = l.op /\ n.uid = l.uid
                      /\ n.rec = l.rec /\ n.grants = l.grants /\ n.actor = l.actor
                      /\ n.actorSuper = l.actorSuper
    BY <1>0 DEF Local
  <1>2. ASSUME NEW m, Go(r, m), m.pc = "roles", m.op = l.op, m.uid = l.uid,
               m.rec = l.rec, m.actor = l.actor, m.actorSuper = l.actorSuper,
               \A o \in m.grants : o \in l.grants \/ OrgExists(o) \/ HasRole(l.rec, o)
        PROVE  AloneInv'
    <2>1. CASE l.op \in EditOps
      <3>1. Edits(m) /\ Asks(m)
        BY <1>0, <1>2, <2>1 DEF Knows, Edits, Asks, HasRole
      <3>2. Knows(m)
        BY <1>2, <2>1, <3>1 DEF Knows
      <3> QED BY <1>0, <1>2, <3>2, Reading
    <2>2. CASE l.op \notin EditOps
      <3>1. l.rec = Absent /\ \A o \in l.grants : OrgExists(o)
        BY <1>0, <2>2 DEF Knows
      <3>2. m.rec = Absent /\ \A o \in m.grants : OrgExists(o)
        BY <1>2, <3>1 DEF HasRole
      <3>3. Knows(m)
        BY <1>2, <2>2, <3>2 DEF Knows
      <3> QED BY <1>0, <1>2, <3>3, Reading
    <2> QED BY <2>1, <2>2
  <1>3. ASSUME NEW o, OrgExists(o) \/ HasRole(l.rec, o),
               Go(r, [l EXCEPT !.asked = @ \ {o}, !.grants = @ \cup {o}])
        PROVE  AloneInv'
    <2> DEFINE m == [l EXCEPT !.asked = @ \ {o}, !.grants = @ \cup {o}]
    <2>1. /\ m.pc = "roles" /\ m.op = l.op /\ m.uid = l.uid /\ m.rec = l.rec
          /\ m.actor = l.actor /\ m.actorSuper = l.actorSuper
          /\ m.grants = l.grants \cup {o}
      BY <1>1
    <2> HIDE DEF m
    <2>2. \A x \in m.grants : x \in l.grants \/ OrgExists(x) \/ HasRole(l.rec, x)
      BY <1>3, <2>1
    <2> QED BY <1>2, <1>3, <2>1, <2>2 DEF m
  <1>4. ASSUME NEW o, Go(r, [l EXCEPT !.asked = @ \ {o}])
        PROVE  AloneInv'
    BY <1>1, <1>2, <1>4
  <1> QED BY <1>0, <1>3, <1>4, StopKnows DEF ValidRole

LEMMA EditKnows ==
  ASSUME OneHandler, IInv, AloneInv, NEW r \in Requests, EditFromRequest(r)
  PROVE  AloneInv'
  <1> DEFINE l == req[r]
             rec == [l.rec EXCEPT !.superAdmin = l.super, !.roles = RolesIn(l.grants)]
             m == [Update(l, l.uid, rec) EXCEPT !.pc = "fupd.get"]
  <1>0. l.op \in EditOps /\ l.pc = "roles" /\ UNCHANGED <<users, orgs>>
    BY DEF EditFromRequest, EditOps, At, Reads, store
  <1>1. l.rec \in UserRecord /\ Edits(l) /\ Asks(l)
    BY <1>0, KnowsOfHandler DEF Knows, Sane
  <1>2. rec.name = l.rec.name /\ rec.superAdmin = l.super
        /\ rec.roles = RolesIn(l.grants)
    BY <1>1, RecordFacts
  <1> HIDE DEF rec
  <1>3. CASE l.op = "UpdateUser" /\ MayEdit(l) /\ Go(r, Update(l, l.uid, rec))
    <2>1. l.op \notin FacadeOps
      BY <1>3 DEF FacadeOps
    <2> QED BY <1>0, <1>1, <1>2, <1>3, <2>1, EditFacts, UpdateKnows
  <1>4. CASE l.op = "OrganizationUpdateUser" /\ MayEdit(l) /\ Go(r, m)
    <2>1. m.pc = "fupd.get" /\ m.op = l.op /\ m.uid = l.uid /\ m.rec = rec
      BY DEF Update, Idle
    <2> HIDE DEF m
    <2>2. Replaces(m)
      BY <1>1, <1>2, <1>4, <2>1, EditFacts DEF Replaces, Present, Stored
    <2>3. Knows(m)
      BY <1>4, <2>1, <2>2 DEF Knows
    <2> QED BY <1>0, <1>4, <2>3, Reading
  <1> QED BY <1>0, <1>3, <1>4, StopKnows DEF EditFromRequest, rec, m

LEMMA CreateKnows ==
  ASSUME OneHandler, IInv, AloneInv, NEW r \in Requests, CreateFromRequest(r)
  PROVE  AloneInv'
  <1> DEFINE l == req[r]
             rec == [name |-> l.name, superAdmin |-> l.super,
                     roles |-> RolesIn(l.grants)]
             m == [Add(l, rec) EXCEPT !.pc = "fadd.get"]
  <1>0. l.op \in {"NewUser", "OrganizationNewUser"} /\ l.pc = "roles"
        /\ UNCHANGED <<users, orgs>>
    BY DEF CreateFromRequest, At, Reads, store
  <1>1. \A o \in l.grants : OrgExists(o)
    BY <1>0, KnowsOfHandler DEF Knows, EditOps
  <1>2. rec.name = l.name /\ rec.roles = RolesIn(l.grants)
    OBVIOUS
  <1> HIDE DEF rec
  <1>3. \A o \in OrgIds : rec.roles[o] > 0 => OrgExists(o)
    BY <1>1, <1>2 DEF RolesIn
  <1>4. CASE Go(r, Add(l, rec))
    BY <1>0, <1>2, <1>3, <1>4, AddKnows
  <1>5. CASE l.op = "OrganizationNewUser" /\ Go(r, m)
    <2>1. m.pc = "fadd.get" /\ m.op = l.op /\ m.name = l.name /\ m.rec = rec
      BY DEF Add, Idle
    <2> HIDE DEF m
    <2>2. MayCreate(m)
      BY <1>2, <1>3, <2>1 DEF MayCreate
    <2>3. Knows(m)
      BY <1>5, <2>1, <2>2 DEF Knows
    <2> QED BY <1>0, <1>5, <2>3, Reading
  <1> QED BY <1>0, <1>4, <1>5, StopKnows DEF CreateFromRequest, rec, m

LEMMA ReadUsersKnows ==
  ASSUME OneHandler, IInv, AloneInv, NEW r \in Requests,
         \/ NewUserConfig(r) \/ UpdateUserGet(r) \/ NewBasicUserGet(r)
         \/ RemoveUserGet(r) \/ LockedUserGet(r)
  PROVE  AloneInv'
  <1> DEFINE l == req[r]
  <1>0. l \in Local /\ Sane(l, everSuper) /\ Knows(l)
    BY KnowsOfHandler
  <1>a. UNCHANGED <<users, orgs>>
    BY DEF NewUserConfig, UpdateUserGet, NewBasicUserGet, RemoveUserGet,
           LockedUserGet, Reads, store
  <1>b. \A u : Present(u) <=> u \in Stored
    BY DEF Present, Stored
  <1>1. CASE NewUserConfig(r)
    <2> DEFINE m == [l EXCEPT !.pc = "roles", !.super = @ \/ superAdminNewUsers]
    <2>1. m.pc = "roles" /\ m.op = l.op /\ m.grants = l.grants /\ m.rec = l.rec
      BY <1>0 DEF Local
    <2> HIDE DEF m
    <2>2. l.op \notin EditOps /\ l.grants = {} /\ l.rec = Absent
      BY <1>0, <1>1 DEF NewUserConfig, At, Sane, Knows
    <2>3. Knows(m)
      BY <2>1, <2>2 DEF Knows
    <2> QED BY <1>1, <1>a, <2>3, Reading DEF NewUserConfig, m
  <1>2. CASE UpdateUserGet(r)
    <2> DEFINE m == [l EXCEPT !.pc = "roles", !.rec = users[l.uid]]
    <2>1. /\ m.pc = "roles" /\ m.op = l.op /\ m.grants = l.grants /\ m.uid = l.uid
          /\ m.rec = users[l.uid] /\ m.actor = l.actor /\ m.actorSuper = l.actorSuper
      BY <1>0 DEF Local
    <2> HIDE DEF m
    <2>2. CASE Present(l.uid) /\ Go(r, m)
      <3>1. l.grants = {} /\ Asks(l)
        BY <1>0, <1>2 DEF UpdateUserGet, At, Knows
      <3>2. \A o \in OrgIds : m.rec.roles[o] <= users[m.uid].roles[o]
        BY <1>b, <2>1, <2>2, RoleNat
      <3>3. Edits(m) /\ Asks(m)
        BY <2>1, <2>2, <3>1, <3>2 DEF Edits, Asks
      <3>4. l.op \in EditOps
        BY <1>0, <1>2 DEF UpdateUserGet, At, Knows, EditOps
      <3>5. Knows(m)
        BY <2>1, <3>3, <3>4 DEF Knows
      <3> QED BY <1>a, <2>2, <3>5, Reading
    <2> QED BY <1>2, <1>a, <2>2, StopKnows DEF UpdateUserGet, m
  <1>3. CASE NewBasicUserGet(r)
    <2>1. CASE Goto(r, "me.first")
      <3> DEFINE m == [l EXCEPT !.pc = "me.first"]
      <3>1. m.pc = "me.first" /\ m.grants = l.grants
        BY <1>0 DEF Local
      <3> HIDE DEF m
      <3>2. \A o \in l.grants : OrgExists(o)
        BY <1>0, <1>3 DEF NewBasicUserGet, At, Knows, EditOps
      <3>3. Knows(m)
        BY <3>1, <3>2 DEF Knows
      <3> QED BY <1>a, <2>1, <3>3, Reading DEF Goto, m
    <2> QED BY <1>3, <1>a, <2>1, StopKnows DEF NewBasicUserGet
  <1>4. CASE RemoveUserGet(r)
    <2>1. CASE Present(l.uid) /\ Goto(r, "ru.del")
      <3> DEFINE m == [l EXCEPT !.pc = "ru.del"]
      <3>1. m.pc = "ru.del" /\ m.uid = l.uid
        BY <1>0 DEF Local
      <3> HIDE DEF m
      <3>2. Knows(m)
        BY <2>1, <3>1 DEF Knows
      <3> QED BY <1>a, <2>1, <3>2, Reading DEF Goto, m
    <2> QED BY <1>4, <1>a, <2>1, StopKnows DEF RemoveUserGet
  <1>5. CASE LockedUserGet(r)
    <2>1. ASSUME NEW u \in ByName(l.name), Go(r, Update(l, u, users[u]))
          PROVE  AloneInv'
      <3>1. u \in Stored
        BY NamedFacts
      <3>2. l.op \notin FacadeOps
        BY <1>0, <1>5 DEF LockedUserGet, At, Knows, FacadeOps
      <3>3. \A o \in OrgIds : ~(users[u].roles[o] > users[u].roles[o])
        BY <3>1, RoleNat
      <3>4. OneRole(users[u])
        BY <3>1 DEF AloneInv
      <3> QED BY <1>a, <2>1, <3>1, <3>2, <3>3, <3>4, UpdateKnows
    <2> QED BY <1>5, <1>a, <2>1, StopKnows DEF LockedUserGet
  <1> QED BY <1>1, <1>2, <1>3, <1>4, <1>5

----------------------------------------------------------------------------
(* The facade, Update and Add. *)

LEMMA FacadeAddKnows ==
  ASSUME OneHandler, IInv, AloneInv, NEW r \in Requests, FacadeAdd(r)
  PROVE  AloneInv'
  <1> DEFINE l == req[r]
  <1>0. /\ l \in Local /\ l.pc = "fadd.get" /\ MayCreate(l) /\ OneRole(l.rec)
        /\ l.rec \in UserRecord /\ UNCHANGED <<users, orgs>> /\ l.org \in OrgIds
    BY KnowsOfHandler DEF FacadeAdd, At, Knows, Sane, Reads, store, Local
  <1>1. CASE Go(r, Add(l, l.rec))
    BY <1>0, <1>1, AddKnows DEF MayCreate
  <1>2. ASSUME NEW u \in ByName(l.name),
               Go(r, Update(l, u, [users[u] EXCEPT
                                     !.superAdmin = @ \/ l.rec.superAdmin,
                                     !.roles = Merge(@, l.rec.roles, l.org)]))
        PROVE  AloneInv'
    <2> DEFINE roles == Merge(users[u].roles, l.rec.roles, l.org)
               b == users[u].superAdmin \/ l.rec.superAdmin
               rec == [users[u] EXCEPT !.superAdmin = b, !.roles = roles]
    <2>1. u \in Stored /\ users[u] \in UserRecord /\ users[u].roles \in Roles
      BY NamedFacts, StoredFacts DEF IInv
    <2>2. /\ \A x \in OrgIds \ {l.org} : roles[x] = users[u].roles[x]
          /\ roles[l.org] = l.rec.roles[l.org]
      BY <1>0, <2>1 DEF Merge, Roles
    <2>3. l.rec.roles[l.org] \in {0, 1}
      BY <1>0 DEF OneRole, UserRecord, Roles
    <2>4. l.rec.roles[l.org] = 1 => OrgExists(l.org)
      BY <1>0 DEF MayCreate
    <2>5. users[u].superAdmin => b
      OBVIOUS
    <2> HIDE DEF roles, b
    <2>6. rec.name = users[u].name /\ rec.superAdmin = b /\ rec.roles = roles
      BY <2>1, RecordFacts
    <2> HIDE DEF rec
    <2>7. Go(r, Update(l, u, rec))
      BY <1>2 DEF rec, roles, b
    <2> QED BY <1>0, <2>1, <2>2, <2>3, <2>4, <2>5, <2>6, <2>7, RolesKnows
  <1> QED BY <1>0, <1>1, <1>2, StopKnows DEF FacadeAdd

LEMMA FacadeGetKnows ==
  ASSUME OneHandler, IInv, AloneInv, NEW r \in Requests, FacadeGet(r)
  PROVE  AloneInv'
  <1> DEFINE l == req[r]
             roles == [o \in OrgIds |-> IF o = l.org THEN users[l.uid].roles[o] ELSE 0]
             own == [users[l.uid] EXCEPT !.roles = roles]
             m == [l EXCEPT !.pc = "roles", !.rec = own]
  <1>0. /\ l \in Local /\ l.pc = "fget" /\ Knows(l) /\ UNCHANGED <<users, orgs>>
    BY KnowsOfHandler DEF FacadeGet, At, Reads, store
  <1>1. CASE Present(l.uid) /\ l.op = "OrganizationUpdateUser" /\ Go(r, m)
    <2>1. l.uid \in Stored
      BY <1>1 DEF Present, Stored
    <2>2. users[l.uid] \in UserRecord
      BY <2>1, StoredFacts DEF IInv
    <2>3. \A o \in OrgIds : roles[o] <= users[l.uid].roles[o]
      BY <2>1, RoleNat
    <2> HIDE DEF roles
    <2>4. own.name = users[l.uid].name /\ own.superAdmin = users[l.uid].superAdmin
          /\ own.roles = roles
      BY <2>2, RecordFacts
    <2> HIDE DEF own
    <2>5. /\ m.pc = "roles" /\ m.op = l.op /\ m.uid = l.uid /\ m.rec = own
          /\ m.grants = l.grants /\ m.actor = l.actor /\ m.actorSuper = l.actorSuper
      BY <1>0 DEF Local
    <2> HIDE DEF m
    <2>6. Edits(m) /\ Asks(m)
      BY <1>0, <1>1, <2>3, <2>4, <2>5 DEF Edits, Asks, Knows
    <2>7. Knows(m)
      BY <1>1, <2>5, <2>6 DEF Knows, EditOps
    <2> QED BY <1>0, <1>1, <2>7, Reading
  <1>2. CASE l.op = "OrganizationRemoveUser" /\ Goto(r, "fdel.get")
    <2> DEFINE n == [l EXCEPT !.pc = "fdel.get"]
    <2>1. n.pc = "fdel.get" /\ n.op = l.op
      BY <1>0 DEF Local
    <2> HIDE DEF n
    <2>2. Knows(n)
      BY <1>2, <2>1 DEF Knows
    <2> QED BY <1>0, <1>2, <2>2, Reading DEF Goto, n
  <1> QED BY <1>0, <1>1, <1>2, StopKnows DEF FacadeGet, m, own, roles

LEMMA FacadeUpdateKnows ==
  ASSUME OneHandler, IInv, AloneInv, NEW r \in Requests, FacadeUpdate(r)
  PROVE  AloneInv'
  <1> DEFINE l == req[r]
             roles == Merge(users[l.uid].roles, l.rec.roles, l.org)
             rec == [l.rec EXCEPT !.roles = roles]
  <1>0. /\ l \in Local /\ l.pc = "fupd.get" /\ Replaces(l) /\ l.rec \in UserRecord
        /\ UNCHANGED <<users, orgs>> /\ l.org \in OrgIds
    BY KnowsOfHandler DEF FacadeUpdate, At, Knows, Sane, Reads, store, Local
  <1>1. l.uid \in Stored /\ users[l.uid].roles \in Roles
    BY <1>0, StoredFacts DEF Replaces, Present, Stored, IInv
  <1>2. /\ \A x \in OrgIds \ {l.org} : roles[x] = users[l.uid].roles[x]
        /\ roles[l.org] = l.rec.roles[l.org]
    BY <1>0, <1>1 DEF Merge, Roles
  <1>3. \A o \in OrgIds : roles[o] <= 1
    BY <1>0, <1>1, <1>2, RoleNat DEF Replaces, OneRole
  <1>4. \A o \in OrgIds : roles[o] > users[l.uid].roles[o] => OrgExists(o)
    <2>1. SUFFICES ASSUME NEW o \in OrgIds, roles[o] > users[l.uid].roles[o]
                   PROVE  OrgExists(o)
      OBVIOUS
    <2> HIDE DEF roles
    <2>2. o = l.org
      BY <1>1, <1>2, <2>1, RoleNat
    <2> QED BY <1>0, <1>2, <2>1, <2>2 DEF Replaces
  <1> HIDE DEF roles
  <1>5. rec.name = l.rec.name /\ rec.superAdmin = l.rec.superAdmin /\ rec.roles = roles
    BY <1>0, RecordFacts
  <1> HIDE DEF rec
  <1>6. OneRole(rec)
    BY <1>3, <1>5 DEF OneRole
  <1>7. CASE Go(r, Update(l, l.uid, rec))
    <2>1. /\ rec.name = users[l.uid].name
          /\ users[l.uid].superAdmin /\ ~rec.superAdmin =>
               \E v \in SuperAdmins : v # l.uid
      BY <1>0, <1>5 DEF Replaces
    <2>2. /\ \A o \in OrgIds : rec.roles[o] > users[l.uid].roles[o] => OrgExists(o)
          /\ \A o \in OrgIds \ {l.org} : rec.roles[o] = users[l.uid].roles[o]
      BY <1>2, <1>4, <1>5
    <2> QED BY <1>0, <1>1, <1>6, <1>7, <2>1, <2>2, UpdateKnows
  <1> QED BY <1>0, <1>7, StopKnows DEF FacadeUpdate, rec, roles

\* The roles of a user without those in one organization.
LEMMA StripKnows ==
  ASSUME OneHandler, IInv, AloneInv, NEW r \in Requests, NEW l, NEW u \in Stored,
         l.org \in OrgIds, UNCHANGED <<users, orgs>>,
         Go(r, Update(l, u, [users[u] EXCEPT !.roles = Strip(@, l.org)]))
  PROVE  AloneInv'
  <1> DEFINE roles == Strip(users[u].roles, l.org)
             rec == [users[u] EXCEPT !.roles = roles]
  <1>1. users[u] \in UserRecord /\ users[u].roles \in Roles
    BY StoredFacts DEF IInv
  <1>2. /\ \A x \in OrgIds \ {l.org} : roles[x] = users[u].roles[x]
        /\ roles[l.org] = 0
    BY <1>1 DEF Strip, Roles
  <1> HIDE DEF roles
  <1>3. rec.name = users[u].name /\ rec.superAdmin = users[u].superAdmin
        /\ rec.roles = roles
    BY <1>1, RecordFacts
  <1> HIDE DEF rec
  <1>4. Go(r, Update(l, u, rec))
    BY DEF rec, roles
  <1> QED BY <1>2, <1>3, <1>4, RolesKnows

LEMMA FacadeDeleteKnows ==
  ASSUME OneHandler, IInv, AloneInv, NEW r \in Requests, FacadeDelete(r)
  PROVE  AloneInv'
  <1>1. req[r].org \in OrgIds /\ UNCHANGED <<users, orgs>>
    BY LocalFacts DEF FacadeDelete, Reads, store, Local
  <1> QED BY <1>1, StripKnows, StopKnows DEF FacadeDelete, Present, Stored

LEMMA CheckedKnows ==
  ASSUME OneHandler, IInv, AloneInv, NEW r \in Requests, UpdateGet(r) \/ AddExists(r)
  PROVE  AloneInv'
  <1> DEFINE l == req[r]
  <1>0. l \in Local /\ Knows(l) /\ UNCHANGED <<users, orgs>>
    BY KnowsOfHandler DEF UpdateGet, AddExists, Reads, store
  <1>1. ASSUME NEW label
        PROVE  LET m == [l EXCEPT !.pc = label]
               IN  /\ m.pc = label /\ m.op = l.op /\ m.org = l.org
                   /\ m.name = l.name /\ m.uid = l.uid /\ m.rec = l.rec
    BY <1>0 DEF Local
  <1>2. CASE UpdateGet(r)
    <2> DEFINE m == [l EXCEPT !.pc = "update.put"]
    <2>1. m.pc = "update.put" /\ m.op = l.op /\ m.org = l.org /\ m.uid = l.uid
          /\ m.rec = l.rec
      BY <1>1
    <2> HIDE DEF m
    <2>2. Knows(m)
      BY <1>0, <1>2, <2>1 DEF UpdateGet, At, Knows, Replaces
    <2>3. CASE Go(r, m)
      BY <1>0, <2>2, <2>3, Reading
    <2> QED BY <1>0, <1>2, <2>3, StopKnows DEF UpdateGet, Goto, m
  <1>3. CASE AddExists(r)
    <2> DEFINE m == [l EXCEPT !.pc = "add.put"]
    <2>1. m.pc = "add.put" /\ m.op = l.op /\ m.name = l.name /\ m.rec = l.rec
      BY <1>1
    <2> HIDE DEF m
    <2>2. CASE Named(l.name) = {} /\ Go(r, m)
      <3>1. Knows(m)
        BY <1>0, <1>3, <2>1, <2>2 DEF AddExists, At, Knows, MayCreate
      <3> QED BY <1>0, <2>2, <3>1, Reading
    <2> QED BY <1>0, <1>3, <2>2, StopKnows DEF AddExists, Goto, m
  <1> QED BY <1>2, <1>3

\* The steps that store or delete a user end what the handler knows.
LEMMA PutKnows ==
  ASSUME OneHandler, IInv, AloneInv, NEW r \in Requests,
         UpdatePut(r) \/ AddPut(r) \/ RemoveUserDelete(r)
  PROVE  AloneInv'
  <1> DEFINE l == req[r]
  <1>0. l \in Local /\ Sane(l, everSuper) /\ Knows(l)
    BY KnowsOfHandler
  <1>a. ASSUME NEW m, Go(r, m), m.pc \in OpenLabels \/ (m.pc = "me.get"
                                     /\ m.op = "Me" /\ m.grants = {}),
               \A u \in Stored' : OneRole(users'[u])
        PROVE  AloneInv'
    <2>1. Knows(m)'
      BY <1>a DEF Knows, OpenLabels
    <2> QED BY <1>a, <2>1, KnowStep
  <1>1. CASE UpdatePut(r)
    <2>1. l.uid \in UserIds /\ OneRole(l.rec)
      BY <1>0, <1>1 DEF UpdatePut, At, Knows, Sane, Replaces
    <2>2. \A u \in Stored' : OneRole(users'[u])
      BY <1>1, <2>1 DEF UpdatePut, AloneInv, IInv, TypeOK, StoreTypeOK, Stored
    <2> DEFINE m == AfterPut(l)
    <2>3. \/ m.pc \in OpenLabels
          \/ m.pc = "me.get" /\ m.op = "Me" /\ m.grants = {}
      <3>1. LET n == [l EXCEPT !.pc = "casc.users", !.uid = 0, !.rec = Absent]
            IN  n.pc \in OpenLabels
        BY <1>0 DEF Local, OpenLabels
      <3>2. LET n == [Idle EXCEPT !.op = "Me", !.pc = "me.get", !.name = l.name]
            IN  n.pc = "me.get" /\ n.op = "Me" /\ n.grants = {}
        BY DEF Idle
      <3> QED BY <3>1, <3>2, IdleOpen DEF AfterPut
    <2> HIDE DEF m
    <2> QED BY <1>1, <1>a, <2>2, <2>3 DEF UpdatePut, m
  <1>2. CASE AddPut(r)
    <2>1. CASE Error(r) /\ UNCHANGED <<users, orgs>>
      BY <2>1, StopKnows
    <2>2. CASE users' = [users EXCEPT ![userSeq + 1] = l.rec] /\ Finish(r)
      <3>1. OneRole(l.rec)
        BY <1>0, <1>2 DEF AddPut, At, Sane
      <3>2. \A u \in Stored' : OneRole(users'[u])
        BY <2>2, <3>1 DEF AloneInv, IInv, TypeOK, StoreTypeOK, Stored
      <3> QED BY <1>a, <2>2, <3>2, IdleOpen DEF Finish
    <2> QED BY <1>2, <2>1, <2>2 DEF AddPut
  <1>3. CASE RemoveUserDelete(r)
    <2>1. \A u \in Stored' : OneRole(users'[u])
      BY <1>3 DEF RemoveUserDelete, AloneInv, IInv, TypeOK, StoreTypeOK, Stored
    <2> QED BY <1>3, <1>a, <2>1, IdleOpen DEF RemoveUserDelete, Finish
  <1> QED BY <1>1, <1>2, <1>3

LEMMA UsersKnows ==
  ASSUME OneHandler, IInv, AloneInv, NEW r \in Requests, UsersStep(r)
  PROVE  AloneInv'
  BY ReadUsersKnows, ValidRoleKnows, CreateKnows, EditKnows, FacadeAddKnows,
     FacadeGetKnows, FacadeUpdateKnows, FacadeDeleteKnows, CheckedKnows, PutKnows
     DEF UsersStep

----------------------------------------------------------------------------
(* The organizations handlers. *)

\* A step that does not touch the users, and ends what Knows asks.
LEMMA OpenStep ==
  ASSUME OneHandler, IInv, AloneInv, NEW r \in Requests, NEW m, Go(r, m),
         m.pc \in OpenLabels, UNCHANGED users
  PROVE  AloneInv'
  <1>1. Knows(m)'
    BY DEF Knows, OpenLabels
  <1>2. \A u \in Stored' : OneRole(users'[u])
    BY DEF AloneInv, Stored
  <1> QED BY <1>1, <1>2, KnowStep

LEMMA NewOrganizationKnows ==
  ASSUME OneHandler, IInv, AloneInv, NEW r \in Requests,
         NewOrganizationUnique(r) \/ NewOrganizationPut(r)
  PROVE  AloneInv'
  <1> DEFINE l == req[r]
  <1>0. l \in Local /\ Sane(l, everSuper) /\ Knows(l)
    BY KnowsOfHandler
  <1>1. l.op = "NewOrganization" /\ l.rec.name = l.name /\ l.rec \in UserRecord
        /\ l.oname \in OrgNames
    BY <1>0 DEF NewOrganizationUnique, NewOrganizationPut, At, Knows, Sane
  <1>2. CASE NewOrganizationUnique(r)
    <2> DEFINE m == [l EXCEPT !.pc = "no.put"]
    <2>1. m.pc = "no.put" /\ m.op = l.op /\ m.name = l.name /\ m.rec = l.rec
          /\ m.oname = l.oname
      BY <1>0 DEF Local
    <2> HIDE DEF m
    <2>2. CASE NameIsUnique(l.oname) /\ Go(r, m)
      <3>1. Knows(m)
        BY <1>1, <2>1, <2>2 DEF Knows
      <3> QED BY <1>2, <2>2, <3>1, Reading DEF NewOrganizationUnique, Reads, store
    <2> QED BY <1>2, <2>2, StopKnows
            DEF NewOrganizationUnique, Goto, m, Reads, store
  <1>3. CASE NewOrganizationPut(r) /\ orgSeq < MaxOrgs
    <2> DEFINE id == orgSeq + 1
               rec == [l.rec EXCEPT !.roles = RolesIn({id})]
               m == [Add(l, rec) EXCEPT !.pc = "fadd.get", !.org = id]
    <2>1. /\ orgs' = [orgs EXCEPT ![id] = l.oname] /\ Go(r, m) /\ UNCHANGED users
      BY <1>3, TenancyAssumption DEF NewOrganizationPut
    <2>2. id \in OrgIds
      BY <1>3, TenancyAssumption DEF IInv, TypeOK, StoreTypeOK
    <2>3. orgs'[id] # Absent
      BY <1>1, <2>1, <2>2, TenancyAssumption DEF IInv, TypeOK, StoreTypeOK
    <2>4. rec.name = l.name /\ rec.roles = RolesIn({id})
      BY <1>1, RecordFacts
    <2> HIDE DEF rec, id
    <2>5. ASSUME NEW n, Go(r, n), n.pc = "fadd.get", n.op = l.op, n.name = l.name,
                 n.rec = rec
          PROVE  AloneInv'
      <3>1. MayCreate(n)'
        BY <2>3, <2>4, <2>5 DEF MayCreate, RolesIn, OrgExists
      <3>2. Knows(n)'
        BY <1>1, <2>5, <3>1 DEF Knows
      <3>3. \A u \in Stored' : OneRole(users'[u])
        BY <2>1 DEF AloneInv, Stored
      <3> QED BY <2>5, <3>2, <3>3, KnowStep
    <2>6. m.pc = "fadd.get" /\ m.op = l.op /\ m.name = l.name /\ m.rec = rec
      BY DEF Add, Idle
    <2> QED BY <2>1, <2>5, <2>6
  <1>4. CASE NewOrganizationPut(r) /\ ~(orgSeq < MaxOrgs)
    BY <1>4, StopKnows DEF NewOrganizationPut
  <1> QED BY <1>2, <1>3, <1>4

LEMMA UpdateOrganizationKnows ==
  ASSUME OneHandler, IInv, AloneInv, NEW r \in Requests,
         \/ UpdateOrganizationGet(r) \/ UpdateOrganizationKvGet(r)
         \/ UpdateOrganizationUnique(r) \/ UpdateOrganizationPut(r)
  PROVE  AloneInv'
  <1> DEFINE l == req[r]
  <1>0. l \in Local /\ Knows(l)
    BY KnowsOfHandler
  <1>1. \A label : LET m == [l EXCEPT !.pc = label]
                   IN  m.pc = label /\ m.org = l.org /\ m.oname = l.oname
    BY <1>0 DEF Local
  <1>2. ASSUME NEW label, Goto(r, label), UNCHANGED <<users, orgs>>,
               Knows([l EXCEPT !.pc = label])
        PROVE  AloneInv'
    BY <1>2, Reading DEF Goto
  <1>3. CASE UpdateOrganizationGet(r)
    <2> DEFINE name == IF l.oname = Absent THEN orgs[l.org] ELSE l.oname
               m == [l EXCEPT !.pc = "uo.kvget", !.oname = name]
    <2>1. m.pc \in OpenLabels
      BY <1>0 DEF Local, OpenLabels
    <2>2. CASE Go(r, m)
      BY <1>3, <2>1, <2>2, OpenStep DEF UpdateOrganizationGet, Reads, store
    <2> QED BY <1>3, <2>2, StopKnows DEF UpdateOrganizationGet, Reads, store
  <1>4. CASE UpdateOrganizationKvGet(r)
    <2>0. UNCHANGED <<users, orgs>>
      BY <1>4 DEF UpdateOrganizationKvGet, Reads, store
    <2>1. OrgExists(l.org) => Knows([l EXCEPT !.pc = "uo.unique"])
      BY <1>1 DEF Knows
    <2>2. OrgExists(l.org) /\ l.oname = orgs[l.org]
            => Knows([l EXCEPT !.pc = "uo.put"])
      BY <1>1 DEF Knows
    <2> QED BY <1>2, <1>4, <2>0, <2>1, <2>2, StopKnows DEF UpdateOrganizationKvGet
  <1>5. CASE UpdateOrganizationUnique(r)
    <2>0. UNCHANGED <<users, orgs>> /\ OrgExists(l.org)
      BY <1>0, <1>5 DEF UpdateOrganizationUnique, At, Knows, Reads, store
    <2>1. NameIsUnique(l.oname) => Knows([l EXCEPT !.pc = "uo.put"])
      BY <1>1, <2>0 DEF Knows
    <2> QED BY <1>2, <1>5, <2>0, <2>1, StopKnows DEF UpdateOrganizationUnique
  <1>6. CASE UpdateOrganizationPut(r)
    BY <1>6, OpenStep, IdleOpen DEF UpdateOrganizationPut, Finish
  <1> QED BY <1>3, <1>4, <1>5, <1>6

LEMMA RemoveOrganizationKnows ==
  ASSUME OneHandler, IInv, AloneInv, NEW r \in Requests,
         \/ RemoveOrganizationGet(r) \/ RemoveOrganizationDevices(r)
         \/ DeleteOrganizationGet(r) \/ DeleteOrganizationPut(r)
  PROVE  AloneInv'
  <1> DEFINE l == req[r]
  <1>0. l \in Local
    BY LocalFacts
  <1>1. CASE RemoveOrganizationGet(r) \/ RemoveOrganizationDevices(r)
    <2>1. "ro.devices" \in OpenLabels /\ "odel.get" \in OpenLabels
      BY DEF OpenLabels
    <2> QED BY <1>1, <2>1, GotoOpen, StopKnows
            DEF RemoveOrganizationGet, RemoveOrganizationDevices, Reads, store
  <1>2. CASE DeleteOrganizationGet(r)
    <2> DEFINE m == [l EXCEPT !.pc = "odel.put"]
    <2>1. m.pc = "odel.put" /\ m.org = l.org
      BY <1>0 DEF Local
    <2> HIDE DEF m
    <2>2. CASE OrgExists(l.org) /\ Go(r, m)
      <3>1. Knows(m)
        BY <2>1, <2>2 DEF Knows
      <3> QED BY <1>2, <2>2, <3>1, Reading DEF DeleteOrganizationGet, Reads, store
    <2> QED BY <1>2, <2>2, StopKnows
            DEF DeleteOrganizationGet, Goto, m, Reads, store
  <1>3. CASE DeleteOrganizationPut(r)
    <2> DEFINE m == [l EXCEPT !.pc = "casc.res", !.kind = 1]
    <2>1. m.pc \in OpenLabels
      BY <1>0 DEF Local, OpenLabels
    <2> QED BY <1>3, <2>1, OpenStep DEF DeleteOrganizationPut
  <1> QED BY <1>1, <1>2, <1>3

LEMMA CascadeKnows ==
  ASSUME OneHandler, IInv, AloneInv, NEW r \in Requests,
         \/ CascadeList(r) \/ CascadeDelete(r) \/ CascadeListUsers(r)
         \/ CascadeUser(r) \/ CascadeListMappings(r) \/ CascadeMapping(r)
  PROVE  AloneInv'
  <1> DEFINE l == req[r]
  <1>0. l \in Local
    BY LocalFacts
  <1>a. UNCHANGED <<users, orgs>>
    BY DEF CascadeList, CascadeDelete, CascadeListUsers, CascadeUser,
           CascadeListMappings, CascadeMapping, Reads, store
  <1>b. \A k, X : /\ [l EXCEPT !.kind = k].pc = l.pc
                  /\ [l EXCEPT !.pc = "casc.res", !.kind = k].pc = "casc.res"
                  /\ [l EXCEPT !.pc = "casc.users", !.usersLeft = X].pc = "casc.users"
                  /\ [l EXCEPT !.pc = "casc.maps", !.mapsLeft = X].pc = "casc.maps"
                  /\ [l EXCEPT !.mapsLeft = X].pc = l.pc
    BY <1>0 DEF Local
  <1>c. /\ "casc.res" \in OpenLabels /\ "casc.resdel" \in OpenLabels
        /\ "casc.users" \in OpenLabels /\ "casc.maps" \in OpenLabels
    BY DEF OpenLabels
  <1>1. CASE CascadeList(r)
    <2>1. [l EXCEPT !.kind = @ + 1].pc \in OpenLabels
      BY <1>1, <1>b, <1>c DEF CascadeList, At
    <2> QED BY <1>1, <1>a, <1>c, <2>1, GotoOpen, OpenStep DEF CascadeList
  <1>2. CASE CascadeDelete(r)
    <2>1. [l EXCEPT !.pc = "casc.res", !.kind = @ + 1].pc \in OpenLabels
      BY <1>b, <1>c
    <2> QED BY <1>2, <1>a, <2>1, OpenStep, StopKnows DEF CascadeDelete
  <1>3. CASE CascadeListUsers(r)
    <2> DEFINE some == {u \in Stored : users[u].roles[l.org] > 0}
               m == [l EXCEPT !.pc = "casc.users", !.usersLeft = some]
    <2>1. Go(r, m)
      BY <1>3 DEF CascadeListUsers
    <2> HIDE DEF some
    <2>2. m.pc \in OpenLabels
      BY <1>b, <1>c
    <2> QED BY <1>a, <2>1, <2>2, OpenStep
  <1>4. CASE CascadeUser(r)
    <2>1. \A X : [l EXCEPT !.usersLeft = X].org = l.org
      BY <1>0 DEF Local
    <2>2. ASSUME NEW u \in l.usersLeft, Present(u),
                 Go(r, Update([l EXCEPT !.usersLeft = @ \ {u}], u,
                              [users[u] EXCEPT !.roles = Strip(@, l.org)]))
          PROVE  AloneInv'
      <3> DEFINE m == [l EXCEPT !.usersLeft = @ \ {u}]
      <3>1. m.org = l.org /\ l.org \in OrgIds /\ u \in Stored
        BY <1>0, <2>1, <2>2 DEF Local, Present, Stored
      <3> HIDE DEF m
      <3>2. Go(r, Update(m, u, [users[u] EXCEPT !.roles = Strip(@, m.org)]))
        BY <2>2, <3>1 DEF m
      <3> QED BY <1>a, <3>1, <3>2, StripKnows
    <2> QED BY <1>4, <1>a, <2>2, StopKnows DEF CascadeUser
  <1>5. CASE CascadeListMappings(r)
    <2> DEFINE some == {m \in MappingIds : mappings[m] = l.org}
               n == [l EXCEPT !.pc = "casc.maps", !.mapsLeft = some]
    <2>1. Go(r, n)
      BY <1>5 DEF CascadeListMappings
    <2> HIDE DEF some
    <2>2. n.pc \in OpenLabels
      BY <1>b, <1>c
    <2> QED BY <1>a, <2>1, <2>2, OpenStep
  <1>6. CASE CascadeMapping(r)
    <2>1. \A m : [l EXCEPT !.mapsLeft = @ \ {m}].pc \in OpenLabels
      BY <1>6, <1>b, <1>c DEF CascadeMapping, At
    <2> QED BY <1>6, <1>a, <2>1, OpenStep, StopKnows DEF CascadeMapping
  <1> QED BY <1>1, <1>2, <1>3, <1>4, <1>5, <1>6

----------------------------------------------------------------------------
(* Mappings, resources, devices, the clients' other calls and faults. *)

LEMMA OtherKnows ==
  ASSUME OneHandler, IInv, AloneInv, NEW r \in Requests, OtherStep(r)
  PROVE  AloneInv'
  <1>1. UNCHANGED <<users, orgs>>
    BY DEF OtherStep, PutMappingOrg, PutMappingPut, RemoveMappingGet,
           RemoveMappingDelete, NewResourcePut, CreateDeviceOrg, CreateDevicePut,
           Reads, store
  <1>2. /\ "map.put" \in OpenLabels /\ "mapdel.put" \in OpenLabels
        /\ "dev.put" \in OpenLabels
    BY DEF OpenLabels
  <1> QED BY <1>1, <1>2, GotoOpen, StopKnows
          DEF OtherStep, PutMappingOrg, PutMappingPut, RemoveMappingGet,
              RemoveMappingDelete, NewResourcePut, CreateDeviceOrg, CreateDevicePut

LEMMA SameKnows ==
  ASSUME AloneInv, UNCHANGED <<users, orgs, req>>
  PROVE  AloneInv'
  <1>1. \A r \in Requests : Knows(req[r])'
    BY KnowsStays DEF AloneInv
  <1> QED BY <1>1 DEF AloneInv, Stored

LEMMA AloneInit == Init => AloneInv
  <1> SUFFICES ASSUME Init PROVE AloneInv
    OBVIOUS
  <1>1. Stored = {}
    BY DEF Init, Stored
  <1> QED BY <1>1, IdleOpen, KnowsOpen DEF AloneInv, Init

LEMMA AloneNext ==
  ASSUME OneHandler, IInv, AloneInv, [Next]_vars
  PROVE  AloneInv'
  <1>1. CASE UNCHANGED vars
    BY <1>1, SameKnows DEF vars
  <1>2. ASSUME NEW r \in Requests, BeginRequest(r) \/ Step(r) \/ StoreError(r)
        PROVE  AloneInv'
    <2>1. CASE StoreError(r)
      BY <2>1, StopKnows DEF StoreError, Reads, store
    <2>2. CASE OrganizationsStep(r)
      BY <2>2, NewOrganizationKnows, UpdateOrganizationKnows,
         RemoveOrganizationKnows, CascadeKnows DEF OrganizationsStep
    <2> QED BY <1>2, <2>1, <2>2, BeginKnows, MeKnows, UsersKnows, OtherKnows DEF Step
  <1>3. CASE \/ \E k \in Kinds, o \in OrgIds : RemoveResource(k, o)
             \/ \E o \in OrgIds : RemoveDevice(o)
             \/ \E b \in BOOLEAN : ReplaceAuthConfig(b)
    BY <1>3, SameKnows DEF RemoveResource, RemoveDevice, ReplaceAuthConfig
  <1>4. CASE Crash
    <2>1. UNCHANGED <<users, orgs>> /\ \A r \in Requests : req'[r] = Idle
      BY <1>4 DEF Crash, Reads, store
    <2>2. Knows(Idle)'
      BY IdleOpen DEF Knows, OpenLabels
    <2> QED BY <2>1, <2>2 DEF AloneInv, Stored
  <1> QED BY <1>1, <1>2, <1>3, <1>4 DEF Next

\* With one handler at a time, what the handler has read is what is stored.
THEOREM AloneInvariant ==
  ASSUME OneHandler
  PROVE  Spec => []AloneInv
  <1>1. IInv /\ AloneInv /\ [Next]_vars => AloneInv'
    BY AloneNext
  <1> QED BY <1>1, AloneInit, Invariant, PTL DEF Spec

----------------------------------------------------------------------------
(* What a step does to the users and the organizations. *)

\* The steps that write the users and organizations buckets.
Writes(r) ==
    \/ UpdatePut(r) \/ AddPut(r) \/ RemoveUserDelete(r)
    \/ NewOrganizationPut(r) \/ UpdateOrganizationPut(r)
    \/ DeleteOrganizationPut(r)

LEMMA OnlyWrites ==
  ASSUME [Next]_vars
  PROVE  UNCHANGED <<users, userSeq, orgs, orgSeq>> \/ \E r \in Requests : Writes(r)
  <1> DEFINE Same == UNCHANGED <<users, userSeq, orgs, orgSeq>>
  <1>1. CASE UNCHANGED vars
    BY <1>1 DEF vars
  <1>2. ASSUME NEW r \in Requests, BeginRequest(r) \/ Step(r) \/ StoreError(r)
        PROVE  Same \/ Writes(r)
    <2>1. CASE BeginRequest(r)
      <3>1. \A m : Begin(r, m) => Same
        BY DEF Begin, Reads, store
      <3> HIDE DEF Same
      <3> QED BY <2>1, <3>1
          DEF BeginRequest, BeginMe, BeginUpdateMe, BeginNewBasicUser,
              BeginNewUser, BeginOrganizationNewUser, BeginUpdateUser,
              BeginOrganizationUpdateUser, BeginRemoveUser,
              BeginOrganizationRemoveUser, BeginLockedUser, BeginNewOrganization,
              BeginUpdateOrganization, BeginRemoveOrganization, BeginPutMapping,
              BeginRemoveMapping, BeginNewResource, BeginCreateDevice
    <2>2. CASE MeStep(r)
      BY <2>2 DEF MeStep, UpdateMeOrg, UpdateMeFacade, UpdateMeRaw, MeGet,
           FirstUser, NewUsersConfig, MePrincipalMappings, MeOrganization,
           MeNewUser, Reads, store
    <2>3. CASE UsersStep(r)
      BY <2>3 DEF UsersStep, NewUserConfig, UpdateUserGet, ValidRole,
           CreateFromRequest, EditFromRequest, NewBasicUserGet, RemoveUserGet,
           LockedUserGet, FacadeAdd, FacadeGet, FacadeUpdate, FacadeDelete,
           UpdateGet, AddExists, Reads, store, Writes
    <2>4. CASE OrganizationsStep(r)
      BY <2>4 DEF OrganizationsStep, NewOrganizationUnique, UpdateOrganizationGet,
           UpdateOrganizationKvGet, UpdateOrganizationUnique,
           RemoveOrganizationGet, RemoveOrganizationDevices,
           DeleteOrganizationGet, CascadeList, CascadeDelete, CascadeListUsers,
           CascadeUser, CascadeListMappings, CascadeMapping, Reads, store, Writes
    <2>5. CASE OtherStep(r) \/ StoreError(r)
      BY <2>5 DEF OtherStep, PutMappingOrg, PutMappingPut, RemoveMappingGet,
           RemoveMappingDelete, NewResourcePut, CreateDeviceOrg,
           CreateDevicePut, StoreError, Reads, store
    <2> QED BY <1>2, <2>1, <2>2, <2>3, <2>4, <2>5 DEF Step
  <1>3. CASE \/ \E k \in Kinds, o \in OrgIds : RemoveResource(k, o)
             \/ \E o \in OrgIds : RemoveDevice(o)
             \/ \E b \in BOOLEAN : ReplaceAuthConfig(b)
             \/ Crash
    BY <1>3 DEF RemoveResource, RemoveDevice, ReplaceAuthConfig, Crash, Reads, store
  <1> QED BY <1>1, <1>2, <1>3 DEF Next

\* The facade's Update stores the roles it was given outside its organization
\* as they are stored.
Isolated ==
    \A r \in Requests :
        At(r, "update.put") /\ req'[r] # req[r] /\ users' # users
          /\ req[r].op \in FacadeOps =>
        \A o \in OrgIds \ {req[r].org} :
          Present(req[r].uid) =>
            users'[req[r].uid].roles[o] = users[req[r].uid].roles[o]

LEMMA NextIsolated ==
  ASSUME OneHandler, IInv, AloneInv, [Next]_vars
  PROVE  Isolated
  <1> SUFFICES ASSUME NEW r \in Requests, At(r, "update.put"), users' # users,
                      req[r].op \in FacadeOps, NEW o \in OrgIds \ {req[r].org},
                      Present(req[r].uid)
               PROVE  users'[req[r].uid].roles[o] = users[req[r].uid].roles[o]
    BY DEF Isolated
  <1>1. UpdatePut(r)
    <2>1. PICK q \in Requests : Writes(q)
      BY OnlyWrites
    <2>2. Writes(r)
      BY <2>1 DEF OneHandler
    <2> QED BY <2>2 DEF Writes, At, AddPut, RemoveUserDelete, NewOrganizationPut,
                        UpdateOrganizationPut, DeleteOrganizationPut
  <1>2. req[r].rec.roles[o] = users[req[r].uid].roles[o]
    BY KnowsOfHandler DEF Knows, At
  <1> QED BY <1>1, <1>2 DEF UpdatePut, Present, IInv, TypeOK, StoreTypeOK

\* Nobody is left without a super admin, but by the deletion of the last one.
SomeSuperStays ==
    SuperAdmins # {} /\ SuperAdmins' = {} => \E r \in Requests : At(r, "ru.del")

LEMMA NextSuperStays ==
  ASSUME OneHandler, IInv, NamesKept, AloneInv, [Next]_vars
  PROVE  SomeSuperStays
  <1> SUFFICES ASSUME NEW v \in SuperAdmins, SuperAdmins' = {}
               PROVE  \E r \in Requests : At(r, "ru.del")
    BY DEF SomeSuperStays
  <1>0. v \in UserIds /\ v \in Stored /\ users[v].superAdmin
    BY DEF SuperAdmins, Stored
  <1>1. users' # users
    BY DEF SuperAdmins, Stored
  <1>2. PICK r \in Requests : Writes(r)
    BY <1>1, OnlyWrites
  <1>3. ASSUME NEW w \in SuperAdmins, users'[w] = users[w] PROVE FALSE
    BY <1>3 DEF SuperAdmins, Stored
  <1>4. CASE UpdatePut(r)
    <2> DEFINE l == req[r]
    <2>1. users' = [users EXCEPT ![l.uid] = l.rec] /\ users \in [UserIds -> UserRecord \cup {Absent}]
      BY <1>4 DEF UpdatePut, IInv, TypeOK, StoreTypeOK
    <2>2. l.uid \in UserIds /\ l.rec \in UserRecord /\ Replaces(l)
      BY <1>4, KnowsOfHandler DEF UpdatePut, At, Sane, Knows
    <2>3. CASE v # l.uid
      BY <1>0, <1>3, <2>1, <2>3
    <2>4. CASE v = l.uid /\ l.rec.superAdmin
      <3>1. l.uid \in SuperAdmins'
        BY <2>1, <2>2, <2>4, TenancyAssumption DEF SuperAdmins, Stored
      <3> QED BY <3>1
    <2>5. CASE v = l.uid /\ ~l.rec.superAdmin
      <3>1. PICK w \in SuperAdmins : w # l.uid
        BY <1>0, <2>2, <2>5 DEF Replaces
      <3> QED BY <1>3, <2>1, <3>1 DEF SuperAdmins, Stored
    <2> QED BY <2>3, <2>4, <2>5
  <1>5. CASE AddPut(r)
    <2>1. v <= userSeq /\ userSeq \in Nat /\ v \in Nat
      BY <1>0 DEF NamesKept, Names, IInv, TypeOK, StoreTypeOK, UserIds
    <2>2. v # userSeq + 1
      BY <2>1
    <2> QED BY <1>0, <1>1, <1>3, <1>5, <2>2 DEF AddPut, IInv, TypeOK, StoreTypeOK
  <1>6. CASE RemoveUserDelete(r)
    BY <1>6 DEF RemoveUserDelete
  <1> QED BY <1>1, <1>2, <1>4, <1>5, <1>6
          DEF Writes, NewOrganizationPut, UpdateOrganizationPut, DeleteOrganizationPut

\* Everything a handler knows, of its own locals and of the stores.
LEMMA AllInvariants ==
  ASSUME OneHandler
  PROVE  Spec => [](IInv /\ NamesKept /\ AloneInv)
  <1>1. Init => IInv /\ NamesKept /\ AloneInv
    BY InitInv, InitNames, AloneInit
  <1>2. IInv /\ NamesKept /\ AloneInv /\ [Next]_vars
          => IInv' /\ NamesKept' /\ AloneInv'
    BY NextInv, NextNames, AloneNext
  <1> QED BY <1>1, <1>2, PTL DEF Spec

\* A facade stores nothing outside its organization but what is stored there.
THEOREM FacadesIsolate ==
  ASSUME OneHandler
  PROVE  Spec => FacadeIsolation
  <1>1. IInv /\ NamesKept /\ AloneInv /\ [Next]_vars => Isolated
    BY NextIsolated
  <1>2. Isolated <=>
          \A r \in Requests :
            At(r, "update.put") /\ req'[r] # req[r] /\ users' # users
              /\ req[r].op \in FacadeOps =>
            \A o \in OrgIds \ {req[r].org} :
              Present(req[r].uid) =>
                users'[req[r].uid].roles[o] = users[req[r].uid].roles[o]
    BY DEF Isolated
  <1> QED BY <1>1, <1>2, AllInvariants, PTL DEF Spec, FacadeIsolation

\* No edit takes the last super admin away: only the deletion of that user.
THEOREM SuperAdminsStay ==
  ASSUME OneHandler
  PROVE  Spec => LastSuperAdminStays
  <1>1. IInv /\ NamesKept /\ AloneInv /\ [Next]_vars => SomeSuperStays
    BY NextSuperStays
  <1>2. SomeSuperStays <=> (SuperAdmins # {} /\ SuperAdmins' = {} =>
                              \E r \in Requests : At(r, "ru.del"))
    BY DEF SomeSuperStays
  <1> QED BY <1>1, <1>2, AllInvariants, PTL DEF Spec, LastSuperAdminStays

----------------------------------------------------------------------------
(* The stores are the directory. *)

\* A record with at most one role per organization.
LEMMA LegalRecord ==
  ASSUME NEW rec \in UserRecord, OneRole(rec)
  PROVE  rec \in D!LegalRecords(rec.name)
  <1>1. rec.roles \in [OrgIds -> {0, 1}]
    BY DEF UserRecord, Roles, OneRole
  <1> QED BY <1>1 DEF UserRecord, D!LegalRecords

LEMMA UpdateEdits ==
  ASSUME IInv, AloneInv, NEW r \in Requests, UpdatePut(r)
  PROVE  D!EditUser
  <1> DEFINE l == req[r]
  <1>1. /\ l.uid \in UserIds /\ l.rec \in UserRecord /\ Replaces(l)
        /\ users' = [users EXCEPT ![l.uid] = l.rec]
        /\ UNCHANGED <<userSeq, orgs, orgSeq>>
    BY KnowsOfHandler DEF UpdatePut, At, Sane, Knows
  <1>2. /\ users[l.uid] # Absent
        /\ l.rec \in D!LegalRecords(users[l.uid].name)
    BY <1>1, LegalRecord DEF Replaces, Present
  <1>3. D!GainsOnlyIn(users[l.uid].roles, l.rec.roles)
    BY <1>1 DEF Replaces, OrgExists, D!GainsOnlyIn
  <1> QED BY <1>1, <1>2, <1>3 DEF D!EditUser

LEMMA AddAdds ==
  ASSUME IInv, AloneInv, NEW r \in Requests, AddPut(r), userSeq < MaxUsers
  PROVE  D!AddUser
  <1> DEFINE l == req[r]
  <1>1. /\ l.rec \in UserRecord /\ OneRole(l.rec) /\ MayCreate(l)
        /\ Named(l.name) = {}
        /\ userSeq' = userSeq + 1 /\ users' = [users EXCEPT ![userSeq + 1] = l.rec]
        /\ UNCHANGED <<orgs, orgSeq>>
    <2>1. userSeq # MaxUsers
      BY TenancyAssumption DEF IInv, TypeOK, StoreTypeOK
    <2> QED BY <2>1, KnowsOfHandler DEF AddPut, At, Sane, Knows
  <1>2. userSeq + 1 \in UserIds
    BY TenancyAssumption DEF IInv, TypeOK, StoreTypeOK, UserIds
  <1>3. l.rec.name = l.name /\ l.rec.name \in Principals
    BY <1>1 DEF MayCreate, UserRecord
  <1>4. \A u \in UserIds : users[u] # Absent => users[u].name # l.rec.name
    BY <1>1, <1>3 DEF Named, Stored
  <1>5. D!GainsOnlyIn(D!RolesIn({}), l.rec.roles)
    BY <1>1 DEF MayCreate, OrgExists, D!GainsOnlyIn, D!RolesIn
  <1>6. l.rec \in D!LegalRecords(l.rec.name)
    BY <1>1, LegalRecord
  <1> QED BY <1>1, <1>2, <1>3, <1>4, <1>5, <1>6 DEF D!AddUser

\* Deletions of users, and the writes of the organizations bucket.
LEMMA OtherWrites ==
  ASSUME IInv, AloneInv, NEW r \in Requests
  PROVE  /\ RemoveUserDelete(r) => D!RemoveUser
         /\ NewOrganizationPut(r) =>
              D!AddOrg \/ UNCHANGED <<users, userSeq, orgs, orgSeq>>
         /\ UpdateOrganizationPut(r) =>
              D!RenameOrg \/ UNCHANGED <<users, userSeq, orgs, orgSeq>>
         /\ DeleteOrganizationPut(r) => D!RemoveOrg
  <1> DEFINE l == req[r]
  <1>0. l \in Local /\ Sane(l, everSuper) /\ Knows(l) /\ l.org \in OrgIds
    BY KnowsOfHandler DEF Local
  <1>1. ASSUME RemoveUserDelete(r) PROVE D!RemoveUser
    <2>1. Present(l.uid)
      BY <1>0, <1>1 DEF RemoveUserDelete, At, Knows
    <2> QED BY <1>1, <2>1 DEF RemoveUserDelete, Present, D!RemoveUser
  <1>2. ASSUME NewOrganizationPut(r)
        PROVE  D!AddOrg \/ UNCHANGED <<users, userSeq, orgs, orgSeq>>
    <2>1. CASE orgSeq < MaxOrgs
      <3>1. orgSeq + 1 \in OrgIds /\ orgSeq # MaxOrgs
        BY <2>1, TenancyAssumption DEF IInv, TypeOK, StoreTypeOK
      <3>2. l.oname \in OrgNames /\ NameIsUnique(l.oname)
        BY <1>0, <1>2 DEF NewOrganizationPut, At, Sane, Knows
      <3>3. /\ orgSeq' = orgSeq + 1 /\ orgs' = [orgs EXCEPT ![orgSeq + 1] = l.oname]
            /\ UNCHANGED <<users, userSeq>>
        BY <1>2, <3>1 DEF NewOrganizationPut
      <3>4. D!Free(l.oname)
        BY <3>2 DEF NameIsUnique, D!Free
      <3> QED BY <3>1, <3>2, <3>3, <3>4 DEF D!AddOrg
    <2> QED BY <1>2, <2>1 DEF NewOrganizationPut
  <1>3. ASSUME UpdateOrganizationPut(r)
        PROVE  D!RenameOrg \/ UNCHANGED <<users, userSeq, orgs, orgSeq>>
    <2>1. /\ l.oname \in OrgNames /\ OrgExists(l.org)
          /\ l.oname = orgs[l.org] \/ NameIsUnique(l.oname)
      BY <1>0, <1>3 DEF UpdateOrganizationPut, At, Sane, Knows
    <2>2. /\ orgs' = [orgs EXCEPT ![l.org] = l.oname]
          /\ UNCHANGED <<users, userSeq, orgSeq>>
      BY <1>3 DEF UpdateOrganizationPut
    <2>3. CASE l.oname = orgs[l.org]
      BY <2>2, <2>3 DEF IInv, TypeOK, StoreTypeOK
    <2>4. CASE NameIsUnique(l.oname)
      <3>1. D!Free(l.oname)
        BY <2>4 DEF NameIsUnique, D!Free
      <3> QED BY <1>0, <2>1, <2>2, <3>1 DEF OrgExists, D!RenameOrg
    <2> QED BY <2>1, <2>3, <2>4
  <1>4. ASSUME DeleteOrganizationPut(r) PROVE D!RemoveOrg
    <2>1. OrgExists(l.org) /\ l.org # DefaultOrg
      BY <1>0, <1>4 DEF DeleteOrganizationPut, At, Sane, Knows
    <2> QED BY <1>0, <1>4, <2>1 DEF DeleteOrganizationPut, OrgExists, D!RemoveOrg
  <1> QED BY <1>1, <1>2, <1>3, <1>4

LEMMA NextIsDirectory ==
  ASSUME OneHandler, IInv, AloneInv, [Next]_vars
  PROVE  [D!DirNext]_(D!dirVars)
  <1>1. CASE UNCHANGED <<users, userSeq, orgs, orgSeq>>
    BY <1>1 DEF D!dirVars
  <1>2. ASSUME NEW r \in Requests, Writes(r)
        PROVE  D!DirNext \/ UNCHANGED D!dirVars
    <2>1. CASE AddPut(r) /\ ~(userSeq < MaxUsers)
      BY <2>1 DEF AddPut, D!dirVars
    <2> QED BY <1>2, <2>1, UpdateEdits, AddAdds, OtherWrites
            DEF Writes, D!DirNext, D!dirVars
  <1> QED BY <1>1, <1>2, OnlyWrites

\* The stores implement the directory: the buckets and their sequences are its
\* state, and every put is one of its operations or changes nothing.
THEOREM StoresAreDirectory ==
  ASSUME OneHandler
  PROVE  Spec => DirectorySpec
  <1>1. Init => D!DirInit
    BY DEF Init, D!DirInit
  <1>2. IInv /\ NamesKept /\ AloneInv /\ [Next]_vars => [D!DirNext]_(D!dirVars)
    BY NextIsDirectory
  <1> QED BY <1>1, <1>2, AllInvariants, PTL DEF Spec, DirectorySpec, D!DirSpec

----------------------------------------------------------------------------
(* Removals. *)

Removals == {"RemoveOrganization", "Cleanup"}
CascadePCs == {"casc.res", "casc.resdel", "casc.users", "casc.maps"}

\* The handler is cleaning up after the organization it has deleted.
Cascading(l) ==
    \/ l.pc \in CascadePCs
    \/ l.pc \in {"update.get", "update.put"} /\ l.op \in Removals

Members(o) == {u \in Stored : users[u].roles[o] > 0}

\* What is left of the organization the handler has deleted: nothing where the
\* cascade has been.
Tidies(l) ==
    /\ Cascading(l) => ~OrgExists(l.org) /\ l.org \notin devices
    /\ l.pc \in {"casc.res", "casc.resdel"} =>
         l.kind >= 1 /\ \A k \in Kinds : k < l.kind => l.org \notin owned[k]
    /\ l.pc = "casc.resdel" => l.org \in owned[l.kind]
    /\ Cascading(l) /\ l.pc \notin {"casc.res", "casc.resdel"} =>
         \A k \in Kinds : l.org \notin owned[k]
    /\ l.pc = "casc.users" =>
         Members(l.org) \subseteq l.usersLeft /\ l.usersLeft \subseteq Stored
    /\ Cascading(l) /\ l.pc \in {"update.get", "update.put"} =>
         /\ Members(l.org) \subseteq l.usersLeft \cup {l.uid}
         /\ l.usersLeft \subseteq Stored
         /\ l.rec.roles[l.org] = 0
    /\ l.pc = "casc.maps" =>
         /\ Members(l.org) = {}
         /\ l.mapsLeft = {m \in MappingIds : mappings[m] = l.org}

RemovalPCs == CascadePCs \cup {"ro.get", "ro.devices", "odel.get", "odel.put"}
CreatorPCs == {"fadd.get", "add.exists", "add.put", "update.get", "update.put"}

\* What the handler looked up before it refers to an organization, or deletes
\* one; and where the handlers of organizations may be.
Minds(l) ==
    /\ l.pc \in {"map.put", "res.put", "dev.put"} => OrgExists(l.org)
    /\ l.pc \in RemovalPCs => l.op \in Removals
    /\ l.op \in Removals => l.pc \in RemovalPCs \cup {"update.get", "update.put"}
    /\ l.op = "NewOrganization" => l.pc \in CreatorPCs \cup {"no.unique", "no.put"}
    /\ \/ l.pc \in {"odel.get", "odel.put"}
       \/ l.pc \in CreatorPCs /\ l.op = "NewOrganization"
       => l.org \notin devices

\* Ids of organizations are not handed out twice; a reference to a missing one
\* is the business of the removal that is at it.
TidyInv ==
    /\ \A o \in OrgIds : OrgExists(o) => o <= orgSeq
    /\ \A r \in Requests : Tidies(req[r]) /\ Minds(req[r])
    /\ \A o \in OrgIds : References(o) =>
         OrgExists(o) \/ \E r \in Requests : Cascading(req[r]) /\ req[r].org = o

\* A handler that is not about organizations asks nothing of TidyInv.
Plain(l) ==
    /\ l.op \notin Removals \cup {"NewOrganization"}
    /\ l.pc \notin RemovalPCs \cup {"map.put", "res.put", "dev.put"}

LEMMA PlainFacts ==
  ASSUME NEW l, Plain(l)
  PROVE  /\ Tidies(l) /\ Minds(l) /\ ~Cascading(l)
         /\ Tidies(l)' /\ Minds(l)'
  BY DEF Plain, Tidies, Minds, Cascading, CascadePCs, RemovalPCs, Removals, CreatorPCs

LEMMA TidyStep ==
  ASSUME OneHandler, IInv, NEW r \in Requests, NEW m, Go(r, m),
         Tidies(m)', Minds(m)',
         \A o \in OrgIds : OrgExists(o)' => o <= orgSeq',
         \A o \in OrgIds : References(o)' =>
           OrgExists(o)' \/ (Cascading(m) /\ m.org = o)
  PROVE  TidyInv'
  <1>1. \A q \in Requests : req'[q] = m
    BY DEF Go, OneHandler, IInv, TypeOK
  <1>2. \A o \in OrgIds : References(o)' =>
          OrgExists(o)' \/ \E q \in Requests : Cascading(req'[q]) /\ req'[q].org = o
    BY <1>1
  <1> QED BY <1>1, <1>2 DEF TidyInv, Cascading

LEMMA TidyStays ==
  ASSUME NEW m, UNCHANGED store
  PROVE  /\ Tidies(m)' <=> Tidies(m)
         /\ Minds(m)' <=> Minds(m)
         /\ \A o : (OrgExists(o)' <=> OrgExists(o)) /\ (References(o)' <=> References(o))
  <1>1. /\ users' = users /\ orgs' = orgs /\ mappings' = mappings
        /\ owned' = owned /\ devices' = devices
    BY DEF store
  <1>2. \A o : OrgExists(o)' <=> OrgExists(o)
    BY <1>1 DEF OrgExists
  <1>3. Stored' = Stored /\ \A o : Members(o)' = Members(o)
    BY <1>1 DEF Members, Stored
  <1>4. \A o : References(o)' <=> References(o)
    BY <1>1, <1>3 DEF References
  <1>5. Minds(m)' <=> Minds(m)
    BY <1>1, <1>2 DEF Minds
  <1>6. Tidies(m)' <=> Tidies(m)
    BY <1>1, <1>2, <1>3 DEF Tidies, Cascading
  <1> QED BY <1>2, <1>4, <1>5, <1>6

\* With one handler, only it can be at a removal.
LEMMA TidyOfHandler ==
  ASSUME OneHandler, IInv, TidyInv, NEW r \in Requests
  PROVE  /\ req[r] \in Local /\ Sane(req[r], everSuper)
         /\ Tidies(req[r]) /\ Minds(req[r])
         /\ \A o \in OrgIds : References(o) =>
              OrgExists(o) \/ (Cascading(req[r]) /\ req[r].org = o)
  BY LocalFacts DEF TidyInv, OneHandler

LEMMA TidyReads ==
  ASSUME OneHandler, IInv, TidyInv, NEW r \in Requests, NEW m, Go(r, m), Reads,
         Tidies(m), Minds(m),
         Cascading(req[r]) => Cascading(m) /\ m.org = req[r].org
  PROVE  TidyInv'
  <1>1. UNCHANGED store /\ orgSeq' = orgSeq
    BY DEF Reads, store
  <1>2. Tidies(m)' /\ Minds(m)'
    BY <1>1, TidyStays
  <1>3. \A o \in OrgIds : OrgExists(o)' => o <= orgSeq'
    BY <1>1, TidyStays DEF TidyInv
  <1>4. \A o \in OrgIds : References(o)' =>
          OrgExists(o)' \/ (Cascading(m) /\ m.org = o)
    BY <1>1, TidyStays, TidyOfHandler
  <1> QED BY <1>2, <1>3, <1>4, TidyStep

LEMMA PlainStep ==
  ASSUME OneHandler, IInv, TidyInv, NEW r \in Requests, NEW m, Go(r, m), Reads,
         Plain(m), ~Cascading(req[r])
  PROVE  TidyInv'
  BY PlainFacts, TidyReads

LEMMA IdlePlain == Plain(Idle)
  BY DEF Idle, Plain, RemovalPCs, CascadePCs, Removals

\* Outside the handlers of organizations, an error ends the request.
LEMMA PlainError ==
  ASSUME OneHandler, IInv, TidyInv, NEW r \in Requests, Error(r) \/ Finish(r),
         req[r].op # "NewOrganization", ~Cascading(req[r]), Reads
  PROVE  TidyInv'
  <1>1. Go(r, Idle)
    BY DEF Error, OnError, Finish
  <1> QED BY <1>1, IdlePlain, PlainStep

LEMMA BeginTidy ==
  ASSUME OneHandler, IInv, TidyInv, NEW r \in Requests, BeginRequest(r)
  PROVE  TidyInv'
  <1>a. ASSUME NEW m, Begin(r, m), Tidies(m), Minds(m)
        PROVE  TidyInv'
    <2>1. ~Cascading(req[r])
      BY <1>a DEF Begin, At, Cascading, CascadePCs
    <2> QED BY <1>a, <2>1, TidyReads DEF Begin
  <1>b. ASSUME NEW m, Begin(r, m), Plain(m)
        PROVE  TidyInv'
    BY <1>a, <1>b, PlainFacts
  <1>1. CASE \/ BeginMe(r) \/ BeginUpdateMe(r) \/ BeginNewBasicUser(r)
             \/ BeginNewUser(r) \/ BeginOrganizationNewUser(r)
             \/ BeginUpdateUser(r) \/ BeginOrganizationUpdateUser(r)
             \/ BeginRemoveUser(r) \/ BeginOrganizationRemoveUser(r)
             \/ BeginLockedUser(r) \/ BeginUpdateOrganization(r)
             \/ BeginPutMapping(r) \/ BeginRemoveMapping(r) \/ BeginCreateDevice(r)
    <2>1. ASSUME NEW m, Begin(r, m),
                 m.pc \in {"me.get", "um.org", "roles", "new.config", "uu.get",
                           "fget", "ru.get", "lock.get", "uo.get", "map.org",
                           "mapdel.get", "dev.org"},
                 m.op \in {"Me", "UpdateMe", "NewBasicUser", "NewUser",
                           "OrganizationNewUser", "UpdateUser",
                           "OrganizationUpdateUser", "RemoveUser",
                           "OrganizationRemoveUser", "LockedUser",
                           "UpdateOrganization", "PutMapping", "RemoveMapping",
                           "CreateDevice"}
          PROVE  TidyInv'
      <3>1. m.pc \notin RemovalPCs \cup {"map.put", "res.put", "dev.put"}
        BY <2>1 DEF RemovalPCs, CascadePCs
      <3>2. m.op \notin Removals \cup {"NewOrganization"}
        BY <2>1 DEF Removals
      <3> QED BY <1>b, <2>1, <3>1, <3>2 DEF Plain
    <2>2. CASE BeginMe(r)
      BY <2>1, <2>2 DEF BeginMe, Idle
    <2>3. CASE BeginUpdateMe(r)
      BY <2>1, <2>3 DEF BeginUpdateMe, Idle
    <2>4. CASE BeginLockedUser(r)
      BY <2>1, <2>4 DEF BeginLockedUser, Idle
    <2>5. CASE BeginNewBasicUser(r)
      BY <2>1, <2>5 DEF BeginNewBasicUser, Idle
    <2>6. CASE BeginNewUser(r)
      BY <2>1, <2>6 DEF BeginNewUser, Idle
    <2>7. CASE BeginOrganizationNewUser(r)
      BY ZenonT(60), <2>1, <2>7 DEF BeginOrganizationNewUser, Idle
    <2>8. CASE BeginUpdateUser(r)
      BY ZenonT(60), <2>1, <2>8 DEF BeginUpdateUser, Idle
    <2>9. CASE BeginOrganizationUpdateUser(r)
      BY ZenonT(60), <2>1, <2>9 DEF BeginOrganizationUpdateUser, Idle
    <2>10. CASE BeginRemoveUser(r)
      BY <2>1, <2>10 DEF BeginRemoveUser, Idle
    <2>11. CASE BeginOrganizationRemoveUser(r)
      BY <2>1, <2>11 DEF BeginOrganizationRemoveUser, Idle
    <2>12. CASE BeginUpdateOrganization(r)
      BY <2>1, <2>12 DEF BeginUpdateOrganization, Idle
    <2>13. CASE BeginCreateDevice(r)
      BY <2>1, <2>13 DEF BeginCreateDevice, Idle
    <2>14. CASE BeginPutMapping(r)
      BY <2>1, <2>14 DEF BeginPutMapping, Idle
    <2>15. CASE BeginRemoveMapping(r)
      BY <2>1, <2>15 DEF BeginRemoveMapping, Idle
    <2> QED BY <1>1, <2>2, <2>3, <2>4, <2>5, <2>6, <2>7, <2>8, <2>9,
               <2>10, <2>11, <2>12, <2>13, <2>14, <2>15
  <1>2. CASE BeginNewOrganization(r)
    <2>1. ASSUME NEW m, Begin(r, m), m.op = "NewOrganization", m.pc = "no.unique"
          PROVE  TidyInv'
      BY <1>a, <2>1 DEF Tidies, Minds, Cascading, CascadePCs, RemovalPCs, Removals,
                        CreatorPCs
    <2> QED BY <1>2, <2>1 DEF BeginNewOrganization, Idle
  <1>3. CASE BeginRemoveOrganization(r)
    <2>1. ASSUME NEW m, Begin(r, m), m.op = "RemoveOrganization", m.pc = "ro.get"
          PROVE  TidyInv'
      BY <1>a, <2>1 DEF Tidies, Minds, Cascading, CascadePCs, RemovalPCs, Removals,
                        CreatorPCs
    <2> QED BY <1>3, <2>1 DEF BeginRemoveOrganization, Idle
  <1>4. CASE BeginNewResource(r)
    <2>1. ASSUME NEW m, Begin(r, m), m.op = "NewResource", m.pc = "res.put",
                 OrgExists(m.org)
          PROVE  TidyInv'
      BY <1>a, <2>1 DEF Tidies, Minds, Cascading, CascadePCs, RemovalPCs, Removals,
                        CreatorPCs
    <2> QED BY <1>4, <2>1 DEF BeginNewResource, AuthorizedUser, Idle
  <1> QED BY <1>1, <1>2, <1>3, <1>4 DEF BeginRequest

----------------------------------------------------------------------------
(* The handlers of users leave the organizations alone. *)

MeLabels == {"me.get", "me.first", "me.config", "me.mappings", "me.orgs",
             "um.org", "um.facade", "um.raw"}
UserLabels == MeLabels \cup
    {"roles", "new.config", "uu.get", "ru.get", "ru.del", "lock.get", "fget",
     "fupd.get", "fdel.get"}

LEMMA UserOp ==
  ASSUME OneHandler, IInv, TidyInv, NEW r \in Requests, req[r].pc \in UserLabels
  PROVE  Plain(req[r]) /\ ~Cascading(req[r])
  BY TidyOfHandler DEF UserLabels, MeLabels, Minds, Plain, RemovalPCs, CascadePCs,
     Removals, CreatorPCs, Cascading

\* It goes on with the same operation, or with Me.
Plainly(r) ==
    \E m : /\ Go(r, m) /\ m.op \in {req[r].op, "Me", "none"}
           /\ m.pc \in UserLabels \cup {"idle", "update.get", "add.exists", "fadd.get"}

LEMMA PlainlyTidy ==
  ASSUME OneHandler, IInv, TidyInv, NEW r \in Requests, Plainly(r), Reads,
         req[r].pc \in UserLabels
  PROVE  TidyInv'
  <1>1. PICK m : /\ Go(r, m) /\ m.op \in {req[r].op, "Me", "none"}
                 /\ m.pc \in UserLabels \cup {"idle", "update.get", "add.exists",
                                              "fadd.get"}
    BY DEF Plainly
  <1>2. Plain(m)
    BY <1>1, UserOp DEF Plain, UserLabels, MeLabels, RemovalPCs, CascadePCs, Removals
  <1> QED BY <1>1, <1>2, UserOp, PlainStep

LEMMA ErrorPlainly ==
  ASSUME NEW r \in Requests, Error(r) \/ Finish(r), req[r].pc \in UserLabels
  PROVE  Plainly(r)
  <1>1. OnError(req[r]) = Idle
    BY DEF OnError, UserLabels, MeLabels
  <1>2. Go(r, Idle) /\ Idle.op = "none" /\ Idle.pc = "idle"
    BY <1>1 DEF Error, Finish, Idle
  <1> QED BY <1>2 DEF Plainly

LEMMA GotoPlainly ==
  ASSUME IInv, NEW r \in Requests, NEW label \in UserLabels, Goto(r, label)
  PROVE  Plainly(r)
  <1>1. LET m == [req[r] EXCEPT !.pc = label]
        IN  Go(r, m) /\ m.op = req[r].op /\ m.pc \in UserLabels
    BY LocalFacts DEF Goto, Local
  <1> QED BY <1>1 DEF Plainly

LEMMA PutPlainly ==
  ASSUME NEW r \in Requests, NEW u, NEW rec,
         \/ Go(r, Update(req[r], u, rec)) \/ Go(r, Add(req[r], rec))
         \/ Go(r, [Update(req[r], u, rec) EXCEPT !.pc = "fupd.get"])
         \/ Go(r, [Add(req[r], rec) EXCEPT !.pc = "fadd.get"])
  PROVE  Plainly(r)
  <1>1. ASSUME NEW m, Go(r, m), m.op = req[r].op,
               m.pc \in {"update.get", "add.exists", "fupd.get", "fadd.get"}
        PROVE  Plainly(r)
    BY <1>1 DEF Plainly, UserLabels
  <1>2. CASE Go(r, Update(req[r], u, rec))
    BY <1>1, <1>2, UpdateIs
  <1>3. CASE Go(r, Add(req[r], rec))
    BY <1>1, <1>3, AddIs
  <1>4. CASE Go(r, [Update(req[r], u, rec) EXCEPT !.pc = "fupd.get"])
    <2>1. LET m == [Update(req[r], u, rec) EXCEPT !.pc = "fupd.get"]
          IN  m.pc = "fupd.get" /\ m.op = req[r].op
      BY DEF Update, Idle
    <2> QED BY <1>1, <1>4, <2>1
  <1>5. CASE Go(r, [Add(req[r], rec) EXCEPT !.pc = "fadd.get"])
    <2>1. LET m == [Add(req[r], rec) EXCEPT !.pc = "fadd.get"]
          IN  m.pc = "fadd.get" /\ m.op = req[r].op
      BY DEF Add, Idle
    <2> QED BY <1>1, <1>5, <2>1
  <1> QED BY <1>2, <1>3, <1>4, <1>5

LEMMA MeTidy ==
  ASSUME OneHandler, IInv, TidyInv, NEW r \in Requests, MeStep(r)
  PROVE  TidyInv'
  <1> DEFINE l == req[r]
  <1>0. l \in Local
    BY LocalFacts
  <1>1. Reads /\ l.pc \in UserLabels
    BY DEF MeStep, UpdateMeOrg, UpdateMeFacade, UpdateMeRaw, MeGet, FirstUser,
           NewUsersConfig, MePrincipalMappings, MeOrganization, MeNewUser, At,
           UserLabels, MeLabels
  <1>2. \A label : Goto(r, label) /\ label \in MeLabels => Plainly(r)
    BY GotoPlainly DEF UserLabels
  <1>3. Error(r) \/ Finish(r) => Plainly(r)
    BY <1>1, ErrorPlainly
  <1>4. \A m : Go(r, m) /\ m.op = l.op /\ m.pc \in UserLabels => Plainly(r)
    BY DEF Plainly
  <1>5. CASE UpdateMeOrg(r)
    BY <1>5, <1>1, <1>2, <1>3, PlainlyTidy DEF UpdateMeOrg, MeLabels
  <1>6. CASE UpdateMeFacade(r)
    <2>1. CASE Go(r, AfterPut(l))
      <3>1. Plain(l)
        BY <1>1, UserOp
      <3> DEFINE m == AfterPut(l)
      <3>2. m.op \in {"Me", "none"} /\ m.pc \in {"me.get", "idle"}
        BY <3>1 DEF AfterPut, Plain, Removals, Idle
      <3> HIDE DEF m
      <3>3. Plainly(r)
        BY <2>1, <3>2 DEF Plainly, UserLabels, MeLabels, m
      <3> QED BY <1>1, <3>3, PlainlyTidy
    <2> QED BY <1>6, <1>1, <1>2, <2>1, PlainlyTidy DEF UpdateMeFacade, MeLabels
  <1>7. CASE UpdateMeRaw(r)
    BY <1>7, <1>1, <1>3, PutPlainly, PlainlyTidy DEF UpdateMeRaw
  <1>8. CASE MeGet(r)
    BY <1>8, <1>1, <1>2, <1>3, PutPlainly, PlainlyTidy DEF MeGet, MeLabels
  <1>9. ASSUME NEW b, Go(r, AfterNewUsers(l, b))
        PROVE  Plainly(r)
    <2>1. LET m == [l EXCEPT !.pc = "me.mappings", !.super = b]
          IN  m.op = l.op /\ m.pc \in UserLabels
      BY <1>0 DEF Local, UserLabels, MeLabels
    <2> QED BY <1>4, <1>9, <2>1, PutPlainly DEF AfterNewUsers
  <1>10. CASE FirstUser(r)
    BY <1>10, <1>1, <1>2, <1>9, PlainlyTidy DEF FirstUser, MeLabels
  <1>11. CASE NewUsersConfig(r)
    BY <1>11, <1>1, <1>9, PlainlyTidy DEF NewUsersConfig
  <1>12. CASE MePrincipalMappings(r)
    <2>1. \A X : LET m == [l EXCEPT !.pc = "me.orgs", !.asked = X]
                 IN  m.op = l.op /\ m.pc \in UserLabels
      BY <1>0 DEF Local, UserLabels, MeLabels
    <2> QED BY <1>12, <1>1, <1>4, <2>1, PlainlyTidy DEF MePrincipalMappings
  <1>13. CASE MeOrganization(r)
    <2>1. \A X, Y : LET m == [l EXCEPT !.asked = X, !.grants = Y]
                        n == [l EXCEPT !.asked = X]
                    IN  /\ m.op = l.op /\ m.pc \in UserLabels
                        /\ n.op = l.op /\ n.pc \in UserLabels
      BY <1>0, <1>1 DEF Local
    <2> QED BY <1>13, <1>1, <1>4, <2>1, PlainlyTidy DEF MeOrganization
  <1>14. CASE MeNewUser(r)
    BY <1>14, <1>1, <1>3, PutPlainly, PlainlyTidy DEF MeNewUser
  <1> QED BY <1>5, <1>6, <1>7, <1>8, <1>10, <1>11, <1>12, <1>13, <1>14 DEF MeStep

ReadsUsers(r) ==
    \/ NewUserConfig(r) \/ UpdateUserGet(r) \/ ValidRole(r)
    \/ CreateFromRequest(r) \/ EditFromRequest(r) \/ NewBasicUserGet(r)
    \/ RemoveUserGet(r) \/ LockedUserGet(r)
    \/ FacadeGet(r) \/ FacadeUpdate(r) \/ FacadeDelete(r)

LEMMA ReadsUsersTidy ==
  ASSUME OneHandler, IInv, TidyInv, NEW r \in Requests, ReadsUsers(r)
  PROVE  TidyInv'
  <1> DEFINE l == req[r]
  <1>0. l \in Local
    BY LocalFacts
  <1>1. Reads /\ l.pc \in UserLabels
    BY DEF ReadsUsers, NewUserConfig, UpdateUserGet, ValidRole, CreateFromRequest,
           EditFromRequest, NewBasicUserGet, RemoveUserGet, LockedUserGet,
           FacadeGet, FacadeUpdate, FacadeDelete, At, UserLabels
  <1> SUFFICES Plainly(r)
    BY <1>1, PlainlyTidy
  <1>2. \A label \in UserLabels : Goto(r, label) => Plainly(r)
    BY GotoPlainly
  <1>3. Error(r) => Plainly(r)
    BY <1>1, ErrorPlainly
  <1>4. \A m : Go(r, m) /\ m.op = l.op /\ m.pc \in UserLabels => Plainly(r)
    BY DEF Plainly
  <1>5. \A X, Y : LET m == [l EXCEPT !.pc = "roles", !.super = X]
                      n == [l EXCEPT !.pc = "roles", !.rec = X]
                      j == [l EXCEPT !.asked = X, !.grants = Y]
                      k == [l EXCEPT !.asked = X]
                  IN  /\ m.op = l.op /\ m.pc = "roles"
                      /\ n.op = l.op /\ n.pc = "roles"
                      /\ j.op = l.op /\ j.pc = l.pc
                      /\ k.op = l.op /\ k.pc = l.pc
    BY <1>0 DEF Local
  <1>6. /\ "roles" \in UserLabels /\ "me.first" \in UserLabels
        /\ "ru.del" \in UserLabels /\ "fdel.get" \in UserLabels
    BY DEF UserLabels, MeLabels
  <1>7. CASE NewUserConfig(r)
    BY <1>7, <1>4, <1>5, <1>6 DEF NewUserConfig
  <1>8. CASE UpdateUserGet(r)
    BY <1>8, <1>3, <1>4, <1>5, <1>6 DEF UpdateUserGet
  <1>9. CASE ValidRole(r)
    BY <1>9, <1>1, <1>3, <1>4, <1>5 DEF ValidRole
  <1>10. CASE CreateFromRequest(r)
    BY <1>10, <1>3, PutPlainly DEF CreateFromRequest
  <1>11. CASE EditFromRequest(r)
    BY <1>11, <1>3, PutPlainly DEF EditFromRequest
  <1>12. CASE NewBasicUserGet(r) \/ RemoveUserGet(r)
    BY <1>12, <1>2, <1>3, <1>6 DEF NewBasicUserGet, RemoveUserGet
  <1>13. CASE LockedUserGet(r) \/ FacadeUpdate(r) \/ FacadeDelete(r)
    BY <1>13, <1>3, PutPlainly DEF LockedUserGet, FacadeUpdate, FacadeDelete
  <1>14. CASE FacadeGet(r)
    BY <1>14, <1>2, <1>3, <1>4, <1>5, <1>6 DEF FacadeGet
  <1> QED BY <1>7, <1>8, <1>9, <1>10, <1>11, <1>12, <1>13, <1>14 DEF ReadsUsers

\* A handler that gives up outside a cascade; the creator of an organization
\* deletes it, which has no devices yet.
LEMMA ErrorTidy ==
  ASSUME OneHandler, IInv, TidyInv, NEW r \in Requests, Error(r), Reads,
         ~Cascading(req[r])
  PROVE  TidyInv'
  <1> DEFINE l == req[r]
  <1>1. CASE OnError(l) = Idle
    BY <1>1, IdlePlain, PlainStep DEF Error
  <1>2. CASE l.op = "NewOrganization" /\ l.pc \in CreatorPCs
    <2> DEFINE m == [Idle EXCEPT !.op = "Cleanup", !.pc = "odel.get", !.org = l.org]
    <2>1. m.op = "Cleanup" /\ m.pc = "odel.get" /\ m.org = l.org
      BY DEF Idle
    <2>2. Go(r, m)
      BY <1>2 DEF Error, OnError, CreatorPCs
    <2> HIDE DEF m
    <2>3. l.org \notin devices
      BY <1>2, TidyOfHandler DEF Minds
    <2>4. Tidies(m) /\ Minds(m)
      BY <2>1, <2>3 DEF Tidies, Minds, Cascading, CascadePCs, RemovalPCs, Removals,
                        CreatorPCs
    <2> QED BY <2>2, <2>4, TidyReads
  <1> QED BY <1>1, <1>2 DEF OnError, CreatorPCs

\* The facade's Add, and what the stores check before they write.
LEMMA CreatorStep ==
  ASSUME OneHandler, IInv, TidyInv, NEW r \in Requests, NEW m, Go(r, m), Reads,
         m.op = req[r].op, m.org = req[r].org, m.pc \in CreatorPCs,
         req[r].pc \in CreatorPCs, req[r].op \notin Removals
  PROVE  TidyInv'
  <1>1. ~Cascading(req[r]) /\ (req[r].op = "NewOrganization" => m.org \notin devices)
    BY TidyOfHandler DEF Minds, Cascading, CreatorPCs, CascadePCs
  <1>2. Tidies(m) /\ Minds(m)
    BY <1>1 DEF Tidies, Minds, Cascading, CreatorPCs, CascadePCs, RemovalPCs, Removals
  <1> QED BY <1>1, <1>2, TidyReads

LEMMA CheckTidy ==
  ASSUME OneHandler, IInv, AloneInv, TidyInv, NEW r \in Requests,
         FacadeAdd(r) \/ UpdateGet(r) \/ AddExists(r)
  PROVE  TidyInv'
  <1> DEFINE l == req[r]
  <1>0. l \in Local /\ Tidies(l) /\ Minds(l) /\ Knows(l) /\ Reads
    BY TidyOfHandler, KnowsOfHandler DEF FacadeAdd, UpdateGet, AddExists
  <1>1. CASE FacadeAdd(r) \/ AddExists(r)
    <2>1. l.op \notin Removals /\ l.pc \in CreatorPCs /\ ~Cascading(l)
      BY <1>0, <1>1 DEF FacadeAdd, AddExists, At, Minds, RemovalPCs, CascadePCs,
                        CreatorPCs, Cascading
    <2>2. ASSUME NEW m, Go(r, m), m.op = l.op, m.org = l.org,
                 m.pc \in {"update.get", "add.exists", "add.put"}
          PROVE  TidyInv'
      BY <1>0, <2>1, <2>2, CreatorStep DEF CreatorPCs
    <2>3. ASSUME NEW rec, Go(r, Add(l, rec)) PROVE TidyInv'
      BY <2>2, <2>3, AddIs
    <2>4. ASSUME NEW u, NEW rec, Go(r, Update(l, u, rec)) PROVE TidyInv'
      BY <2>2, <2>4, UpdateIs
    <2>5. LET m == [l EXCEPT !.pc = "add.put"]
          IN  m.op = l.op /\ m.org = l.org /\ m.pc = "add.put"
      BY <1>0 DEF Local
    <2>6. Goto(r, "add.put") => TidyInv'
      BY <2>2, <2>5 DEF Goto
    <2>7. Error(r) => TidyInv'
      BY <1>0, <2>1, ErrorTidy
    <2> QED BY <1>1, <2>3, <2>4, <2>6, <2>7 DEF FacadeAdd, AddExists
  <1>2. CASE UpdateGet(r)
    <2> DEFINE m == [l EXCEPT !.pc = "update.put"]
    <2>1. l.pc = "update.get" /\ Present(l.uid)
      BY <1>0, <1>2 DEF UpdateGet, At, Knows, Replaces
    <2>2. Go(r, m)
      BY <1>2, <2>1 DEF UpdateGet, Goto
    <2>3. /\ m.pc = "update.put" /\ m.op = l.op /\ m.org = l.org /\ m.uid = l.uid
          /\ m.rec = l.rec /\ m.usersLeft = l.usersLeft
      BY <1>0 DEF Local
    <2> HIDE DEF m
    <2>4. Cascading(m) <=> Cascading(l)
      BY <2>1, <2>3 DEF Cascading, CascadePCs
    <2>5. Tidies(m)
      BY <1>0, <2>1, <2>3, <2>4 DEF Tidies
    <2>6. Minds(m)
      BY <1>0, <2>1, <2>3 DEF Minds, CreatorPCs, RemovalPCs, CascadePCs
    <2> QED BY <1>0, <2>2, <2>3, <2>4, <2>5, <2>6, TidyReads
  <1> QED BY <1>1, <1>2

\* A step that writes users: it adds references to organizations that exist.
LEMMA UsersWritten ==
  ASSUME OneHandler, IInv, TidyInv, NEW r \in Requests, NEW m, Go(r, m),
         UNCHANGED <<orgs, orgSeq, mappings, owned, devices>>,
         \A u \in Stored', o \in OrgIds : users'[u].roles[o] > 0 =>
           OrgExists(o) \/ (u \in Stored /\ users[u].roles[o] > 0),
         Tidies(m)', Minds(m)',
         Cascading(req[r]) => Cascading(m) /\ m.org = req[r].org
  PROVE  TidyInv'
  <1>1. \A o \in OrgIds : OrgExists(o)' => o <= orgSeq'
    BY DEF TidyInv, OrgExists
  <1>2. \A o \in OrgIds : References(o)' =>
          OrgExists(o)' \/ (Cascading(m) /\ m.org = o)
    <2> TAKE o \in OrgIds
    <2> HAVE References(o)'
    <2>1. References(o) \/ OrgExists(o)
      BY DEF References
    <2> QED BY <2>1, TidyOfHandler DEF OrgExists
  <1> QED BY <1>1, <1>2, TidyStep

\* The same when the handler goes on with something else than organizations.
LEMMA UsersWrittenPlain ==
  ASSUME OneHandler, IInv, TidyInv, NEW r \in Requests, NEW m, Go(r, m),
         UNCHANGED <<orgs, orgSeq, mappings, owned, devices>>,
         \A u \in Stored', o \in OrgIds : users'[u].roles[o] > 0 =>
           OrgExists(o) \/ (u \in Stored /\ users[u].roles[o] > 0),
         Plain(m), ~Cascading(req[r])
  PROVE  TidyInv'
  BY PlainFacts, UsersWritten

LEMMA UpdatePutTidy ==
  ASSUME OneHandler, IInv, AloneInv, TidyInv, NEW r \in Requests, UpdatePut(r)
  PROVE  TidyInv'
  <1> DEFINE l == req[r]
  <1>0. /\ l \in Local /\ Tidies(l) /\ Minds(l) /\ l.pc = "update.put"
        /\ l.uid \in UserIds /\ l.rec \in UserRecord /\ Replaces(l) /\ l.org \in OrgIds
    BY TidyOfHandler, KnowsOfHandler DEF UpdatePut, At, Sane, Knows, Local
  <1>1. /\ users' = [users EXCEPT ![l.uid] = l.rec]
        /\ users \in [UserIds -> UserRecord \cup {Absent}]
        /\ Go(r, AfterPut(l)) /\ UNCHANGED <<orgs, orgSeq, mappings, owned, devices>>
    BY DEF UpdatePut, IInv, TypeOK, StoreTypeOK
  <1>2. l.uid \in Stored /\ Stored' = Stored
    BY <1>0, <1>1, TenancyAssumption DEF Stored, Replaces, Present
  <1>3. ASSUME NEW u \in Stored', NEW o \in OrgIds, users'[u].roles[o] > 0
        PROVE  OrgExists(o) \/ (u \in Stored /\ users[u].roles[o] > 0)
    <2>1. CASE u # l.uid
      BY <1>1, <1>2, <1>3, <2>1 DEF Stored
    <2>2. CASE u = l.uid
      <3>1. l.rec.roles[o] \in Nat /\ l.rec.roles[o] > 0
        BY <1>0, <1>1, <1>3, <2>2 DEF UserRecord, Roles
      <3>2. users[u].roles[o] \in {0, 1}
        BY <1>2, <2>2, RoleNat
      <3>3. CASE users[u].roles[o] = 0
        BY <1>0, <2>2, <3>1, <3>3 DEF Replaces
      <3> QED BY <1>2, <2>2, <3>2, <3>3
    <2> QED BY <2>1, <2>2
  <1>4. CASE l.op \notin Removals
    <2> DEFINE m == AfterPut(l)
    <2>1. m.op \in {"Me", "none"} /\ m.pc \in {"me.get", "idle"}
      BY <1>4 DEF AfterPut, Removals, Idle
    <2> HIDE DEF m
    <2>2. Plain(m)
      BY <2>1 DEF Plain, Removals, RemovalPCs, CascadePCs
    <2>3. ~Cascading(l)
      BY <1>0, <1>4 DEF Cascading, CascadePCs
    <2>4. Go(r, m)
      BY <1>1 DEF m
    <2> QED BY <1>1, <1>3, <2>2, <2>3, <2>4, UsersWrittenPlain
  <1>5. CASE l.op \in Removals
    <2> DEFINE m == [l EXCEPT !.pc = "casc.users", !.uid = 0, !.rec = Absent]
    <2>1. Go(r, m)
      BY <1>1, <1>5 DEF AfterPut, Removals
    <2>2. m.pc = "casc.users" /\ m.op = l.op /\ m.org = l.org
          /\ m.usersLeft = l.usersLeft
      BY <1>0 DEF Local
    <2>3. Cascading(l)
      BY <1>0, <1>5 DEF Cascading
    <2>4. ASSUME NEW u \in Stored, users'[u].roles[l.org] > 0
          PROVE  u \in l.usersLeft
      <3>1. u # l.uid
        BY <1>0, <1>1, <2>3, <2>4 DEF Tidies
      <3>2. u \in Members(l.org)
        BY <1>1, <2>4, <3>1 DEF Members, Stored
      <3> QED BY <1>0, <2>3, <3>1, <3>2 DEF Tidies
    <2>5. ASSUME NEW n, Go(r, n), n.pc = "casc.users", n.op = l.op,
                 n.org = l.org, n.usersLeft = l.usersLeft
          PROVE  TidyInv'
      <3>1. Members(n.org)' \subseteq l.usersLeft /\ l.usersLeft \subseteq Stored'
        BY <1>0, <1>2, <2>3, <2>4, <2>5 DEF Members, Tidies
      <3>2. /\ ~OrgExists(n.org)' /\ n.org \notin devices'
            /\ \A k \in Kinds : n.org \notin owned'[k]
        BY <1>0, <1>1, <2>3, <2>5 DEF Tidies, OrgExists
      <3>3. Tidies(n)'
        BY <2>5, <3>1, <3>2 DEF Tidies
      <3>4. Minds(n)'
        BY <1>5, <2>5 DEF Minds, RemovalPCs, CascadePCs, Removals, CreatorPCs
      <3>5. Cascading(n)
        BY <2>5 DEF Cascading, CascadePCs
      <3> QED BY <1>1, <1>3, <2>5, <3>3, <3>4, <3>5, UsersWritten
    <2> QED BY <2>1, <2>2, <2>5
  <1> QED BY <1>4, <1>5

LEMMA AddPutTidy ==
  ASSUME OneHandler, IInv, AloneInv, TidyInv, NEW r \in Requests, AddPut(r)
  PROVE  TidyInv'
  <1> DEFINE l == req[r]
  <1>0. l.pc = "add.put" /\ ~Cascading(l) /\ l.rec \in UserRecord /\ MayCreate(l)
    BY KnowsOfHandler DEF AddPut, At, Cascading, CascadePCs, Sane, Knows
  <1>1. CASE Error(r) /\ UNCHANGED <<users, userSeq, everSuper>>
    <2>1. Reads
      BY <1>1 DEF AddPut, Reads, store
    <2> QED BY <1>0, <1>1, <2>1, ErrorTidy
  <1>2. CASE users' = [users EXCEPT ![userSeq + 1] = l.rec] /\ Finish(r)
    <2>1. UNCHANGED <<orgs, orgSeq, mappings, owned, devices>>
      BY DEF AddPut
    <2>2. \A u \in Stored', o \in OrgIds : users'[u].roles[o] > 0 =>
            OrgExists(o) \/ (u \in Stored /\ users[u].roles[o] > 0)
      BY <1>0, <1>2 DEF MayCreate, Stored, IInv, TypeOK, StoreTypeOK
    <2> QED BY <1>0, <1>2, <2>1, <2>2, IdlePlain, UsersWrittenPlain DEF Finish
  <1> QED BY <1>1, <1>2 DEF AddPut

LEMMA UsersTidy ==
  ASSUME OneHandler, IInv, AloneInv, TidyInv, NEW r \in Requests, UsersStep(r)
  PROVE  TidyInv'
  <1>1. CASE RemoveUserDelete(r)
    <2>1. ~Cascading(req[r])
      BY <1>1 DEF RemoveUserDelete, At, Cascading, CascadePCs
    <2>2. \A u \in Stored' : u \in Stored /\ users'[u] = users[u]
      BY <1>1 DEF RemoveUserDelete, Stored, IInv, TypeOK, StoreTypeOK
    <2> QED BY <1>1, <2>1, <2>2, IdlePlain, UsersWrittenPlain
            DEF RemoveUserDelete, Finish
  <1> QED BY <1>1, ReadsUsersTidy, CheckTidy, UpdatePutTidy, AddPutTidy
          DEF UsersStep, ReadsUsers

----------------------------------------------------------------------------
(* The handlers of organizations. *)

LEMMA NewOrganizationTidy ==
  ASSUME OneHandler, IInv, AloneInv, TidyInv, NEW r \in Requests,
         NewOrganizationUnique(r) \/ NewOrganizationPut(r)
  PROVE  TidyInv'
  <1> DEFINE l == req[r]
  <1>0. /\ l \in Local /\ l.pc \in {"no.unique", "no.put"} /\ l.op = "NewOrganization"
        /\ ~Cascading(l)
    BY KnowsOfHandler DEF NewOrganizationUnique, NewOrganizationPut, At, Knows,
                          Cascading, CascadePCs
  <1>1. CASE NewOrganizationUnique(r)
    <2> DEFINE m == [l EXCEPT !.pc = "no.put"]
    <2>1. m.pc = "no.put" /\ m.op = "NewOrganization"
      BY <1>0 DEF Local
    <2> HIDE DEF m
    <2>2. Tidies(m) /\ Minds(m)
      BY <2>1 DEF Tidies, Minds, Cascading, CascadePCs, RemovalPCs, Removals, CreatorPCs
    <2>3. Go(r, m) => TidyInv'
      BY <1>0, <1>1, <2>2, TidyReads DEF NewOrganizationUnique
    <2> QED BY <1>0, <1>1, <2>3, ErrorTidy DEF NewOrganizationUnique, Goto, m
  <1>2. CASE NewOrganizationPut(r) /\ ~(orgSeq < MaxOrgs)
    <2>1. Error(r) /\ Reads
      BY <1>2 DEF NewOrganizationPut, Reads, store
    <2> QED BY <1>0, <2>1, ErrorTidy
  <1>3. CASE NewOrganizationPut(r) /\ orgSeq < MaxOrgs
    <2> DEFINE id == orgSeq + 1
               rec == [l.rec EXCEPT !.roles = RolesIn({id})]
               m == [Add(l, rec) EXCEPT !.pc = "fadd.get", !.org = id]
    <2>1. /\ orgs' = [orgs EXCEPT ![id] = l.oname] /\ orgSeq' = id /\ Go(r, m)
          /\ UNCHANGED <<users, mappings, owned, devices>>
      BY <1>3, TenancyAssumption DEF NewOrganizationPut
    <2>2. id \in OrgIds /\ id \in Nat /\ orgSeq \in Nat /\ OrgIds \subseteq Nat
      BY <1>3, TenancyAssumption DEF IInv, TypeOK, StoreTypeOK
    <2>3. ~OrgExists(id)
      BY <2>2 DEF TidyInv
    <2>4. id \notin devices
      BY <1>0, <2>2, <2>3, TidyOfHandler DEF References
    <2>5. l.oname # Absent /\ orgs \in [OrgIds -> OrgNames \cup {Absent}]
      BY <1>3, KnowsOfHandler, TenancyAssumption
         DEF NewOrganizationPut, At, Sane, IInv, TypeOK, StoreTypeOK
    <2> HIDE DEF id, rec
    <2>6. \A o \in OrgIds : /\ OrgExists(o)' <=> OrgExists(o) \/ o = id
                            /\ References(o)' <=> References(o)
      BY <2>1, <2>2, <2>5 DEF OrgExists, References, Stored
    <2>7. \A o \in OrgIds : OrgExists(o)' => o <= orgSeq'
      BY <2>1, <2>2, <2>6 DEF TidyInv, id
    <2>8. m.pc = "fadd.get" /\ m.op = "NewOrganization" /\ m.org = id
      BY <1>0 DEF Add, Idle
    <2>9. ASSUME NEW n, Go(r, n), n.pc = "fadd.get", n.op = "NewOrganization",
                 n.org = id
          PROVE  TidyInv'
      <3>1. Tidies(n)' /\ Minds(n)'
        BY <2>1, <2>4, <2>9 DEF Tidies, Minds, Cascading, CascadePCs, RemovalPCs,
                                Removals, CreatorPCs
      <3>2. \A o \in OrgIds : References(o)' =>
              OrgExists(o)' \/ (Cascading(n) /\ n.org = o)
        BY <1>0, <2>6, TidyOfHandler
      <3> QED BY <2>7, <2>9, <3>1, <3>2, TidyStep
    <2> QED BY <2>1, <2>8, <2>9
  <1> QED BY <1>1, <1>2, <1>3

LEMMA UpdateOrganizationTidy ==
  ASSUME OneHandler, IInv, AloneInv, TidyInv, NEW r \in Requests,
         \/ UpdateOrganizationGet(r) \/ UpdateOrganizationKvGet(r)
         \/ UpdateOrganizationUnique(r) \/ UpdateOrganizationPut(r)
  PROVE  TidyInv'
  <1> DEFINE l == req[r]
             Uo == {"uo.get", "uo.kvget", "uo.unique", "uo.put"}
  <1>0. /\ l \in Local /\ l.pc \in Uo /\ ~Cascading(l)
        /\ l.op \notin Removals \cup {"NewOrganization"}
    BY TidyOfHandler DEF UpdateOrganizationGet, UpdateOrganizationKvGet,
         UpdateOrganizationUnique, UpdateOrganizationPut, At, Minds, Cascading,
         CascadePCs, RemovalPCs, CreatorPCs
  <1>1. ASSUME NEW m, Go(r, m), Reads, m.op = l.op, m.pc \in Uo
        PROVE  TidyInv'
    <2>1. Plain(m)
      BY <1>0, <1>1 DEF Plain, RemovalPCs, CascadePCs
    <2> QED BY <1>0, <1>1, <2>1, PlainStep
  <1>2. \A x, n : LET m == [l EXCEPT !.pc = x, !.oname = n]
                      k == [l EXCEPT !.pc = x]
                  IN  m.op = l.op /\ m.pc = x /\ k.op = l.op /\ k.pc = x
    BY <1>0 DEF Local
  <1>3. CASE UpdateOrganizationGet(r)
    <2> DEFINE name == IF l.oname = Absent THEN orgs[l.org] ELSE l.oname
               m == [l EXCEPT !.pc = "uo.kvget", !.oname = name]
    <2>0. Reads /\ (Error(r) \/ Go(r, m))
      BY <1>3 DEF UpdateOrganizationGet
    <2> HIDE DEF name
    <2>1. Go(r, m) => TidyInv'
      BY <1>1, <1>2, <2>0
    <2> QED BY <1>0, <2>0, <2>1, ErrorTidy
  <1>4. CASE UpdateOrganizationKvGet(r) \/ UpdateOrganizationUnique(r)
    <2>1. ASSUME NEW x \in Uo, Goto(r, x), Reads PROVE TidyInv'
      <3>1. \A m : Go(r, m) /\ m.op = l.op /\ m.pc \in Uo => TidyInv'
        BY <1>1, <2>1
      <3> QED BY <1>2, <2>1, <3>1 DEF Goto
    <2>2. Error(r) /\ Reads => TidyInv'
      BY <1>0, ErrorTidy
    <2> QED BY <1>4, <2>1, <2>2 DEF UpdateOrganizationKvGet, UpdateOrganizationUnique
  <1>5. CASE UpdateOrganizationPut(r)
    <2>1. /\ orgs' = [orgs EXCEPT ![l.org] = l.oname] /\ Go(r, Idle)
          /\ UNCHANGED <<users, orgSeq, mappings, owned, devices>>
      BY <1>5 DEF UpdateOrganizationPut, Finish
    <2>2. l.oname # Absent /\ OrgExists(l.org)
      BY <1>5, KnowsOfHandler, TenancyAssumption
         DEF UpdateOrganizationPut, At, Sane, Knows
    <2>3. \A o \in OrgIds : /\ OrgExists(o)' <=> OrgExists(o)
                            /\ References(o)' <=> References(o)
      BY <2>1, <2>2 DEF OrgExists, References, Stored, IInv, TypeOK, StoreTypeOK
    <2>4. \A o \in OrgIds : OrgExists(o)' => o <= orgSeq'
      BY <2>1, <2>3 DEF TidyInv
    <2>5. \A o \in OrgIds : References(o)' =>
            OrgExists(o)' \/ (Cascading(Idle) /\ Idle.org = o)
      BY <1>0, <2>3, TidyOfHandler
    <2>6. Tidies(Idle)' /\ Minds(Idle)'
      BY IdlePlain, PlainFacts
    <2> QED BY <2>1, <2>4, <2>5, <2>6, TidyStep
  <1> QED BY <1>3, <1>4, <1>5

LEMMA RemoveOrganizationTidy ==
  ASSUME OneHandler, IInv, AloneInv, TidyInv, NEW r \in Requests,
         \/ RemoveOrganizationGet(r) \/ RemoveOrganizationDevices(r)
         \/ DeleteOrganizationGet(r) \/ DeleteOrganizationPut(r)
  PROVE  TidyInv'
  <1> DEFINE l == req[r]
  <1>0. /\ l \in Local /\ l.op \in Removals /\ ~Cascading(l) /\ Minds(l)
        /\ l.org \in OrgIds
    BY TidyOfHandler DEF RemoveOrganizationGet, RemoveOrganizationDevices,
         DeleteOrganizationGet, DeleteOrganizationPut, At, Minds, Cascading,
         CascadePCs, RemovalPCs, Local
  <1>1. \A x : LET m == [l EXCEPT !.pc = x]
               IN  m.pc = x /\ m.op = l.op /\ m.org = l.org
    BY <1>0 DEF Local
  <1>2. ASSUME NEW x \in {"ro.devices", "odel.get", "odel.put"}, Goto(r, x), Reads,
               x # "ro.devices" => l.org \notin devices
        PROVE  TidyInv'
    <2> DEFINE m == [l EXCEPT !.pc = x]
    <2>1. m.pc = x /\ m.op = l.op /\ m.org = l.org
      BY <1>1
    <2> HIDE DEF m
    <2>2. Tidies(m) /\ Minds(m)
      BY <1>0, <1>2, <2>1 DEF Tidies, Minds, Cascading, CascadePCs, RemovalPCs,
                              Removals, CreatorPCs
    <2> QED BY <1>0, <1>2, <2>2, TidyReads DEF Goto, m
  <1>3. Error(r) /\ Reads => TidyInv'
    BY <1>0, ErrorTidy
  <1>4. CASE RemoveOrganizationGet(r) \/ RemoveOrganizationDevices(r)
    BY <1>2, <1>3, <1>4 DEF RemoveOrganizationGet, RemoveOrganizationDevices
  <1>5. CASE DeleteOrganizationGet(r)
    <2>1. l.org \notin devices
      BY <1>0, <1>5 DEF DeleteOrganizationGet, At, Minds
    <2> QED BY <1>2, <1>3, <1>5, <2>1 DEF DeleteOrganizationGet
  <1>6. CASE DeleteOrganizationPut(r)
    <2> DEFINE m == [l EXCEPT !.pc = "casc.res", !.kind = 1]
    <2>1. /\ orgs' = [orgs EXCEPT ![l.org] = Absent] /\ Go(r, m)
          /\ UNCHANGED <<users, orgSeq, mappings, owned, devices>>
      BY <1>6 DEF DeleteOrganizationPut
    <2>2. l.org \notin devices
      BY <1>0, <1>6 DEF DeleteOrganizationPut, At, Minds
    <2>3. \A o \in OrgIds : /\ OrgExists(o)' <=> OrgExists(o) /\ o # l.org
                            /\ References(o)' <=> References(o)
      BY <1>0, <2>1 DEF OrgExists, References, Stored, IInv, TypeOK, StoreTypeOK
    <2>4. \A o \in OrgIds : OrgExists(o)' => o <= orgSeq'
      BY <2>1, <2>3 DEF TidyInv
    <2>5. m.pc = "casc.res" /\ m.kind = 1 /\ m.op = l.op /\ m.org = l.org
      BY <1>0 DEF Local
    <2>6. ASSUME NEW n, Go(r, n), n.pc = "casc.res", n.kind = 1, n.op = l.op,
                 n.org = l.org
          PROVE  TidyInv'
      <3>1. Cascading(n)
        BY <2>6 DEF Cascading, CascadePCs
      <3>2. ~OrgExists(n.org)' /\ n.org \notin devices'
        BY <1>0, <2>1, <2>2, <2>3, <2>6
      <3>3. \A k \in Kinds : ~(k < n.kind)
        BY <2>6, TenancyAssumption DEF Kinds
      <3>4. Tidies(n)'
        BY <2>6, <3>2, <3>3 DEF Tidies
      <3>5. Minds(n)'
        BY <1>0, <2>6 DEF Minds, RemovalPCs, CascadePCs, Removals, CreatorPCs
      <3>6. \A o \in OrgIds : References(o)' =>
              OrgExists(o)' \/ (Cascading(n) /\ n.org = o)
        BY <1>0, <2>3, <2>6, <3>1, TidyOfHandler
      <3> QED BY <2>4, <2>6, <3>4, <3>5, <3>6, TidyStep
    <2> QED BY <2>1, <2>5, <2>6
  <1> QED BY <1>4, <1>5, <1>6

\* A step of the cascade that only reads: one removal, one organization.
LEMMA CascadeReads ==
  ASSUME OneHandler, IInv, TidyInv, NEW r \in Requests, NEW m, Go(r, m), Reads,
         Cascading(req[r]), Cascading(m), m.op = req[r].op, m.org = req[r].org,
         Tidies(m)
  PROVE  TidyInv'
  <1>1. m.op \in Removals
    BY TidyOfHandler DEF Cascading, Minds, CascadePCs, RemovalPCs
  <1>2. Minds(m)
    BY <1>1 DEF Minds, Cascading, CascadePCs, RemovalPCs, Removals, CreatorPCs
  <1> QED BY <1>2, TidyReads

LEMMA CascadeResourcesTidy ==
  ASSUME OneHandler, IInv, TidyInv, NEW r \in Requests,
         CascadeList(r) \/ CascadeDelete(r) \/ CascadeListUsers(r)
  PROVE  TidyInv'
  <1> DEFINE l == req[r]
  <1>0. /\ l \in Local /\ l.pc \in {"casc.res", "casc.resdel"} /\ Tidies(l) /\ Minds(l)
        /\ Cascading(l) /\ l.kind \in Nat /\ l.org \in OrgIds
    BY TidyOfHandler DEF CascadeList, CascadeDelete, CascadeListUsers, At, Cascading,
                         CascadePCs, Local
  <1>1. /\ ~OrgExists(l.org) /\ l.org \notin devices /\ l.kind >= 1
        /\ \A k \in Kinds : k < l.kind => l.org \notin owned[k]
    BY <1>0 DEF Tidies
  <1>2. \A x, k, X :
          /\ LET m == [l EXCEPT !.pc = x]
             IN  m.pc = x /\ m.op = l.op /\ m.org = l.org /\ m.kind = l.kind
          /\ LET m == [l EXCEPT !.kind = k]
             IN  m.pc = l.pc /\ m.op = l.op /\ m.org = l.org /\ m.kind = k
          /\ LET m == [l EXCEPT !.pc = x, !.kind = k]
             IN  m.pc = x /\ m.op = l.op /\ m.org = l.org /\ m.kind = k
          /\ LET m == [l EXCEPT !.pc = x, !.usersLeft = X]
             IN  m.pc = x /\ m.op = l.op /\ m.org = l.org /\ m.usersLeft = X
    BY <1>0 DEF Local
  <1>3. \A k \in Kinds : k \in Nat /\ (k < l.kind + 1 => k < l.kind \/ k = l.kind)
    BY <1>0, TenancyAssumption DEF Kinds
  <1>4. CASE CascadeList(r)
    <2>1. ASSUME NEW m, Go(r, m), m.pc \in {"casc.res", "casc.resdel"}, m.op = l.op,
                 m.org = l.org, m.kind \in Nat, m.kind >= 1,
                 \A k \in Kinds : k < m.kind => l.org \notin owned[k],
                 m.pc = "casc.resdel" => l.org \in owned[m.kind]
          PROVE  TidyInv'
      <3>1. Tidies(m)
        BY <1>1, <2>1 DEF Tidies
      <3>2. Cascading(m)
        BY <2>1 DEF Cascading, CascadePCs
      <3> QED BY <1>0, <1>4, <2>1, <3>1, <3>2, CascadeReads DEF CascadeList
    <2>2. CASE l.org \in owned[l.kind] /\ Goto(r, "casc.resdel")
      <3> DEFINE m == [l EXCEPT !.pc = "casc.resdel"]
      <3>1. Go(r, m)
        BY <2>2 DEF Goto
      <3>2. m.pc = "casc.resdel" /\ m.op = l.op /\ m.org = l.org /\ m.kind = l.kind
        BY <1>2
      <3> HIDE DEF m
      <3> QED BY <1>0, <1>1, <2>1, <2>2, <3>1, <3>2
    <2>3. CASE l.org \notin owned[l.kind] /\ Go(r, [l EXCEPT !.kind = @ + 1])
      <3> DEFINE n == l.kind + 1
                 m == [l EXCEPT !.kind = n]
      <3>1. n \in Nat /\ n >= 1 /\ \A k \in Kinds : k < n => l.org \notin owned[k]
        BY <1>0, <1>1, <1>3, <2>3
      <3> HIDE DEF n
      <3>2. l.pc = "casc.res"
        BY <1>4 DEF CascadeList, At
      <3>3. m.pc = "casc.res" /\ m.op = l.op /\ m.org = l.org /\ m.kind = n
        BY <1>2, <3>2
      <3>4. Go(r, m)
        BY <2>3 DEF n
      <3> HIDE DEF m
      <3> QED BY <2>1, <3>1, <3>3, <3>4
    <2> QED BY <1>4, <2>2, <2>3 DEF CascadeList
  <1>5. CASE CascadeDelete(r)
    <2> DEFINE n == l.kind + 1
               m == [l EXCEPT !.pc = "casc.res", !.kind = n]
    <2>1. l.org \in owned[l.kind] /\ l.kind \in Kinds
      BY <1>0, <1>5, LocalFacts DEF CascadeDelete, At, Tidies, Sane
    <2>2. /\ owned' = [owned EXCEPT ![l.kind] = @ \ {l.org}] /\ Go(r, m)
          /\ UNCHANGED <<users, orgs, orgSeq, mappings, devices>>
      BY <1>5, <2>1 DEF CascadeDelete
    <2>3. /\ \A k \in Kinds : owned'[k] \subseteq owned[k]
          /\ l.org \notin owned'[l.kind]
      BY <2>1, <2>2 DEF IInv, TypeOK, StoreTypeOK
    <2>4. n \in Nat /\ n >= 1 /\ \A k \in Kinds : k < n => l.org \notin owned'[k]
      BY <1>0, <1>1, <1>3, <2>3
    <2>5. \A o \in OrgIds : /\ OrgExists(o)' <=> OrgExists(o)
                            /\ References(o)' => References(o)
      BY <2>2, <2>3 DEF OrgExists, References, Stored
    <2> HIDE DEF n
    <2>6. m.pc = "casc.res" /\ m.op = l.op /\ m.org = l.org /\ m.kind = n
      BY <1>2
    <2>7. ASSUME NEW j, Go(r, j), j.pc = "casc.res", j.op = l.op, j.org = l.org,
                 j.kind = n
          PROVE  TidyInv'
      <3>1. ~OrgExists(j.org)' /\ j.org \notin devices'
        BY <1>0, <1>1, <2>2, <2>5, <2>7
      <3>2. j.kind >= 1 /\ \A k \in Kinds : k < j.kind => j.org \notin owned'[k]
        BY <2>4, <2>7
      <3>3. Tidies(j)'
        BY <2>7, <3>1, <3>2 DEF Tidies
      <3>4. l.op \in Removals
        BY <1>0 DEF Minds, RemovalPCs, CascadePCs
      <3>5. Minds(j)'
        BY <2>7, <3>4 DEF Minds, RemovalPCs, CascadePCs, Removals, CreatorPCs
      <3>6. Cascading(j)
        BY <2>7 DEF Cascading, CascadePCs
      <3>7. \A o \in OrgIds : References(o)' =>
              OrgExists(o)' \/ (Cascading(j) /\ j.org = o)
        BY <2>5, <2>7, <3>6, TidyOfHandler
      <3>8. \A o \in OrgIds : OrgExists(o)' => o <= orgSeq'
        BY <2>2, <2>5 DEF TidyInv
      <3> QED BY <2>7, <3>3, <3>5, <3>7, <3>8, TidyStep
    <2> QED BY <2>2, <2>6, <2>7
  <1>6. CASE CascadeListUsers(r)
    <2> DEFINE m == [l EXCEPT !.pc = "casc.users",
                              !.usersLeft = {u \in Stored : users[u].roles[l.org] > 0}]
    <2>1. \A k \in Kinds : l.org \notin owned[k]
      <3>1. l.kind > NumKinds
        BY <1>0, <1>1, <1>6, TenancyAssumption DEF CascadeListUsers, Kinds
      <3>2. \A k \in Kinds : k < l.kind
        BY <1>0, <3>1, TenancyAssumption DEF Kinds
      <3> QED BY <1>1, <3>2
    <2>2. Go(r, m) /\ Reads
      BY <1>6 DEF CascadeListUsers
    <2>3. m.pc = "casc.users" /\ m.op = l.op /\ m.org = l.org
          /\ m.usersLeft = Members(l.org)
      BY <1>0 DEF Local, Members
    <2> HIDE DEF m
    <2>4. Cascading(m)
      BY <2>3 DEF Cascading, CascadePCs
    <2>5. Members(l.org) \subseteq Stored
      BY DEF Members
    <2>6. Tidies(m)
      BY <1>1, <2>1, <2>3, <2>5 DEF Tidies
    <2> QED BY <1>0, <2>2, <2>3, <2>4, <2>6, CascadeReads
  <1> QED BY <1>4, <1>5, <1>6

LEMMA CascadeMembersTidy ==
  ASSUME OneHandler, IInv, TidyInv, NEW r \in Requests,
         CascadeUser(r) \/ CascadeListMappings(r) \/ CascadeMapping(r)
  PROVE  TidyInv'
  <1> DEFINE l == req[r]
  <1>0. /\ l \in Local /\ l.pc \in {"casc.users", "casc.maps"} /\ Tidies(l) /\ Minds(l)
        /\ Cascading(l) /\ l.org \in OrgIds
    BY TidyOfHandler DEF CascadeUser, CascadeListMappings, CascadeMapping, At,
                         Cascading, CascadePCs, Local
  <1>1. /\ ~OrgExists(l.org) /\ l.org \notin devices
        /\ \A k \in Kinds : l.org \notin owned[k]
        /\ l.op \in Removals
    BY <1>0 DEF Tidies, Minds, RemovalPCs, CascadePCs
  <1>2. CASE CascadeUser(r)
    <2>1. l.pc = "casc.users" /\ Members(l.org) \subseteq l.usersLeft
          /\ l.usersLeft \subseteq Stored /\ Reads
      BY <1>0, <1>2 DEF CascadeUser, At, Tidies
    <2>2. PICK u \in l.usersLeft :
            Go(r, Update([l EXCEPT !.usersLeft = @ \ {u}], u,
                         [users[u] EXCEPT !.roles = Strip(@, l.org)]))
      BY <1>2, <2>1 DEF CascadeUser, Present, Stored
    <2> DEFINE roles == Strip(users[u].roles, l.org)
               rec == [users[u] EXCEPT !.roles = roles]
               left == l.usersLeft \ {u}
               n == [l EXCEPT !.usersLeft = left]
               m == Update(n, u, rec)
    <2>3. users[u] \in UserRecord /\ users[u].roles \in Roles
      BY <2>1, StoredFacts DEF IInv
    <2>4. roles[l.org] = 0
      BY <1>0, <2>3 DEF Strip, Roles
    <2>5. Go(r, m)
      BY <2>2
    <2> HIDE DEF roles
    <2>6. rec.roles = roles
      BY <2>3, RecordFacts
    <2> HIDE DEF rec
    <2>7. left \subseteq Stored /\ Members(l.org) \subseteq left \cup {u}
      BY <2>1
    <2> HIDE DEF left
    <2>8. n.op = l.op /\ n.org = l.org /\ n.usersLeft = left
      BY <1>0 DEF Local
    <2> HIDE DEF n
    <2>9. /\ m.pc = "update.get" /\ m.op = l.op /\ m.org = l.org /\ m.uid = u
          /\ m.rec = rec /\ m.usersLeft = left
      BY <2>8, UpdateIs
    <2> HIDE DEF m
    <2>10. Cascading(m)
      BY <1>1, <2>9 DEF Cascading
    <2>11. Tidies(m)
      BY <1>1, <2>4, <2>6, <2>7, <2>9 DEF Tidies
    <2> QED BY <1>0, <2>1, <2>5, <2>9, <2>10, <2>11, CascadeReads
  <1>3. CASE CascadeListMappings(r)
    <2> DEFINE some == {k \in MappingIds : mappings[k] = l.org}
               m == [l EXCEPT !.pc = "casc.maps", !.mapsLeft = some]
    <2>1. Members(l.org) = {}
      BY <1>0, <1>3 DEF CascadeListMappings, At, Tidies
    <2>2. Go(r, m) /\ Reads
      BY <1>3 DEF CascadeListMappings
    <2> HIDE DEF some
    <2>3. m.pc = "casc.maps" /\ m.op = l.op /\ m.org = l.org /\ m.mapsLeft = some
      BY <1>0 DEF Local
    <2> HIDE DEF m
    <2>4. Cascading(m)
      BY <2>3 DEF Cascading, CascadePCs
    <2>5. Tidies(m)
      BY <1>1, <2>1, <2>3 DEF Tidies, some
    <2> QED BY <1>0, <2>2, <2>3, <2>4, <2>5, CascadeReads
  <1>4. CASE CascadeMapping(r)
    <2>0. /\ l.pc = "casc.maps" /\ Members(l.org) = {}
          /\ l.mapsLeft = {m \in MappingIds : mappings[m] = l.org}
          /\ UNCHANGED <<users, orgs, orgSeq, owned, devices>>
      BY <1>0, <1>4 DEF CascadeMapping, At, Tidies
    <2>1. CASE l.mapsLeft = {} /\ Finish(r) /\ UNCHANGED mappings
      <3>1. ~References(l.org)
        BY <1>0, <1>1, <2>0, <2>1 DEF References, Members
      <3>2. \A o \in OrgIds : /\ OrgExists(o)' <=> OrgExists(o)
                              /\ References(o)' <=> References(o)
        BY <2>0, <2>1 DEF OrgExists, References, Stored
      <3>3. \A o \in OrgIds : References(o)' =>
              OrgExists(o)' \/ (Cascading(Idle) /\ Idle.org = o)
        BY <3>1, <3>2, TidyOfHandler
      <3>4. \A o \in OrgIds : OrgExists(o)' => o <= orgSeq'
        BY <2>0, <3>2 DEF TidyInv
      <3>5. Tidies(Idle)' /\ Minds(Idle)'
        BY IdlePlain, PlainFacts
      <3> QED BY <2>1, <3>3, <3>4, <3>5, TidyStep DEF Finish
    <2>2. ASSUME NEW k \in l.mapsLeft, mappings' = [mappings EXCEPT ![k] = Absent],
                 Go(r, [l EXCEPT !.mapsLeft = @ \ {k}])
          PROVE  TidyInv'
      <3> DEFINE m == [l EXCEPT !.mapsLeft = @ \ {k}]
      <3>1. /\ m.pc = "casc.maps" /\ m.op = l.op /\ m.org = l.org
            /\ m.mapsLeft = l.mapsLeft \ {k}
        BY <1>0, <2>0 DEF Local
      <3>2. /\ k \in MappingIds /\ mappings \in [MappingIds -> OrgIds \cup {Absent}]
            /\ Absent \notin OrgIds
        BY <2>0, <2>2, TenancyAssumption DEF IInv, TypeOK, StoreTypeOK
      <3>3. \A o \in OrgIds : /\ OrgExists(o)' <=> OrgExists(o)
                              /\ References(o)' => References(o)
        BY <2>0, <2>2, <3>2 DEF OrgExists, References, Stored
      <3>4. l.mapsLeft \ {k} = {i \in MappingIds : mappings'[i] = l.org}
        BY <1>0, <2>0, <2>2, <3>2
      <3>5. ASSUME NEW n, Go(r, n), n.pc = "casc.maps", n.op = l.op, n.org = l.org,
                   n.mapsLeft = l.mapsLeft \ {k}
            PROVE  TidyInv'
        <4>1. Members(n.org)' = {}
          BY <2>0, <3>5 DEF Members, Stored
        <4>2. /\ ~OrgExists(n.org)' /\ n.org \notin devices'
              /\ \A i \in Kinds : n.org \notin owned'[i]
          BY <1>0, <1>1, <2>0, <3>3, <3>5
        <4>3. n.mapsLeft = {i \in MappingIds : mappings'[i] = n.org}
          BY <3>4, <3>5
        <4>4. Tidies(n)'
          BY <3>5, <4>1, <4>2, <4>3 DEF Tidies
        <4>5. Minds(n)'
          BY <1>1, <3>5 DEF Minds, RemovalPCs, CascadePCs, Removals, CreatorPCs
        <4>6. Cascading(n)
          BY <3>5 DEF Cascading, CascadePCs
        <4>7. \A o \in OrgIds : References(o)' =>
                OrgExists(o)' \/ (Cascading(n) /\ n.org = o)
          BY <3>3, <3>5, <4>6, TidyOfHandler
        <4>8. \A o \in OrgIds : OrgExists(o)' => o <= orgSeq'
          BY <2>0, <3>3 DEF TidyInv
        <4> QED BY <3>5, <4>4, <4>5, <4>7, <4>8, TidyStep
      <3> QED BY <2>2, <3>1, <3>5
    <2>3. \A k \in l.mapsLeft : mappings[k] # Absent
      BY <1>0, <2>0, TenancyAssumption
    <2> QED BY <1>4, <2>1, <2>2, <2>3 DEF CascadeMapping
  <1> QED BY <1>2, <1>3, <1>4

----------------------------------------------------------------------------
(* Mappings, resources, devices and the clients' other calls. *)

LEMMA OtherTidy ==
  ASSUME OneHandler, IInv, TidyInv, NEW r \in Requests, OtherStep(r)
  PROVE  TidyInv'
  <1> DEFINE l == req[r]
             Pcs == {"map.org", "map.put", "mapdel.get", "mapdel.put", "res.put",
                     "dev.org", "dev.put"}
  <1>0. /\ l \in Local /\ l.pc \in Pcs /\ Minds(l) /\ l.org \in OrgIds
    BY TidyOfHandler DEF OtherStep, PutMappingOrg, PutMappingPut, RemoveMappingGet,
         RemoveMappingDelete, NewResourcePut, CreateDeviceOrg, CreateDevicePut, At, Local
  <1>1. ~Cascading(l) /\ l.op \notin Removals \cup {"NewOrganization"}
    BY <1>0 DEF Minds, Cascading, CascadePCs, RemovalPCs, CreatorPCs
  <1>2. Error(r) /\ Reads => TidyInv'
    BY <1>1, ErrorTidy
  <1>3. ASSUME NEW x \in {"map.put", "mapdel.put", "dev.put"}, Goto(r, x), Reads,
               x # "mapdel.put" => OrgExists(l.org)
        PROVE  TidyInv'
    <2> DEFINE m == [l EXCEPT !.pc = x]
    <2>1. m.pc = x /\ m.op = l.op /\ m.org = l.org
      BY <1>0 DEF Local
    <2> HIDE DEF m
    <2>2. Tidies(m) /\ Minds(m)
      BY <1>1, <1>3, <2>1 DEF Tidies, Minds, Cascading, CascadePCs, RemovalPCs,
                              CreatorPCs
    <2> QED BY <1>1, <1>3, <2>2, TidyReads DEF Goto, m
  <1>4. CASE PutMappingOrg(r) \/ RemoveMappingGet(r) \/ CreateDeviceOrg(r)
    BY <1>2, <1>3, <1>4 DEF PutMappingOrg, RemoveMappingGet, CreateDeviceOrg
  <1>5. ASSUME Finish(r), UNCHANGED <<users, orgs, orgSeq>>,
               \A o \in OrgIds : References(o)' => References(o) \/ OrgExists(o)
        PROVE  TidyInv'
    <2>1. \A o : OrgExists(o)' <=> OrgExists(o)
      BY <1>5 DEF OrgExists
    <2>2. \A o \in OrgIds : References(o)' =>
            OrgExists(o)' \/ (Cascading(Idle) /\ Idle.org = o)
      BY <1>1, <1>5, <2>1, TidyOfHandler
    <2>3. \A o \in OrgIds : OrgExists(o)' => o <= orgSeq'
      BY <1>5, <2>1 DEF TidyInv
    <2>4. Tidies(Idle)' /\ Minds(Idle)'
      BY IdlePlain, PlainFacts
    <2> QED BY <1>5, <2>2, <2>3, <2>4, TidyStep DEF Finish
  <1>6. CASE PutMappingPut(r)
    <2>1. OrgExists(l.org)
      BY <1>0, <1>6 DEF PutMappingPut, At, Minds
    <2>2. mappings' = [mappings EXCEPT ![l.mid] = l.org]
          /\ UNCHANGED <<users, orgs, orgSeq, owned, devices>>
      BY <1>6 DEF PutMappingPut
    <2>3. \A o \in OrgIds : References(o)' => References(o) \/ OrgExists(o)
      BY <2>1, <2>2 DEF References, Stored, IInv, TypeOK, StoreTypeOK
    <2> QED BY <1>5, <1>6, <2>2, <2>3 DEF PutMappingPut
  <1>7. CASE RemoveMappingDelete(r)
    <2>1. mappings' = [mappings EXCEPT ![l.mid] = Absent]
          /\ UNCHANGED <<users, orgs, orgSeq, owned, devices>>
      BY <1>7 DEF RemoveMappingDelete
    <2>2. \A o \in OrgIds : References(o)' => References(o)
      BY <2>1, TenancyAssumption DEF References, Stored, IInv, TypeOK, StoreTypeOK
    <2> QED BY <1>5, <1>7, <2>1, <2>2 DEF RemoveMappingDelete
  <1>8. CASE NewResourcePut(r)
    <2>1. OrgExists(l.org)
      BY <1>0, <1>8 DEF NewResourcePut, At, Minds
    <2>2. owned' = [owned EXCEPT ![l.kind] = @ \cup {l.org}]
          /\ UNCHANGED <<users, orgs, orgSeq, mappings, devices>>
      BY <1>8 DEF NewResourcePut
    <2>3. \A o \in OrgIds : References(o)' => References(o) \/ OrgExists(o)
      BY <2>1, <2>2 DEF References, Stored, IInv, TypeOK, StoreTypeOK
    <2> QED BY <1>5, <1>8, <2>2, <2>3 DEF NewResourcePut
  <1>9. CASE CreateDevicePut(r)
    <2>1. OrgExists(l.org)
      BY <1>0, <1>9 DEF CreateDevicePut, At, Minds
    <2>2. devices' = devices \cup {l.org}
          /\ UNCHANGED <<users, orgs, orgSeq, mappings, owned>>
      BY <1>9 DEF CreateDevicePut
    <2>3. \A o \in OrgIds : References(o)' => References(o) \/ OrgExists(o)
      BY <2>1, <2>2 DEF References, Stored
    <2> QED BY <1>5, <1>9, <2>2, <2>3 DEF CreateDevicePut
  <1> QED BY <1>4, <1>6, <1>7, <1>8, <1>9 DEF OtherStep

\* Members delete what their organization has; nobody is a member of one that
\* a removal has deleted.
LEMMA ClientsTidy ==
  ASSUME OneHandler, IInv, TidyInv,
         \/ UNCHANGED vars
         \/ \E k \in Kinds, o \in OrgIds : RemoveResource(k, o)
         \/ \E o \in OrgIds : RemoveDevice(o)
         \/ \E b \in BOOLEAN : ReplaceAuthConfig(b)
  PROVE  TidyInv'
  <1>1. /\ UNCHANGED <<users, orgs, orgSeq, mappings, req>>
        /\ devices' \subseteq devices
    BY DEF vars, RemoveResource, RemoveDevice, ReplaceAuthConfig
  <1>2. \A k \in Kinds : owned'[k] \subseteq owned[k]
    BY DEF vars, RemoveResource, RemoveDevice, ReplaceAuthConfig, IInv, TypeOK,
           StoreTypeOK
  <1>3. ASSUME NEW o \in OrgIds, ~OrgExists(o)
        PROVE  \A k \in Kinds : o \in owned[k] => o \in owned'[k]
    BY <1>3 DEF vars, RemoveResource, RemoveDevice, ReplaceAuthConfig,
                AuthorizedUser, IInv, TypeOK, StoreTypeOK
  <1>4. /\ \A o : OrgExists(o)' <=> OrgExists(o)
        /\ Stored' = Stored /\ \A o : Members(o)' = Members(o)
    BY <1>1 DEF OrgExists, Stored, Members
  <1>5. \A o \in OrgIds : References(o)' => References(o)
    BY <1>1, <1>2, <1>4 DEF References
  <1>6. ASSUME NEW r \in Requests PROVE (Tidies(req[r]) /\ Minds(req[r]))'
    <2> DEFINE l == req[r]
    <2>1. /\ l \in Local /\ Sane(l, everSuper) /\ Tidies(l) /\ Minds(l)
          /\ l.org \in OrgIds
      BY TidyOfHandler DEF Local
    <2>2. ASSUME NEW n, Tidies(n), Minds(n), n.org \in OrgIds,
                 n.pc = "casc.resdel" => n.kind \in Kinds
          PROVE  Tidies(n)' /\ Minds(n)'
      <3>1. Minds(n)'
        BY <1>1, <1>4, <2>2 DEF Minds
      <3>2. Cascading(n) => ~OrgExists(n.org)' /\ n.org \notin devices'
        BY <1>1, <1>4, <2>2 DEF Tidies
      <3>3. /\ n.pc = "casc.resdel" => n.org \in owned'[n.kind]
            /\ n.pc \in {"casc.res", "casc.resdel"} =>
                 n.kind >= 1 /\ \A k \in Kinds : k < n.kind => n.org \notin owned'[k]
            /\ Cascading(n) /\ n.pc \notin {"casc.res", "casc.resdel"} =>
                 \A k \in Kinds : n.org \notin owned'[k]
        <4>1. n.pc = "casc.resdel" => Cascading(n)
          BY DEF Cascading, CascadePCs
        <4> QED BY <1>2, <1>3, <2>2, <4>1 DEF Tidies
      <3>4. Tidies(n)'
        BY <1>1, <1>4, <2>2, <3>2, <3>3 DEF Tidies
      <3> QED BY <3>1, <3>4
    <2>3. l.pc = "casc.resdel" => l.kind \in Kinds
      BY <2>1 DEF Sane
    <2>4. PICK n : n = l
      OBVIOUS
    <2>5. Tidies(n)' /\ Minds(n)'
      BY <2>1, <2>2, <2>3, <2>4
    <2>6. req'[r] = n
      BY <1>1, <2>4
    <2> QED BY <2>5, <2>6
  <1>7. \A o \in OrgIds : References(o)' =>
          OrgExists(o)' \/ \E r \in Requests : Cascading(req'[r]) /\ req'[r].org = o
    BY <1>1, <1>4, <1>5 DEF TidyInv
  <1>8. \A o \in OrgIds : OrgExists(o)' => o <= orgSeq'
    BY <1>1, <1>4 DEF TidyInv
  <1> QED BY <1>6, <1>7, <1>8 DEF TidyInv, Cascading

LEMMA TidyInit == Init => TidyInv
  <1> SUFFICES ASSUME Init PROVE TidyInv
    OBVIOUS
  <1>1. \A o \in OrgIds : OrgExists(o) <=> o = DefaultOrg
    BY TenancyAssumption DEF Init, OrgExists
  <1>2. \A o \in OrgIds : OrgExists(o) => o <= orgSeq
    BY <1>1 DEF Init, DefaultOrg
  <1>3. \A o \in OrgIds : References(o) => OrgExists(o)
    <2> TAKE o \in OrgIds
    <2> HAVE References(o)
    <2>1. Stored = {} /\ devices = {} /\ \A k \in Kinds : owned[k] = {}
      BY DEF Init, Stored
    <2>2. PICK m \in MappingIds : mappings[m] = o
      BY <2>1 DEF References
    <2>3. o = DefaultOrg
      BY <2>2, TenancyAssumption DEF Init
    <2> QED BY <1>1, <2>3
  <1>4. \A r \in Requests : req[r] = Idle
    BY DEF Init
  <1> QED BY <1>2, <1>3, <1>4, IdlePlain, PlainFacts DEF TidyInv

\* Nothing cuts a handler short.
Undisturbed == "StoreError" \notin Ops /\ "Crash" \notin Ops

LEMMA TidyNext ==
  ASSUME OneHandler, Undisturbed, IInv, AloneInv, TidyInv, [Next]_vars
  PROVE  TidyInv'
  <1>1. ASSUME NEW r \in Requests, BeginRequest(r) \/ Step(r)
        PROVE  TidyInv'
    <2>1. CASE OrganizationsStep(r)
      BY <2>1, NewOrganizationTidy, UpdateOrganizationTidy, RemoveOrganizationTidy,
         CascadeResourcesTidy, CascadeMembersTidy DEF OrganizationsStep
    <2> QED BY <1>1, <2>1, BeginTidy, MeTidy, UsersTidy, OtherTidy DEF Step
  <1>2. ~Crash /\ \A r \in Requests : ~StoreError(r)
    BY DEF Undisturbed, Crash, StoreError, CallsMayFail
  <1> QED BY <1>1, <1>2, ClientsTidy DEF Next

\* When handlers run one at a time and nothing cuts them short, a reference to
\* an organization that does not exist is one the removal in flight is about to
\* clean up.
THEOREM TidyInvariant ==
  ASSUME OneHandler, Undisturbed
  PROVE  Spec => []TidyInv
  <1>1. Init => IInv /\ NamesKept /\ AloneInv /\ TidyInv
    BY InitInv, InitNames, AloneInit, TidyInit
  <1>2. IInv /\ AloneInv /\ TidyInv /\ [Next]_vars => TidyInv'
    BY TidyNext
  <1> QED BY <1>1, <1>2, AllInvariants, PTL DEF Spec

\* A removal leaves no role, mapping, resource or device of the organization
\* behind, and nothing later refers to it.
THEOREM NothingDangles ==
  ASSUME OneHandler, Undisturbed
  PROVE  Spec => []NoDangling
  <1>1. TidyInv => NoDangling
    BY DEF TidyInv, NoDangling, Quiet, InFlight, Cascading, CascadePCs
  <1> QED BY <1>1, TidyInvariant, PTL
=============================================================================
