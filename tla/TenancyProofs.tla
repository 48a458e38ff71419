---------------------------- MODULE TenancyProofs ----------------------------
(****************************************************************************)
(* Proofs for every number of handlers, users, organizations and mappings,  *)
(* every set of operations and every interleaving, faults included.         *)
(****************************************************************************)
EXTENDS TenancyProperties, TLAPS

\* A user who was never super admin has one role per organization, and a super
\* admin is known to have been one.
Regular(u, rec, S) == OneRole(rec) \/ u \in S

NameOps == {"Me", "UpdateMe", "NewBasicUser", "NewUser", "OrganizationNewUser"}
MePCs == {"me.get", "me.first", "me.config", "me.mappings", "me.orgs"}
EditOps == {"UpdateUser", "OrganizationUpdateUser"}

\* What a handler's locals keep, S being everSuper.
Sane(l, S) ==
    /\ l.op \in NameOps \/ l.pc \in MePCs => l.name \in Principals
    /\ l.pc \in {"update.get", "update.put", "fupd.get"} =>
         l.uid \in UserIds /\ l.rec \in UserRecord /\ Regular(l.uid, l.rec, S)
    /\ l.pc = "roles" /\ l.op \in EditOps =>
         l.uid \in UserIds /\ l.rec \in UserRecord
    /\ l.pc = "new.config" => l.op \notin EditOps
    /\ l.pc \in {"add.exists", "add.put", "fadd.get"} =>
         l.rec \in UserRecord /\ OneRole(l.rec)
    /\ l.pc \in {"no.unique", "no.put"} =>
         l.rec \in UserRecord /\ l.oname \in OrgNames
    /\ l.pc \in {"uo.kvget", "uo.unique", "uo.put"} => l.oname \in OrgNames
    /\ l.pc \in {"casc.resdel", "res.put"} => l.kind \in Kinds
    /\ l.pc = "odel.put" => l.org # DefaultOrg

\* Nothing deletes the default organization.
DefaultOrgStays == OrgExists(DefaultOrg)

StoreOK == \A u \in Stored :
    /\ Regular(u, users[u], everSuper)
    /\ users[u].superAdmin => u \in everSuper

\* The inductive invariant.  RegularOneRole alone is not inductive: a handler
\* in flight could be about to write a record with two roles.
IInv ==
    /\ TypeOK
    /\ StoreOK
    /\ DefaultOrgStays
    /\ \A r \in Requests : Sane(req[r], everSuper)

----------------------------------------------------------------------------
(* The locals. *)

LEMMA LabelFacts ==
  /\ "idle" \in Labels /\ "me.get" \in Labels /\ "me.first" \in Labels
  /\ "me.config" \in Labels /\ "me.mappings" \in Labels
  /\ "me.orgs" \in Labels /\ "um.org" \in Labels /\ "um.facade" \in Labels
  /\ "um.raw" \in Labels /\ "roles" \in Labels /\ "new.config" \in Labels
  /\ "uu.get" \in Labels /\ "ru.get" \in Labels /\ "ru.del" \in Labels
  /\ "lock.get" \in Labels /\ "fadd.get" \in Labels /\ "fget" \in Labels
  /\ "fupd.get" \in Labels /\ "fdel.get" \in Labels /\ "update.get" \in Labels
  /\ "update.put" \in Labels /\ "add.exists" \in Labels
  /\ "add.put" \in Labels /\ "no.unique" \in Labels /\ "no.put" \in Labels
  /\ "uo.get" \in Labels /\ "uo.kvget" \in Labels /\ "uo.unique" \in Labels
  /\ "uo.put" \in Labels /\ "ro.get" \in Labels /\ "ro.devices" \in Labels
  /\ "odel.get" \in Labels /\ "odel.put" \in Labels /\ "casc.res" \in Labels
  /\ "casc.resdel" \in Labels /\ "casc.users" \in Labels
  /\ "casc.maps" \in Labels /\ "map.org" \in Labels /\ "map.put" \in Labels
  /\ "mapdel.get" \in Labels /\ "mapdel.put" \in Labels
  /\ "res.put" \in Labels /\ "dev.org" \in Labels /\ "dev.put" \in Labels
  /\ "none" \in Operations /\ "Cleanup" \in Operations /\ "Me" \in Operations
  /\ "UpdateMe" \in Operations /\ "NewBasicUser" \in Operations
  /\ "NewUser" \in Operations /\ "OrganizationNewUser" \in Operations
  /\ "UpdateUser" \in Operations /\ "OrganizationUpdateUser" \in Operations
  /\ "RemoveUser" \in Operations /\ "OrganizationRemoveUser" \in Operations
  /\ "LockedUser" \in Operations /\ "NewOrganization" \in Operations
  /\ "UpdateOrganization" \in Operations
  /\ "RemoveOrganization" \in Operations /\ "PutMapping" \in Operations
  /\ "RemoveMapping" \in Operations /\ "NewResource" \in Operations
  /\ "CreateDevice" \in Operations
  BY DEF Labels, Operations

LEMMA IdleFacts == Idle \in Local /\ \A S : Sane(Idle, S)
  <1>1. DefaultOrg \in OrgIds /\ 0 \in MappingIds
    BY TenancyAssumption DEF DefaultOrg
  <1>2. Idle \in Local
    BY <1>1, LabelFacts DEF Idle, Local
  <1>3. Idle.op = "none" /\ Idle.pc = "idle"
    BY DEF Idle
  <1>4. \A S : Sane(Idle, S)
    BY <1>3 DEF Sane, NameOps, MePCs
  <1> QED BY <1>2, <1>4

LEMMA OnErrorFacts ==
  ASSUME NEW l \in Local
  PROVE  OnError(l) \in Local /\ \A S : Sane(OnError(l), S)
  <1> DEFINE c == [Idle EXCEPT !.op = "Cleanup", !.pc = "odel.get", !.org = l.org]
  <1>1. c \in Local /\ c.op = "Cleanup" /\ c.pc = "odel.get"
    BY ZenonT(60), IdleFacts, LabelFacts DEF Local
  <1>2. \A S : Sane(c, S)
    BY <1>1 DEF Sane, NameOps, MePCs
  <1>3. OnError(l) = c \/ OnError(l) = Idle
    BY DEF OnError
  <1> QED BY <1>1, <1>2, <1>3, IdleFacts

LEMMA UpdateFacts ==
  ASSUME NEW l \in Local, NEW S, NEW u \in UserIds, NEW rec \in UserRecord,
         Regular(u, rec, S), Sane(l, S)
  PROVE  /\ Update(l, u, rec) \in Local /\ Sane(Update(l, u, rec), S)
         /\ Update(l, u, rec).op = l.op /\ Update(l, u, rec).name = l.name
         /\ Update(l, u, rec).uid = u /\ Update(l, u, rec).rec = rec
  <1> DEFINE n == Update(l, u, rec)
  <1>1. n \in Local
    BY IdleFacts, LabelFacts DEF Update, Local
  <1>2. n.op = l.op /\ n.pc = "update.get" /\ n.name = l.name /\ n.uid = u
        /\ n.rec = rec
    BY IdleFacts DEF Update, Local
  <1>3. Sane(n, S)
    BY <1>2 DEF Sane, MePCs
  <1> QED BY <1>1, <1>2, <1>3

LEMMA AddFacts ==
  ASSUME NEW l \in Local, NEW S, NEW rec \in UserRecord, OneRole(rec), Sane(l, S)
  PROVE  /\ Add(l, rec) \in Local /\ Sane(Add(l, rec), S)
         /\ Add(l, rec).op = l.op /\ Add(l, rec).name = l.name
         /\ Add(l, rec).rec = rec
  <1> DEFINE n == Add(l, rec)
  <1>1. n \in Local
    BY IdleFacts, LabelFacts DEF Add, Local
  <1>2. n.op = l.op /\ n.pc = "add.exists" /\ n.name = l.name /\ n.rec = rec
    BY IdleFacts DEF Add, Local
  <1>3. Sane(n, S)
    BY <1>2 DEF Sane, MePCs
  <1> QED BY <1>1, <1>2, <1>3

LEMMA RolesInFacts ==
  ASSUME NEW p \in Principals, NEW b \in BOOLEAN, NEW X
  PROVE  LET rec == [name |-> p, superAdmin |-> b, roles |-> RolesIn(X)]
         IN  rec \in UserRecord /\ OneRole(rec)
  BY DEF UserRecord, Roles, RolesIn, OneRole

\* Sane only gains by a larger history.
LEMMA SaneGrows ==
  ASSUME NEW l, NEW S, NEW T, S \subseteq T, Sane(l, S)
  PROVE  Sane(l, T)
  BY DEF Sane, Regular

----------------------------------------------------------------------------
(* Steps of one handler: any, one that only reads, one that gives up. *)

LEMMA HandlerStep ==
  ASSUME IInv, NEW r \in Requests, NEW l \in Local, Go(r, l),
         everSuper \subseteq everSuper', Sane(l, everSuper'),
         StoreTypeOK', StoreOK', DefaultOrgStays'
  PROVE  IInv'
  <1>1. req' \in [Requests -> Local]
    BY DEF IInv, TypeOK, Go
  <1>2. \A q \in Requests : Sane(req'[q], everSuper')
    <2> TAKE q \in Requests
    <2>1. req'[q] = IF q = r THEN l ELSE req[q]
      BY DEF IInv, TypeOK, Go
    <2>2. Sane(req[q], everSuper')
      BY SaneGrows DEF IInv
    <2> QED BY <2>1, <2>2
  <1> QED BY <1>1, <1>2 DEF IInv, TypeOK

LEMMA QuietStep ==
  ASSUME IInv, NEW r \in Requests, NEW l \in Local, Sane(l, everSuper),
         Go(r, l), Reads
  PROVE  IInv'
  <1>1. StoreTypeOK'
    BY DEF IInv, TypeOK, StoreTypeOK, Reads, store
  <1>2. StoreOK' /\ DefaultOrgStays' /\ everSuper' = everSuper
    BY DEF IInv, StoreOK, Stored, Regular, DefaultOrgStays, OrgExists, Reads, store
  <1> QED BY <1>1, <1>2, HandlerStep

LEMMA ErrorStep ==
  ASSUME IInv, NEW r \in Requests, Error(r), Reads
  PROVE  IInv'
  <1>1. req[r] \in Local BY DEF IInv, TypeOK
  <1>2. OnError(req[r]) \in Local /\ Sane(OnError(req[r]), everSuper)
    BY <1>1, OnErrorFacts
  <1> QED BY <1>2, QuietStep DEF Error

LEMMA FinishStep ==
  ASSUME IInv, NEW r \in Requests, Finish(r), Reads
  PROVE  IInv'
  BY IdleFacts, QuietStep DEF Finish

LEMMA LocalFacts ==
  ASSUME IInv, NEW r \in Requests
  PROVE  req[r] \in Local /\ Sane(req[r], everSuper)
  BY DEF IInv, TypeOK

\* The labels at which Sane asks nothing.
FreeLabels == {"um.org", "um.facade", "um.raw", "fdel.get", "ru.del",
               "casc.res", "casc.users", "casc.maps", "ro.get", "ro.devices",
               "odel.get", "map.put", "mapdel.put", "dev.put"}

LEMMA GotoFree ==
  ASSUME IInv, NEW r \in Requests, NEW label \in FreeLabels,
         Goto(r, label), Reads
  PROVE  IInv'
  <1> DEFINE l == [req[r] EXCEPT !.pc = label]
  <1>1. label \in Labels
    BY LabelFacts DEF FreeLabels
  <1>2. l \in Local /\ l.op = req[r].op /\ l.pc = label /\ l.name = req[r].name
    BY <1>1, LocalFacts DEF Local
  <1>3. Sane(l, everSuper)
    BY <1>2, LocalFacts DEF Sane, FreeLabels, MePCs
  <1> QED BY <1>2, <1>3, QuietStep DEF Goto

\* A next label at which Sane asks for what it asked for at this one.
LEMMA GotoSame ==
  ASSUME IInv, NEW r \in Requests, NEW label \in Labels,
         Sane([req[r] EXCEPT !.pc = label], everSuper), Goto(r, label), Reads
  PROVE  IInv'
  <1>1. [req[r] EXCEPT !.pc = label] \in Local
    BY LocalFacts DEF Local
  <1> QED BY <1>1, QuietStep DEF Goto

----------------------------------------------------------------------------
(* Requests. *)

LEMMA StoredFacts ==
  ASSUME TypeOK, NEW u \in Stored
  PROVE  u \in UserIds /\ users[u] \in UserRecord /\ users[u].superAdmin \in BOOLEAN
         /\ users[u].name \in Principals /\ users[u].roles \in Roles
  BY DEF TypeOK, StoreTypeOK, Stored, UserRecord

LEMMA BeginStep ==
  ASSUME IInv, NEW r \in Requests, NEW l \in Local, Sane(l, everSuper), Begin(r, l)
  PROVE  IInv'
  BY QuietStep DEF Begin

LEMMA BeginInv ==
  ASSUME IInv, NEW r \in Requests, BeginRequest(r)
  PROVE  IInv'
  <1>1. CASE BeginMe(r)
    <2>1. PICK p \in Principals :
            Begin(r, [Idle EXCEPT !.op = "Me", !.pc = "me.get", !.name = p])
      BY <1>1 DEF BeginMe
    <2> DEFINE l == [Idle EXCEPT !.op = "Me", !.pc = "me.get", !.name = p]
    <2>2. l \in Local /\ l.op = "Me" /\ l.pc = "me.get" /\ l.name \in Principals
      BY <2>1, IdleFacts, LabelFacts DEF Local
    <2>3. Sane(l, everSuper)
      BY <2>2 DEF Sane, NameOps, MePCs, EditOps
    <2> QED BY <2>1, <2>2, <2>3, BeginStep
  <1>2. CASE BeginUpdateMe(r)
    <2>1. PICK p \in Principals, o \in OrgIds :
            Begin(r, [Idle EXCEPT !.op = "UpdateMe", !.pc = "um.org", !.name = p, !.org = o])
      BY <1>2 DEF BeginUpdateMe
    <2> DEFINE l == [Idle EXCEPT !.op = "UpdateMe", !.pc = "um.org", !.name = p, !.org = o]
    <2>2. l \in Local /\ l.op = "UpdateMe" /\ l.pc = "um.org" /\ l.name \in Principals
      BY <2>1, IdleFacts, LabelFacts DEF Local
    <2>3. Sane(l, everSuper)
      BY <2>2 DEF Sane, NameOps, MePCs, EditOps
    <2> QED BY <2>1, <2>2, <2>3, BeginStep
  <1>3. CASE BeginNewBasicUser(r)
    <2>1. PICK p \in Principals, X \in SUBSET OrgIds, b \in BOOLEAN :
            Begin(r, [Idle EXCEPT !.op = "NewBasicUser", !.pc = "roles", !.name = p, !.asked = X, !.super = b])
      BY <1>3 DEF BeginNewBasicUser
    <2> DEFINE l == [Idle EXCEPT !.op = "NewBasicUser", !.pc = "roles", !.name = p, !.asked = X, !.super = b]
    <2>2. l \in Local /\ l.op = "NewBasicUser" /\ l.pc = "roles" /\ l.name \in Principals
      BY <2>1, IdleFacts, LabelFacts DEF Local
    <2>3. Sane(l, everSuper)
      BY <2>2 DEF Sane, NameOps, MePCs, EditOps
    <2> QED BY <2>1, <2>2, <2>3, BeginStep
  <1>4. CASE BeginNewUser(r)
    <2>1. PICK a \in SuperAdmins, p \in Principals, X \in SUBSET OrgIds,
           b \in BOOLEAN :
            Begin(r, [Idle EXCEPT !.op = "NewUser", !.pc = "new.config", !.name = p, !.asked = X,
                            !.super = b, !.actor = a, !.actorSuper = TRUE])
      BY <1>4 DEF BeginNewUser
    <2> DEFINE l == [Idle EXCEPT !.op = "NewUser", !.pc = "new.config", !.name = p, !.asked = X,
                            !.super = b, !.actor = a, !.actorSuper = TRUE]
    <2>2. l \in Local /\ l.op = "NewUser" /\ l.pc = "new.config" /\ l.name \in Principals
      BY <2>1, IdleFacts, LabelFacts, StoredFacts DEF Local, SuperAdmins, IInv
    <2>3. Sane(l, everSuper)
      BY <2>2 DEF Sane, NameOps, MePCs, EditOps
    <2> QED BY <2>1, <2>2, <2>3, BeginStep
  <1>5. CASE BeginOrganizationNewUser(r)
    <2>1. PICK o \in OrgIds, p \in Principals, X \in SUBSET OrgIds,
           b \in BOOLEAN, a \in Stored :
            Begin(r, [Idle EXCEPT !.op = "OrganizationNewUser", !.pc = "new.config", !.name = p, !.asked = X,
                            !.super = b, !.org = o, !.actor = a,
                            !.actorSuper = users[a].superAdmin])
      BY <1>5 DEF BeginOrganizationNewUser
    <2> DEFINE l == [Idle EXCEPT !.op = "OrganizationNewUser", !.pc = "new.config", !.name = p, !.asked = X,
                            !.super = b, !.org = o, !.actor = a,
                            !.actorSuper = users[a].superAdmin]
    <2>2. l \in Local /\ l.op = "OrganizationNewUser" /\ l.pc = "new.config" /\ l.name \in Principals
      BY <2>1, IdleFacts, LabelFacts, StoredFacts DEF Local, IInv
    <2>3. Sane(l, everSuper)
      BY <2>2 DEF Sane, NameOps, MePCs, EditOps
    <2> QED BY <2>1, <2>2, <2>3, BeginStep
  <1>6. CASE BeginUpdateUser(r)
    <2>1. PICK u \in UserIds, X \in SUBSET OrgIds, b \in BOOLEAN,
           a \in Stored :
            Begin(r, [Idle EXCEPT !.op = "UpdateUser", !.pc = "uu.get", !.uid = u, !.asked = X, !.super = b,
                            !.actor = a, !.actorSuper = users[a].superAdmin])
      BY <1>6 DEF BeginUpdateUser
    <2> DEFINE l == [Idle EXCEPT !.op = "UpdateUser", !.pc = "uu.get", !.uid = u, !.asked = X, !.super = b,
                            !.actor = a, !.actorSuper = users[a].superAdmin]
    <2>2. l \in Local /\ l.op = "UpdateUser" /\ l.pc = "uu.get"
      BY <2>1, IdleFacts, LabelFacts, StoredFacts DEF Local, IInv
    <2>3. Sane(l, everSuper)
      BY <2>2 DEF Sane, NameOps, MePCs, EditOps
    <2> QED BY <2>1, <2>2, <2>3, BeginStep
  <1>7. CASE BeginOrganizationUpdateUser(r)
    <2>1. PICK u \in UserIds, o \in OrgIds, X \in SUBSET OrgIds,
           b \in BOOLEAN, a \in Stored :
            Begin(r, [Idle EXCEPT !.op = "OrganizationUpdateUser", !.pc = "fget", !.uid = u, !.asked = X, !.super = b,
                            !.org = o, !.actor = a,
                            !.actorSuper = users[a].superAdmin])
      BY <1>7 DEF BeginOrganizationUpdateUser
    <2> DEFINE l == [Idle EXCEPT !.op = "OrganizationUpdateUser", !.pc = "fget", !.uid = u, !.asked = X, !.super = b,
                            !.org = o, !.actor = a,
                            !.actorSuper = users[a].superAdmin]
    <2>2. l \in Local /\ l.op = "OrganizationUpdateUser" /\ l.pc = "fget"
      BY <2>1, IdleFacts, LabelFacts, StoredFacts DEF Local, IInv
    <2>3. Sane(l, everSuper)
      BY <2>2 DEF Sane, NameOps, MePCs, EditOps
    <2> QED BY <2>1, <2>2, <2>3, BeginStep
  <1>8. CASE BeginRemoveUser(r)
    <2>1. PICK u \in UserIds :
            Begin(r, [Idle EXCEPT !.op = "RemoveUser", !.pc = "ru.get", !.uid = u])
      BY <1>8 DEF BeginRemoveUser
    <2> DEFINE l == [Idle EXCEPT !.op = "RemoveUser", !.pc = "ru.get", !.uid = u]
    <2>2. l \in Local /\ l.op = "RemoveUser" /\ l.pc = "ru.get"
      BY <2>1, IdleFacts, LabelFacts DEF Local
    <2>3. Sane(l, everSuper)
      BY <2>2 DEF Sane, NameOps, MePCs, EditOps
    <2> QED BY <2>1, <2>2, <2>3, BeginStep
  <1>9. CASE BeginOrganizationRemoveUser(r)
    <2>1. PICK u \in UserIds, o \in OrgIds :
            Begin(r, [Idle EXCEPT !.op = "OrganizationRemoveUser", !.pc = "fget", !.uid = u, !.org = o])
      BY <1>9 DEF BeginOrganizationRemoveUser
    <2> DEFINE l == [Idle EXCEPT !.op = "OrganizationRemoveUser", !.pc = "fget", !.uid = u, !.org = o]
    <2>2. l \in Local /\ l.op = "OrganizationRemoveUser" /\ l.pc = "fget"
      BY <2>1, IdleFacts, LabelFacts DEF Local
    <2>3. Sane(l, everSuper)
      BY <2>2 DEF Sane, NameOps, MePCs, EditOps
    <2> QED BY <2>1, <2>2, <2>3, BeginStep
  <1>10. CASE BeginLockedUser(r)
    <2>1. PICK p \in Principals :
            Begin(r, [Idle EXCEPT !.op = "LockedUser", !.pc = "lock.get", !.name = p])
      BY <1>10 DEF BeginLockedUser
    <2> DEFINE l == [Idle EXCEPT !.op = "LockedUser", !.pc = "lock.get", !.name = p]
    <2>2. l \in Local /\ l.op = "LockedUser" /\ l.pc = "lock.get"
      BY <2>1, IdleFacts, LabelFacts DEF Local
    <2>3. Sane(l, everSuper)
      BY <2>2 DEF Sane, NameOps, MePCs, EditOps
    <2> QED BY <2>1, <2>2, <2>3, BeginStep
  <1>11. CASE BeginNewOrganization(r)
    <2>1. PICK a \in SuperAdmins, n \in OrgNames :
            Begin(r, [Idle EXCEPT !.op = "NewOrganization", !.pc = "no.unique", !.oname = n, !.rec = users[a],
                            !.name = users[a].name])
      BY <1>11 DEF BeginNewOrganization
    <2> DEFINE l == [Idle EXCEPT !.op = "NewOrganization", !.pc = "no.unique", !.oname = n, !.rec = users[a],
                            !.name = users[a].name]
    <2>2. l \in Local /\ l.op = "NewOrganization" /\ l.pc = "no.unique" /\ l.rec \in UserRecord /\ l.oname \in OrgNames
      BY <2>1, IdleFacts, LabelFacts, StoredFacts DEF Local, SuperAdmins, IInv
    <2>3. Sane(l, everSuper)
      BY <2>2 DEF Sane, NameOps, MePCs, EditOps
    <2> QED BY <2>1, <2>2, <2>3, BeginStep
  <1>12. CASE BeginUpdateOrganization(r)
    <2>1. PICK o \in OrgIds, n \in OrgNames \cup {Absent} :
            Begin(r, [Idle EXCEPT !.op = "UpdateOrganization", !.pc = "uo.get", !.org = o, !.oname = n])
      BY <1>12 DEF BeginUpdateOrganization
    <2> DEFINE l == [Idle EXCEPT !.op = "UpdateOrganization", !.pc = "uo.get", !.org = o, !.oname = n]
    <2>2. l \in Local /\ l.op = "UpdateOrganization" /\ l.pc = "uo.get"
      BY <2>1, IdleFacts, LabelFacts DEF Local
    <2>3. Sane(l, everSuper)
      BY <2>2 DEF Sane, NameOps, MePCs, EditOps
    <2> QED BY <2>1, <2>2, <2>3, BeginStep
  <1>13. CASE BeginRemoveOrganization(r)
    <2>1. PICK o \in OrgIds :
            Begin(r, [Idle EXCEPT !.op = "RemoveOrganization", !.pc = "ro.get", !.org = o])
      BY <1>13 DEF BeginRemoveOrganization
    <2> DEFINE l == [Idle EXCEPT !.op = "RemoveOrganization", !.pc = "ro.get", !.org = o]
    <2>2. l \in Local /\ l.op = "RemoveOrganization" /\ l.pc = "ro.get"
      BY <2>1, IdleFacts, LabelFacts DEF Local
    <2>3. Sane(l, everSuper)
      BY <2>2 DEF Sane, NameOps, MePCs, EditOps
    <2> QED BY <2>1, <2>2, <2>3, BeginStep
  <1>14. CASE BeginPutMapping(r)
    <2>1. PICK m \in MappingIds, o \in OrgIds :
            Begin(r, [Idle EXCEPT !.op = "PutMapping", !.pc = "map.org", !.mid = m, !.org = o])
      BY <1>14 DEF BeginPutMapping
    <2> DEFINE l == [Idle EXCEPT !.op = "PutMapping", !.pc = "map.org", !.mid = m, !.org = o]
    <2>2. l \in Local /\ l.op = "PutMapping" /\ l.pc = "map.org"
      BY <2>1, IdleFacts, LabelFacts DEF Local
    <2>3. Sane(l, everSuper)
      BY <2>2 DEF Sane, NameOps, MePCs, EditOps
    <2> QED BY <2>1, <2>2, <2>3, BeginStep
  <1>15. CASE BeginRemoveMapping(r)
    <2>1. PICK m \in MappingIds :
            Begin(r, [Idle EXCEPT !.op = "RemoveMapping", !.pc = "mapdel.get", !.mid = m])
      BY <1>15 DEF BeginRemoveMapping
    <2> DEFINE l == [Idle EXCEPT !.op = "RemoveMapping", !.pc = "mapdel.get", !.mid = m]
    <2>2. l \in Local /\ l.op = "RemoveMapping" /\ l.pc = "mapdel.get"
      BY <2>1, IdleFacts, LabelFacts DEF Local
    <2>3. Sane(l, everSuper)
      BY <2>2 DEF Sane, NameOps, MePCs, EditOps
    <2> QED BY <2>1, <2>2, <2>3, BeginStep
  <1>16. CASE BeginNewResource(r)
    <2>1. PICK k \in Kinds, o \in OrgIds :
            Begin(r, [Idle EXCEPT !.op = "NewResource", !.pc = "res.put", !.kind = k, !.org = o])
      BY <1>16 DEF BeginNewResource
    <2> DEFINE l == [Idle EXCEPT !.op = "NewResource", !.pc = "res.put", !.kind = k, !.org = o]
    <2>a. k \in Nat
      BY <2>1, TenancyAssumption DEF Kinds
    <2>2. l \in Local /\ l.op = "NewResource" /\ l.pc = "res.put" /\ l.kind \in Kinds
      BY <2>1, <2>a, IdleFacts, LabelFacts DEF Local
    <2>3. Sane(l, everSuper)
      BY <2>2 DEF Sane, NameOps, MePCs, EditOps
    <2> QED BY <2>1, <2>2, <2>3, BeginStep
  <1>17. CASE BeginCreateDevice(r)
    <2>1. PICK o \in OrgIds :
            Begin(r, [Idle EXCEPT !.op = "CreateDevice", !.pc = "dev.org", !.org = o])
      BY <1>17 DEF BeginCreateDevice
    <2> DEFINE l == [Idle EXCEPT !.op = "CreateDevice", !.pc = "dev.org", !.org = o]
    <2>2. l \in Local /\ l.op = "CreateDevice" /\ l.pc = "dev.org"
      BY <2>1, IdleFacts, LabelFacts DEF Local
    <2>3. Sane(l, everSuper)
      BY <2>2 DEF Sane, NameOps, MePCs, EditOps
    <2> QED BY <2>1, <2>2, <2>3, BeginStep
  <1> QED BY <1>1, <1>2, <1>3, <1>4, <1>5, <1>6, <1>7, <1>8, <1>9, <1>10, <1>11, <1>12, <1>13, <1>14, <1>15, <1>16, <1>17 DEF BeginRequest

----------------------------------------------------------------------------
(* Me and UpdateMe. *)

LEMMA NamedFacts ==
  ASSUME NEW p, NEW u \in ByName(p)
  PROVE  u \in Stored /\ users[u].name = p
  BY DEF ByName, Named

\* Rewriting a stored record that stays regular.
LEMMA UpdateStep ==
  ASSUME IInv, NEW r \in Requests, NEW u \in UserIds, NEW rec \in UserRecord,
         Regular(u, rec, everSuper), Go(r, Update(req[r], u, rec)), Reads
  PROVE  IInv'
  BY LocalFacts, UpdateFacts, QuietStep

LEMMA AddStep ==
  ASSUME IInv, NEW r \in Requests, NEW rec \in UserRecord, OneRole(rec),
         Go(r, Add(req[r], rec)), Reads
  PROVE  IInv'
  BY LocalFacts, AddFacts, QuietStep

LEMMA AfterPutFacts ==
  ASSUME NEW l \in Local, NEW S, Sane(l, S)
  PROVE  AfterPut(l) \in Local /\ Sane(AfterPut(l), S)
  <1> DEFINE m == [Idle EXCEPT !.op = "Me", !.pc = "me.get", !.name = l.name]
             c == [l EXCEPT !.pc = "casc.users", !.uid = 0, !.rec = Absent]
  <1>1. CASE l.op = "UpdateMe"
    <2>1. AfterPut(l) = m
      BY <1>1 DEF AfterPut
    <2>2. m \in Local /\ m.op = "Me" /\ m.pc = "me.get" /\ m.name = l.name
      BY ZenonT(60), IdleFacts, LabelFacts DEF Local
    <2>3. Sane(m, S)
      BY <1>1, <2>2 DEF Sane, NameOps, MePCs
    <2> QED BY <2>1, <2>2, <2>3
  <1>2. CASE l.op \in {"RemoveOrganization", "Cleanup"}
    <2>1. AfterPut(l) = c
      BY <1>2 DEF AfterPut
    <2>2. c \in Local /\ c.op = l.op /\ c.pc = "casc.users"
      BY LabelFacts DEF Local
    <2>3. Sane(c, S)
      BY <1>2, <2>2 DEF Sane, NameOps, MePCs
    <2> QED BY <2>1, <2>2, <2>3
  <1>3. CASE l.op # "UpdateMe" /\ l.op \notin {"RemoveOrganization", "Cleanup"}
    <2>1. AfterPut(l) = Idle
      BY <1>3 DEF AfterPut
    <2> QED BY <2>1, IdleFacts
  <1> QED BY <1>1, <1>2, <1>3

LEMMA AfterNewUsersFacts ==
  ASSUME NEW l \in Local, NEW S, Sane(l, S), l.name \in Principals, NEW b \in BOOLEAN
  PROVE  AfterNewUsers(l, b) \in Local /\ Sane(AfterNewUsers(l, b), S)
  <1> DEFINE m == [l EXCEPT !.pc = "me.mappings", !.super = b]
             rec == [name |-> l.name, superAdmin |-> b \/ l.super,
                     roles |-> RolesIn(l.grants)]
  <1>1. CASE l.op = "Me"
    <2>1. m \in Local /\ m.op = l.op /\ m.pc = "me.mappings" /\ m.name = l.name
      BY LabelFacts DEF Local
    <2>2. Sane(m, S)
      BY <2>1 DEF Sane, MePCs
    <2> QED BY <1>1, <2>1, <2>2 DEF AfterNewUsers
  <1>2. CASE l.op # "Me"
    <2>1. b \/ l.super \in BOOLEAN
      BY DEF Local
    <2>2. rec \in UserRecord /\ OneRole(rec)
      BY <2>1, RolesInFacts
    <2>3. Add(l, rec) \in Local /\ Sane(Add(l, rec), S)
      BY <2>2, AddFacts
    <2> QED BY <1>2, <2>3 DEF AfterNewUsers
  <1> QED BY <1>1, <1>2

LEMMA MeInv ==
  ASSUME IInv, NEW r \in Requests, MeStep(r)
  PROVE  IInv'
  <1> DEFINE l == req[r]
  <1> USE LocalFacts
  <1>1. CASE UpdateMeOrg(r)
    BY <1>1, GotoFree, ErrorStep DEF UpdateMeOrg, FreeLabels
  <1>2. CASE UpdateMeFacade(r)
    <2>1. CASE Go(r, AfterPut(l)) /\ Reads
      BY <2>1, AfterPutFacts, QuietStep
    <2> QED BY <1>2, <2>1, GotoFree DEF UpdateMeFacade, FreeLabels
  <1>3. CASE UpdateMeRaw(r)
    <2>1. ASSUME NEW u \in ByName(l.name), users[u].superAdmin, Reads,
                 Go(r, Update(l, u, [users[u] EXCEPT !.roles = Grant(@, l.org)]))
          PROVE  IInv'
      <3> DEFINE rec == [users[u] EXCEPT !.roles = Grant(@, l.org)]
      <3>1. u \in Stored
        BY NamedFacts
      <3>2. u \in UserIds /\ rec \in UserRecord
        BY <3>1, StoredFacts DEF IInv, UserRecord, Roles, Grant, Local
      <3>3. u \in everSuper
        BY <2>1, <3>1 DEF IInv, StoreOK
      <3> QED BY <2>1, <3>2, <3>3, UpdateStep DEF Regular
    <2> QED BY <1>3, <2>1, ErrorStep DEF UpdateMeRaw
  <1>4. CASE MeGet(r)
    <2>1. ASSUME NEW u \in ByName(l.name), Reads,
                 Go(r, Update(l, u, [users[u] EXCEPT !.superAdmin = TRUE]))
          PROVE  IInv'
      <3> DEFINE rec == [users[u] EXCEPT !.superAdmin = TRUE]
      <3>1. u \in Stored
        BY NamedFacts
      <3>2. u \in UserIds /\ rec \in UserRecord /\ rec.roles = users[u].roles
        BY <3>1, StoredFacts DEF IInv, UserRecord
      <3>3. Regular(u, rec, everSuper)
        BY <3>1, <3>2 DEF IInv, StoreOK, Regular, OneRole
      <3> QED BY <2>1, <3>2, <3>3, UpdateStep
    <2>2. CASE Goto(r, "me.first") /\ At(r, "me.get") /\ Reads
      <3>1. Sane([l EXCEPT !.pc = "me.first"], everSuper)
        BY <2>2 DEF Sane, MePCs, At, Local
      <3> QED BY <2>2, <3>1, GotoSame, LabelFacts
    <2> QED BY <1>4, <2>1, <2>2, FinishStep DEF MeGet
  <1>5. CASE FirstUser(r)
    <2>1. l.name \in Principals
      BY <1>5 DEF FirstUser, At, Sane, MePCs
    <2>2. CASE Go(r, AfterNewUsers(l, TRUE))
      BY <1>5, <2>1, <2>2, AfterNewUsersFacts, QuietStep DEF FirstUser
    <2>3. CASE Goto(r, "me.config")
      <3>1. Sane([l EXCEPT !.pc = "me.config"], everSuper)
        BY <2>1 DEF Sane, MePCs, Local
      <3> QED BY <1>5, <2>3, <3>1, GotoSame, LabelFacts DEF FirstUser
    <2> QED BY <1>5, <2>2, <2>3 DEF FirstUser
  <1>6. CASE NewUsersConfig(r)
    <2>1. l.name \in Principals /\ superAdminNewUsers \in BOOLEAN
      BY <1>6 DEF NewUsersConfig, At, Sane, MePCs, IInv, TypeOK, StoreTypeOK
    <2> QED BY <1>6, <2>1, AfterNewUsersFacts, QuietStep DEF NewUsersConfig
  <1>7. CASE MePrincipalMappings(r)
    <2> DEFINE apply == {m \in MappingIds : mappings[m] # Absent
                                             /\ l.name \in Matches[m]}
               n == [l EXCEPT !.pc = "me.orgs",
                              !.asked = {mappings[m] : m \in apply}]
    <2>1. {mappings[m] : m \in apply} \in SUBSET OrgIds
      BY DEF IInv, TypeOK, StoreTypeOK
    <2> HIDE DEF apply
    <2>2. n \in Local /\ n.name = l.name /\ n.pc = "me.orgs" /\ n.op = l.op
      BY ZenonT(60), <2>1, LabelFacts DEF Local
    <2>3. Sane(n, everSuper)
      BY <1>7, <2>2 DEF MePrincipalMappings, At, Sane, MePCs
    <2>4. Go(r, n) /\ Reads
      BY <1>7 DEF MePrincipalMappings, apply
    <2> QED BY <2>2, <2>3, <2>4, QuietStep
  <1>8. CASE MeOrganization(r)
    <2>1. ASSUME NEW X \in SUBSET OrgIds, NEW Y \in SUBSET OrgIds,
                 NEW n, n = [l EXCEPT !.asked = X, !.grants = Y], Go(r, n)
          PROVE  IInv'
      <3>1. n \in Local /\ n.name = l.name /\ n.pc = l.pc /\ n.op = l.op
        BY ZenonT(60), <2>1 DEF Local
      <3>2. Sane(n, everSuper)
        BY <1>8, <3>1 DEF MeOrganization, At, Sane, MePCs
      <3> QED BY <1>8, <2>1, <3>1, <3>2, QuietStep DEF MeOrganization
    <2>2. PICK o \in l.asked :
            \/ Go(r, [l EXCEPT !.asked = @ \ {o}, !.grants = @ \cup {o}])
            \/ Go(r, [l EXCEPT !.asked = @ \ {o}])
      BY <1>8 DEF MeOrganization
    <2>3. /\ l.asked \ {o} \in SUBSET OrgIds /\ l.grants \cup {o} \in SUBSET OrgIds
          /\ l.grants \in SUBSET OrgIds
          /\ [l EXCEPT !.asked = @ \ {o}]
               = [l EXCEPT !.asked = l.asked \ {o}, !.grants = l.grants]
      BY DEF Local
    <2>4. CASE Go(r, [l EXCEPT !.asked = @ \ {o}, !.grants = @ \cup {o}])
      BY <2>1, <2>3, <2>4
    <2>5. CASE Go(r, [l EXCEPT !.asked = @ \ {o}])
      BY <2>1, <2>3, <2>5
    <2> QED BY <2>2, <2>4, <2>5
  <1>9. CASE MeNewUser(r)
    <2>1. l.name \in Principals
      BY <1>9 DEF MeNewUser, At, Sane, MePCs
    <2>2. ASSUME NEW X, NEW b \in BOOLEAN, Reads,
                 Go(r, Add(l, [name |-> l.name, superAdmin |-> b,
                               roles |-> RolesIn(X)]))
          PROVE  IInv'
      BY <2>1, <2>2, RolesInFacts, AddStep
    <2>3. (l.super \/ l.name \in AdminGroup) \in BOOLEAN
      BY DEF Local
    <2> QED BY <1>9, <2>2, <2>3, FinishStep DEF MeNewUser
  <1> QED BY <1>1, <1>2, <1>3, <1>4, <1>5, <1>6, <1>7, <1>8, <1>9 DEF MeStep

----------------------------------------------------------------------------
(* The users handlers and the two users stores. *)

LEMMA ReadUsersInv ==
  ASSUME IInv, NEW r \in Requests,
         \/ NewUserConfig(r) \/ UpdateUserGet(r) \/ ValidRole(r)
         \/ CreateFromRequest(r) \/ EditFromRequest(r) \/ NewBasicUserGet(r)
         \/ RemoveUserGet(r) \/ LockedUserGet(r)
  PROVE  IInv'
  <1> DEFINE l == req[r]
  <1> USE LocalFacts
  <1>1. CASE NewUserConfig(r)
    <2> DEFINE n == [l EXCEPT !.pc = "roles", !.super = @ \/ superAdminNewUsers]
    <2>1. n \in Local /\ n.op = l.op /\ n.pc = "roles" /\ n.name = l.name
          /\ n.uid = l.uid /\ n.rec = l.rec
      BY ZenonT(60), LabelFacts DEF IInv, TypeOK, StoreTypeOK, Local
    <2>2. Sane(n, everSuper)
      BY <1>1, <2>1 DEF NewUserConfig, At, Sane, MePCs
    <2> QED BY <1>1, <2>1, <2>2, QuietStep DEF NewUserConfig
  <1>2. CASE UpdateUserGet(r)
    <2> DEFINE n == [l EXCEPT !.pc = "roles", !.rec = users[l.uid]]
    <2>1. CASE Present(l.uid) /\ Go(r, n)
      <3>1. l.uid \in UserIds /\ users[l.uid] \in UserRecord
        BY <2>1, StoredFacts DEF IInv, Present, Stored
      <3>2. n \in Local /\ n.op = l.op /\ n.pc = "roles" /\ n.name = l.name
            /\ n.uid = l.uid /\ n.rec = users[l.uid]
        BY ZenonT(60), <3>1, LabelFacts DEF Local
      <3>3. Sane(n, everSuper)
        BY <3>1, <3>2 DEF Sane, MePCs
      <3> QED BY <1>2, <2>1, <3>2, <3>3, QuietStep DEF UpdateUserGet
    <2> QED BY <1>2, <2>1, ErrorStep DEF UpdateUserGet
  <1>3. CASE ValidRole(r)
    <2>1. ASSUME NEW X \in SUBSET OrgIds, NEW Y \in SUBSET OrgIds,
                 NEW n, n = [l EXCEPT !.asked = X, !.grants = Y], Go(r, n)
          PROVE  IInv'
      <3>1. n \in Local /\ n.op = l.op /\ n.pc = l.pc /\ n.name = l.name
            /\ n.uid = l.uid /\ n.rec = l.rec
        BY ZenonT(60), <2>1 DEF Local
      <3>2. Sane(n, everSuper)
        BY <1>3, <3>1 DEF ValidRole, At, Sane
      <3> QED BY <1>3, <2>1, <3>1, <3>2, QuietStep DEF ValidRole
    <2>2. PICK o \in l.asked :
            \/ Go(r, [l EXCEPT !.asked = @ \ {o}, !.grants = @ \cup {o}])
            \/ Go(r, [l EXCEPT !.asked = @ \ {o}])
            \/ Error(r)
      BY <1>3 DEF ValidRole
    <2>3. /\ l.asked \ {o} \in SUBSET OrgIds /\ l.grants \cup {o} \in SUBSET OrgIds
          /\ l.grants \in SUBSET OrgIds
          /\ [l EXCEPT !.asked = @ \ {o}]
               = [l EXCEPT !.asked = l.asked \ {o}, !.grants = l.grants]
      BY DEF Local
    <2>4. CASE Go(r, [l EXCEPT !.asked = @ \ {o}, !.grants = @ \cup {o}])
      BY <2>1, <2>3, <2>4
    <2>5. CASE Go(r, [l EXCEPT !.asked = @ \ {o}])
      BY <2>1, <2>3, <2>5
    <2> QED BY <1>3, <2>2, <2>4, <2>5, ErrorStep DEF ValidRole
  <1>4. CASE CreateFromRequest(r)
    <2> DEFINE rec == [name |-> l.name, superAdmin |-> l.super,
                       roles |-> RolesIn(l.grants)]
               n == [Add(l, rec) EXCEPT !.pc = "fadd.get"]
    <2>1. CASE l.op \in {"NewUser", "OrganizationNewUser"}
      <3>1. l.name \in Principals /\ l.super \in BOOLEAN
        BY <2>1 DEF Sane, NameOps, Local
      <3>2. rec \in UserRecord /\ OneRole(rec)
        BY <3>1, RolesInFacts
      <3> HIDE DEF rec
      <3>3. Add(l, rec) \in Local /\ Add(l, rec).op = l.op
            /\ Add(l, rec).name = l.name /\ Add(l, rec).rec = rec
        BY <3>2, AddFacts
      <3>4. n \in Local /\ n.op = l.op /\ n.name = l.name /\ n.rec = rec
            /\ n.pc = "fadd.get"
        BY <3>3, LabelFacts DEF Local
      <3>5. Sane(n, everSuper)
        BY <3>1, <3>2, <3>4 DEF Sane
      <3> USE DEF rec
      <3>6. CASE Go(r, Add(l, rec))
        BY <1>4, <3>2, <3>6, AddStep DEF CreateFromRequest
      <3>7. CASE Go(r, n)
        BY <1>4, <3>4, <3>5, <3>7, QuietStep DEF CreateFromRequest
      <3> QED BY <1>4, <3>6, <3>7, ErrorStep DEF CreateFromRequest
    <2> QED BY <1>4, <2>1 DEF CreateFromRequest
  <1>5. CASE EditFromRequest(r)
    <2> DEFINE rec == [l.rec EXCEPT !.superAdmin = l.super,
                                    !.roles = RolesIn(l.grants)]
               n == [Update(l, l.uid, rec) EXCEPT !.pc = "fupd.get"]
    <2>1. l.op \in EditOps /\ l.pc = "roles"
      BY <1>5 DEF EditFromRequest, EditOps, At
    <2>2. l.uid \in UserIds /\ l.rec \in UserRecord /\ l.super \in BOOLEAN
      BY <2>1 DEF Sane, Local
    <2>a. RolesIn(l.grants) \in Roles
          /\ \A o \in OrgIds : RolesIn(l.grants)[o] <= 1
      BY DEF Roles, RolesIn
    <2>3. rec \in UserRecord /\ OneRole(rec)
      BY <2>2, <2>a DEF UserRecord, OneRole
    <2> HIDE DEF rec
    <2>4. Regular(l.uid, rec, everSuper)
      BY <2>3 DEF Regular
    <2>5. Update(l, l.uid, rec) \in Local /\ Sane(Update(l, l.uid, rec), everSuper)
          /\ Update(l, l.uid, rec).uid = l.uid /\ Update(l, l.uid, rec).rec = rec
          /\ Update(l, l.uid, rec).op = l.op /\ Update(l, l.uid, rec).name = l.name
      BY <2>2, <2>3, <2>4, UpdateFacts
    <2>6. n \in Local /\ n.op = l.op /\ n.name = l.name /\ n.rec = rec
          /\ n.uid = l.uid /\ n.pc = "fupd.get"
      BY <2>5, LabelFacts DEF Local
    <2>7. Sane(n, everSuper)
      BY <2>1, <2>2, <2>3, <2>4, <2>6 DEF Sane, EditOps, NameOps, MePCs
    <2> USE DEF rec
    <2>8. CASE Go(r, Update(l, l.uid, rec))
      BY <1>5, <2>5, <2>8, QuietStep DEF EditFromRequest
    <2>9. CASE Go(r, n)
      BY <1>5, <2>6, <2>7, <2>9, QuietStep DEF EditFromRequest
    <2> QED BY <1>5, <2>8, <2>9, ErrorStep DEF EditFromRequest
  <1>6. CASE NewBasicUserGet(r)
    <2>1. l.op = "NewBasicUser" /\ l.name \in Principals
      BY <1>6 DEF NewBasicUserGet, Sane, NameOps
    <2>2. Sane([l EXCEPT !.pc = "me.first"], everSuper)
      BY <2>1 DEF Sane, Local
    <2> QED BY <1>6, <2>2, GotoSame, LabelFacts, ErrorStep DEF NewBasicUserGet
  <1>7. CASE RemoveUserGet(r)
    BY <1>7, GotoFree, ErrorStep DEF RemoveUserGet, FreeLabels
  <1>8. CASE LockedUserGet(r)
    <2>1. ASSUME NEW u \in ByName(l.name), Go(r, Update(l, u, users[u])), Reads
          PROVE  IInv'
      <3>1. u \in Stored
        BY NamedFacts
      <3>2. u \in UserIds /\ users[u] \in UserRecord /\ Regular(u, users[u], everSuper)
        BY <3>1, StoredFacts DEF IInv, StoreOK
      <3> QED BY <2>1, <3>2, UpdateStep
    <2> QED BY <1>8, <2>1, ErrorStep DEF LockedUserGet
  <1> QED BY <1>1, <1>2, <1>3, <1>4, <1>5, <1>6, <1>7, <1>8

\* Present, as the handlers ask it.
LEMMA PresentFacts ==
  ASSUME IInv, NEW u, Present(u)
  PROVE  u \in Stored /\ u \in UserIds /\ users[u] \in UserRecord
         /\ users[u].roles \in Roles /\ Regular(u, users[u], everSuper)
  BY StoredFacts DEF IInv, Present, Stored, StoreOK

\* Stripping or merging keeps a record regular.
LEMMA StripFacts ==
  ASSUME NEW u, NEW S, NEW rec \in UserRecord, Regular(u, rec, S), NEW o \in OrgIds
  PROVE  LET new == [rec EXCEPT !.roles = Strip(@, o)]
         IN  new \in UserRecord /\ Regular(u, new, S)
  <1>1. Strip(rec.roles, o) \in Roles
        /\ \A x \in OrgIds : Strip(rec.roles, o)[x] <= rec.roles[x]
    BY DEF UserRecord, Roles, Strip
  <1> QED BY <1>1 DEF UserRecord, Roles, Regular, OneRole

LEMMA MergeFacts ==
  ASSUME NEW stored \in Roles, NEW given \in Roles, NEW o \in OrgIds
  PROVE  Merge(stored, given, o) \in Roles
         /\ \A x \in OrgIds : Merge(stored, given, o)[x] \in {stored[x], given[x]}
  BY DEF Merge, Roles

LEMMA FacadeInv ==
  ASSUME IInv, NEW r \in Requests,
         FacadeAdd(r) \/ FacadeGet(r) \/ FacadeUpdate(r) \/ FacadeDelete(r)
  PROVE  IInv'
  <1> DEFINE l == req[r]
  <1> USE LocalFacts
  <1>0. l.org \in OrgIds
    BY DEF Local
  <1>1. CASE FacadeAdd(r)
    <2>1. l.rec \in UserRecord /\ OneRole(l.rec)
      BY <1>1 DEF FacadeAdd, At, Sane
    <2>2. ASSUME NEW u \in ByName(l.name), Reads,
                 Go(r, Update(l, u, [users[u] EXCEPT
                                       !.superAdmin = @ \/ l.rec.superAdmin,
                                       !.roles = Merge(@, l.rec.roles, l.org)]))
          PROVE  IInv'
      <3> DEFINE rec == [users[u] EXCEPT !.superAdmin = @ \/ l.rec.superAdmin,
                                         !.roles = Merge(@, l.rec.roles, l.org)]
                 merged == Merge(users[u].roles, l.rec.roles, l.org)
      <3>1. u \in Stored
        BY NamedFacts
      <3>2. u \in UserIds /\ users[u] \in UserRecord /\ users[u].roles \in Roles
            /\ Regular(u, users[u], everSuper)
        BY <3>1, StoredFacts DEF IInv, StoreOK
      <3>3. merged \in Roles
            /\ \A x \in OrgIds : merged[x] \in {users[u].roles[x], l.rec.roles[x]}
        BY <1>0, <2>1, <3>2, MergeFacts DEF UserRecord
      <3>4. rec \in UserRecord /\ rec.roles = merged
        BY <2>1, <3>2, <3>3 DEF UserRecord
      <3>5. Regular(u, rec, everSuper)
        BY <2>1, <3>2, <3>3, <3>4 DEF Regular, OneRole
      <3> QED BY <2>2, <3>2, <3>4, <3>5, UpdateStep
    <2>3. CASE Go(r, Add(l, l.rec))
      BY <1>1, <2>1, <2>3, AddStep DEF FacadeAdd
    <2> QED BY <1>1, <2>2, <2>3, ErrorStep DEF FacadeAdd
  <1>2. CASE FacadeGet(r)
    <2> DEFINE own == [users[l.uid] EXCEPT
                  !.roles = [o \in OrgIds |-> IF o = l.org THEN @[o] ELSE 0]]
               n == [l EXCEPT !.pc = "roles", !.rec = own]
    <2>1. CASE Present(l.uid) /\ Go(r, n)
      <3>1. l.uid \in UserIds /\ users[l.uid] \in UserRecord
            /\ users[l.uid].roles \in Roles
        BY <2>1, PresentFacts
      <3>2. [o \in OrgIds |-> IF o = l.org THEN users[l.uid].roles[o] ELSE 0] \in Roles
        BY <3>1 DEF Roles
      <3>3. own \in UserRecord
        BY <3>1, <3>2 DEF UserRecord
      <3> HIDE DEF own
      <3>4. n \in Local /\ n.op = l.op /\ n.pc = "roles" /\ n.name = l.name
            /\ n.uid = l.uid /\ n.rec = own
        BY ZenonT(60), <3>3, LabelFacts DEF Local
      <3>5. Sane(n, everSuper)
        BY <3>1, <3>3, <3>4 DEF Sane, MePCs
      <3> QED BY <1>2, <2>1, <3>4, <3>5, QuietStep DEF FacadeGet
    <2> QED BY <1>2, <2>1, GotoFree, ErrorStep DEF FacadeGet, FreeLabels
  <1>3. CASE FacadeUpdate(r)
    <2> DEFINE merged == Merge(users[l.uid].roles, l.rec.roles, l.org)
               rec == [l.rec EXCEPT !.roles = Merge(users[l.uid].roles, @, l.org)]
    <2>1. CASE Present(l.uid) /\ Go(r, Update(l, l.uid, rec))
      <3>1. l.rec \in UserRecord /\ Regular(l.uid, l.rec, everSuper)
        BY <1>3 DEF FacadeUpdate, At, Sane
      <3>2. l.uid \in UserIds /\ users[l.uid].roles \in Roles
            /\ Regular(l.uid, users[l.uid], everSuper)
        BY <2>1, PresentFacts
      <3>3. merged \in Roles
            /\ \A x \in OrgIds : merged[x] \in {users[l.uid].roles[x], l.rec.roles[x]}
        BY <1>0, <3>1, <3>2, MergeFacts DEF UserRecord
      <3>4. rec \in UserRecord /\ rec.roles = merged
        BY <3>1, <3>3 DEF UserRecord
      <3>5. Regular(l.uid, rec, everSuper)
        BY <3>1, <3>2, <3>3, <3>4 DEF Regular, OneRole
      <3> QED BY <1>3, <2>1, <3>2, <3>4, <3>5, UpdateStep DEF FacadeUpdate
    <2> QED BY <1>3, <2>1, ErrorStep DEF FacadeUpdate
  <1>4. CASE FacadeDelete(r)
    <2> DEFINE rec == [users[l.uid] EXCEPT !.roles = Strip(@, l.org)]
    <2>1. CASE Present(l.uid) /\ Go(r, Update(l, l.uid, rec))
      <3>1. l.uid \in UserIds /\ rec \in UserRecord /\ Regular(l.uid, rec, everSuper)
        BY <1>0, <2>1, PresentFacts, StripFacts
      <3> QED BY <1>4, <2>1, <3>1, UpdateStep DEF FacadeDelete
    <2> QED BY <1>4, <2>1, ErrorStep DEF FacadeDelete
  <1> QED BY <1>1, <1>2, <1>3, <1>4

LEMMA StoreUsersInv ==
  ASSUME IInv, NEW r \in Requests,
         UpdateGet(r) \/ UpdatePut(r) \/ AddExists(r) \/ AddPut(r)
         \/ RemoveUserDelete(r)
  PROVE  IInv'
  <1> DEFINE l == req[r]
  <1> USE LocalFacts
  <1>1. CASE UpdateGet(r)
    <2>1. Sane([l EXCEPT !.pc = "update.put"], everSuper)
      BY <1>1 DEF UpdateGet, At, Sane, Local, MePCs
    <2> QED BY <1>1, <2>1, GotoSame, LabelFacts, ErrorStep DEF UpdateGet
  <1>2. CASE UpdatePut(r)
    <2>1. l.uid \in UserIds /\ l.rec \in UserRecord /\ Regular(l.uid, l.rec, everSuper)
      BY <1>2 DEF UpdatePut, At, Sane
    <2>2. /\ users' = [users EXCEPT ![l.uid] = l.rec]
          /\ everSuper' = everSuper \cup {v \in {l.uid} : l.rec.superAdmin}
          /\ Go(r, AfterPut(l))
          /\ UNCHANGED <<userSeq, orgs, orgSeq, mappings, owned, devices,
                         superAdminNewUsers>>
      BY <1>2 DEF UpdatePut, WasSuper
    <2>3. StoreTypeOK'
      BY <2>1, <2>2 DEF IInv, TypeOK, StoreTypeOK
    <2>4. StoreOK'
      BY <2>1, <2>2 DEF IInv, TypeOK, StoreTypeOK, StoreOK, Stored, Regular
    <2>5. DefaultOrgStays'
      BY <2>2 DEF IInv, DefaultOrgStays, OrgExists
    <2>6. AfterPut(l) \in Local /\ Sane(AfterPut(l), everSuper')
      BY <2>2, AfterPutFacts, SaneGrows
    <2> QED BY <2>2, <2>3, <2>4, <2>5, <2>6, HandlerStep
  <1>3. CASE AddExists(r)
    <2>1. Sane([l EXCEPT !.pc = "add.put"], everSuper)
      BY <1>3 DEF AddExists, At, Sane, Local, MePCs
    <2> QED BY <1>3, <2>1, GotoSame, LabelFacts, ErrorStep DEF AddExists
  <1>4. CASE AddPut(r)
    <2>1. l.rec \in UserRecord /\ OneRole(l.rec)
      BY <1>4 DEF AddPut, At, Sane
    <2>2. CASE userSeq < MaxUsers
      <3> DEFINE id == userSeq + 1
      <3>1. /\ users' = [users EXCEPT ![id] = l.rec] /\ userSeq' = id
            /\ everSuper' = everSuper \cup {v \in {id} : l.rec.superAdmin}
            /\ Finish(r)
            /\ UNCHANGED <<orgs, orgSeq, mappings, owned, devices,
                           superAdminNewUsers>>
        BY <1>4, <2>2, TenancyAssumption DEF AddPut, WasSuper
      <3>2. id \in UserIds /\ id \in 0 .. MaxUsers
        BY <2>2, TenancyAssumption DEF IInv, TypeOK, StoreTypeOK, UserIds
      <3>3. StoreTypeOK'
        BY <2>1, <3>1, <3>2 DEF IInv, TypeOK, StoreTypeOK
      <3>4. StoreOK'
        BY <2>1, <3>1, <3>2
           DEF IInv, TypeOK, StoreTypeOK, StoreOK, Stored, Regular
      <3>5. DefaultOrgStays'
        BY <3>1 DEF IInv, DefaultOrgStays, OrgExists
      <3> QED BY <3>1, <3>3, <3>4, <3>5, IdleFacts, HandlerStep DEF Finish
    <2>3. CASE ~(userSeq < MaxUsers)
      BY <1>4, <2>3, ErrorStep DEF AddPut, Reads, store
    <2> QED BY <2>2, <2>3
  <1>5. CASE RemoveUserDelete(r)
    <2>1. StoreTypeOK' /\ everSuper' = everSuper
      BY <1>5 DEF RemoveUserDelete, IInv, TypeOK, StoreTypeOK
    <2>2. StoreOK'
      BY <1>5 DEF RemoveUserDelete, IInv, TypeOK, StoreTypeOK, StoreOK, Stored
    <2>3. DefaultOrgStays'
      BY <1>5 DEF RemoveUserDelete, IInv, DefaultOrgStays, OrgExists
    <2> QED BY <1>5, <2>1, <2>2, <2>3, IdleFacts, HandlerStep
            DEF RemoveUserDelete, Finish
  <1> QED BY <1>1, <1>2, <1>3, <1>4, <1>5

LEMMA UsersInv ==
  ASSUME IInv, NEW r \in Requests, UsersStep(r)
  PROVE  IInv'
  BY ReadUsersInv, FacadeInv, StoreUsersInv DEF UsersStep
----------------------------------------------------------------------------
(* The organizations handlers. *)

\* Only the organizations, mappings, resources or devices change.
LEMMA UsersSame ==
  ASSUME IInv, users' = users, everSuper' = everSuper
  PROVE  StoreOK'
  BY DEF IInv, StoreOK, Stored, Regular

\* A stored record with one role in one organization: NewOrganization's admin.
LEMMA CreatorFacts ==
  ASSUME NEW rec \in UserRecord, NEW X
  PROVE  LET new == [rec EXCEPT !.roles = RolesIn(X)]
         IN  new \in UserRecord /\ OneRole(new)
  <1>1. RolesIn(X) \in Roles /\ \A o \in OrgIds : RolesIn(X)[o] <= 1
    BY DEF Roles, RolesIn
  <1> QED BY <1>1 DEF UserRecord, OneRole

LEMMA EditOrganizationsInv ==
  ASSUME IInv, NEW r \in Requests,
         \/ NewOrganizationUnique(r) \/ NewOrganizationPut(r)
         \/ UpdateOrganizationGet(r) \/ UpdateOrganizationKvGet(r)
         \/ UpdateOrganizationUnique(r) \/ UpdateOrganizationPut(r)
  PROVE  IInv'
  <1> DEFINE l == req[r]
  <1> USE LocalFacts
  <1>1. CASE NewOrganizationUnique(r)
    <2>1. Sane([l EXCEPT !.pc = "no.put"], everSuper)
      BY <1>1 DEF NewOrganizationUnique, At, Sane, Local, MePCs
    <2> QED BY <1>1, <2>1, GotoSame, LabelFacts, ErrorStep DEF NewOrganizationUnique
  <1>2. CASE NewOrganizationPut(r)
    <2> DEFINE id == orgSeq + 1
               rec == [l.rec EXCEPT !.roles = RolesIn({id})]
               n == [Add(l, rec) EXCEPT !.pc = "fadd.get", !.org = id]
    <2>1. l.rec \in UserRecord /\ l.oname \in OrgNames
      BY <1>2 DEF NewOrganizationPut, At, Sane
    <2>2. CASE orgSeq < MaxOrgs
      <3>1. /\ orgSeq' = id /\ orgs' = [orgs EXCEPT ![id] = l.oname] /\ Go(r, n)
            /\ UNCHANGED <<users, userSeq, mappings, owned, devices,
                           superAdminNewUsers, everSuper>>
        BY <1>2, <2>2, TenancyAssumption DEF NewOrganizationPut
      <3>2. id \in OrgIds /\ id \in 0 .. MaxOrgs
        BY <2>2, TenancyAssumption DEF IInv, TypeOK, StoreTypeOK
      <3>3. StoreTypeOK' /\ StoreOK'
        BY <2>1, <3>1, <3>2, UsersSame DEF IInv, TypeOK, StoreTypeOK
      <3>4. DefaultOrgStays'
        BY <2>1, <3>1, <3>2, TenancyAssumption
           DEF IInv, TypeOK, StoreTypeOK, DefaultOrgStays, OrgExists, DefaultOrg
      <3>5. rec \in UserRecord /\ OneRole(rec)
        BY <2>1, CreatorFacts
      <3> HIDE DEF rec
      <3>6. Add(l, rec) \in Local /\ Add(l, rec).op = l.op
            /\ Add(l, rec).name = l.name /\ Add(l, rec).rec = rec
        BY <3>5, AddFacts
      <3>7. n \in Local /\ n.op = l.op /\ n.name = l.name /\ n.rec = rec
            /\ n.pc = "fadd.get"
        BY <3>2, <3>6, LabelFacts DEF Local
      <3>8. Sane(n, everSuper')
        BY <3>1, <3>5, <3>7 DEF Sane, MePCs
      <3> QED BY <3>1, <3>3, <3>4, <3>7, <3>8, HandlerStep
    <2>3. CASE ~(orgSeq < MaxOrgs)
      BY <1>2, <2>3, ErrorStep DEF NewOrganizationPut, Reads, store
    <2> QED BY <2>2, <2>3
  <1>3. CASE UpdateOrganizationGet(r)
    <2> DEFINE name == IF l.oname = Absent THEN orgs[l.org] ELSE l.oname
               n == [l EXCEPT !.pc = "uo.kvget",
                              !.oname = IF @ = Absent THEN orgs[l.org] ELSE @]
    <2>1. CASE OrgExists(l.org) /\ Go(r, n)
      <3>1. name \in OrgNames
        BY <2>1 DEF IInv, TypeOK, StoreTypeOK, OrgExists, Local
      <3>2. n \in Local /\ n.op = l.op /\ n.pc = "uo.kvget" /\ n.name = l.name
            /\ n.oname = name
        BY ZenonT(60), <3>1, LabelFacts DEF Local
      <3>3. Sane(n, everSuper)
        BY <3>1, <3>2 DEF Sane, MePCs
      <3> QED BY <1>3, <2>1, <3>2, <3>3, QuietStep DEF UpdateOrganizationGet
    <2> QED BY <1>3, <2>1, ErrorStep DEF UpdateOrganizationGet
  <1>4. CASE UpdateOrganizationKvGet(r)
    <2>1. \A x \in {"uo.put", "uo.unique"} : Sane([l EXCEPT !.pc = x], everSuper)
      BY <1>4 DEF UpdateOrganizationKvGet, At, Sane, Local, MePCs
    <2> QED BY <1>4, <2>1, GotoSame, LabelFacts, ErrorStep
            DEF UpdateOrganizationKvGet
  <1>5. CASE UpdateOrganizationUnique(r)
    <2>1. Sane([l EXCEPT !.pc = "uo.put"], everSuper)
      BY <1>5 DEF UpdateOrganizationUnique, At, Sane, Local, MePCs
    <2> QED BY <1>5, <2>1, GotoSame, LabelFacts, ErrorStep
            DEF UpdateOrganizationUnique
  <1>6. CASE UpdateOrganizationPut(r)
    <2>1. l.org \in OrgIds /\ l.oname \in OrgNames
      BY <1>6 DEF UpdateOrganizationPut, At, Sane, Local
    <2>2. StoreTypeOK' /\ StoreOK' /\ everSuper' = everSuper
      BY <1>6, <2>1, UsersSame DEF UpdateOrganizationPut, IInv, TypeOK, StoreTypeOK
    <2>3. DefaultOrgStays'
      BY <1>6, <2>1, TenancyAssumption
         DEF UpdateOrganizationPut, IInv, TypeOK, StoreTypeOK, DefaultOrgStays,
             OrgExists, DefaultOrg
    <2> QED BY <1>6, <2>2, <2>3, IdleFacts, HandlerStep
            DEF UpdateOrganizationPut, Finish
  <1> QED BY <1>1, <1>2, <1>3, <1>4, <1>5, <1>6

\* The labels of a removal ask nothing of the locals but the kind.
LEMMA RemovalFacts ==
  ASSUME IInv, NEW r \in Requests, NEW n \in Local, n.op = req[r].op,
         n.name = req[r].name, n.pc \in {"casc.res", "casc.users", "casc.maps"}
  PROVE  Sane(n, everSuper)
  BY LocalFacts DEF Sane, MePCs

LEMMA RemoveOrganizationsInv ==
  ASSUME IInv, NEW r \in Requests,
         \/ RemoveOrganizationGet(r) \/ RemoveOrganizationDevices(r)
         \/ DeleteOrganizationGet(r) \/ DeleteOrganizationPut(r)
  PROVE  IInv'
  <1> DEFINE l == req[r]
  <1> USE LocalFacts
  <1>1. CASE RemoveOrganizationGet(r)
    BY <1>1, GotoFree, ErrorStep DEF RemoveOrganizationGet, FreeLabels
  <1>2. CASE RemoveOrganizationDevices(r)
    BY <1>2, GotoFree, ErrorStep DEF RemoveOrganizationDevices, FreeLabels
  <1>3. CASE DeleteOrganizationGet(r)
    <2>1. CASE l.org # DefaultOrg /\ Goto(r, "odel.put")
      <3>1. Sane([l EXCEPT !.pc = "odel.put"], everSuper)
        BY <2>1 DEF Sane, Local, MePCs
      <3> QED BY <1>3, <2>1, <3>1, GotoSame, LabelFacts DEF DeleteOrganizationGet
    <2> QED BY <1>3, <2>1, ErrorStep DEF DeleteOrganizationGet
  <1>4. CASE DeleteOrganizationPut(r)
    <2> DEFINE n == [l EXCEPT !.pc = "casc.res", !.kind = 1]
    <2>1. l.org \in OrgIds /\ l.org # DefaultOrg
      BY <1>4 DEF DeleteOrganizationPut, At, Sane, Local
    <2>2. StoreTypeOK' /\ StoreOK' /\ everSuper' = everSuper
      BY <1>4, <2>1, UsersSame DEF DeleteOrganizationPut, IInv, TypeOK, StoreTypeOK
    <2>3. DefaultOrgStays'
      BY <1>4, <2>1 DEF DeleteOrganizationPut, IInv, TypeOK, StoreTypeOK,
                        DefaultOrgStays, OrgExists
    <2>4. n \in Local /\ n.op = l.op /\ n.pc = "casc.res" /\ n.name = l.name
      BY ZenonT(60), LabelFacts DEF Local
    <2>5. Sane(n, everSuper)
      BY <2>4, RemovalFacts
    <2> QED BY <1>4, <2>2, <2>3, <2>4, <2>5, HandlerStep DEF DeleteOrganizationPut
  <1> QED BY <1>1, <1>2, <1>3, <1>4

LEMMA CascadeInv ==
  ASSUME IInv, NEW r \in Requests,
         \/ CascadeList(r) \/ CascadeDelete(r) \/ CascadeListUsers(r)
         \/ CascadeUser(r) \/ CascadeListMappings(r) \/ CascadeMapping(r)
  PROVE  IInv'
  <1> DEFINE l == req[r]
  <1> USE LocalFacts
  <1>1. CASE CascadeList(r)
    <2> DEFINE n == [l EXCEPT !.kind = @ + 1]
    <2>1. CASE Goto(r, "casc.resdel")
      <3>1. Sane([l EXCEPT !.pc = "casc.resdel"], everSuper)
        BY <1>1 DEF CascadeList, At, Sane, Local, MePCs
      <3> QED BY <1>1, <2>1, <3>1, GotoSame, LabelFacts DEF CascadeList
    <2>2. CASE Go(r, n)
      <3>1. n \in Local /\ n.op = l.op /\ n.pc = "casc.res" /\ n.name = l.name
        BY <1>1 DEF CascadeList, At, Local
      <3>2. Sane(n, everSuper)
        BY <3>1, RemovalFacts
      <3> QED BY <1>1, <2>2, <3>1, <3>2, QuietStep DEF CascadeList
    <2> QED BY <1>1, <2>1, <2>2 DEF CascadeList
  <1>2. CASE CascadeDelete(r)
    <2> DEFINE k == l.kind + 1
               n == [l EXCEPT !.pc = "casc.res", !.kind = k]
    <2>1. CASE l.org \in owned[l.kind]
      <3>1. /\ owned' = [owned EXCEPT ![l.kind] = @ \ {l.org}] /\ Go(r, n)
            /\ UNCHANGED <<users, userSeq, orgs, orgSeq, mappings, devices,
                           superAdminNewUsers, everSuper>>
        BY <1>2, <2>1 DEF CascadeDelete
      <3>2. l.kind \in Kinds
        BY <1>2 DEF CascadeDelete, At, Sane
      <3>3. StoreTypeOK' /\ StoreOK'
        BY <3>1, <3>2, UsersSame DEF IInv, TypeOK, StoreTypeOK
      <3>4. DefaultOrgStays'
        BY <3>1 DEF IInv, DefaultOrgStays, OrgExists
      <3>5. k \in Nat
        BY DEF Local
      <3> HIDE DEF k
      <3>6. n \in Local /\ n.op = l.op /\ n.pc = "casc.res" /\ n.name = l.name
        BY ZenonT(60), <3>5, LabelFacts DEF Local
      <3>7. Sane(n, everSuper)
        BY <3>6, RemovalFacts
      <3> QED BY <3>1, <3>3, <3>4, <3>6, <3>7, HandlerStep
    <2>2. CASE l.org \notin owned[l.kind]
      BY <1>2, <2>2, ErrorStep DEF CascadeDelete, Reads, store
    <2> QED BY <2>1, <2>2
  <1>3. CASE CascadeListUsers(r)
    <2> DEFINE some == {u \in Stored : users[u].roles[l.org] > 0}
               n == [l EXCEPT !.pc = "casc.users", !.usersLeft = some]
    <2>1. some \in SUBSET UserIds
      BY DEF Stored
    <2> HIDE DEF some
    <2>2. n \in Local /\ n.op = l.op /\ n.pc = "casc.users" /\ n.name = l.name
      BY ZenonT(60), <2>1, LabelFacts DEF Local
    <2>3. Sane(n, everSuper)
      BY <2>2, RemovalFacts
    <2> USE DEF some
    <2> QED BY <1>3, <2>2, <2>3, QuietStep DEF CascadeListUsers
  <1>4. CASE CascadeUser(r)
    <2>1. ASSUME NEW u \in l.usersLeft, Present(u), Reads,
                 Go(r, Update([l EXCEPT !.usersLeft = @ \ {u}], u,
                              [users[u] EXCEPT !.roles = Strip(@, l.org)]))
          PROVE  IInv'
      <3> DEFINE m == [l EXCEPT !.usersLeft = @ \ {u}]
                 rec == [users[u] EXCEPT !.roles = Strip(@, l.org)]
      <3>1. m \in Local /\ m.op = l.op /\ m.pc = "casc.users" /\ m.name = l.name
        BY <1>4 DEF CascadeUser, At, Local
      <3>2. Sane(m, everSuper)
        BY <3>1, RemovalFacts
      <3>3. l.org \in OrgIds
        BY DEF Local
      <3>4. u \in UserIds /\ rec \in UserRecord /\ Regular(u, rec, everSuper)
        BY <2>1, <3>3, PresentFacts, StripFacts
      <3> HIDE DEF m, rec
      <3>5. Update(m, u, rec) \in Local /\ Sane(Update(m, u, rec), everSuper)
        BY <3>1, <3>2, <3>4, UpdateFacts
      <3> QED BY <2>1, <3>5, QuietStep DEF m, rec
    <2> QED BY <1>4, <2>1, ErrorStep DEF CascadeUser
  <1>5. CASE CascadeListMappings(r)
    <2> DEFINE some == {m \in MappingIds : mappings[m] = l.org}
               n == [l EXCEPT !.pc = "casc.maps", !.mapsLeft = some]
    <2>1. n \in Local /\ n.op = l.op /\ n.pc = "casc.maps" /\ n.name = l.name
      BY ZenonT(60), LabelFacts DEF Local
    <2>2. Sane(n, everSuper)
      BY <2>1, RemovalFacts
    <2> QED BY <1>5, <2>1, <2>2, QuietStep DEF CascadeListMappings
  <1>6. CASE CascadeMapping(r)
    <2>1. CASE Finish(r) /\ UNCHANGED mappings
      BY <1>6, <2>1, FinishStep DEF CascadeMapping, Reads, store
    <2>2. CASE Error(r) /\ UNCHANGED mappings
      BY <1>6, <2>2, ErrorStep DEF CascadeMapping, Reads, store
    <2>3. ASSUME NEW m \in l.mapsLeft,
                 mappings' = [mappings EXCEPT ![m] = Absent],
                 Go(r, [l EXCEPT !.mapsLeft = @ \ {m}])
          PROVE  IInv'
      <3> DEFINE n == [l EXCEPT !.mapsLeft = @ \ {m}]
      <3>1. UNCHANGED <<users, userSeq, orgs, orgSeq, owned, devices,
                        superAdminNewUsers, everSuper>>
        BY <1>6 DEF CascadeMapping
      <3>2. StoreTypeOK' /\ StoreOK'
        BY <2>3, <3>1, UsersSame DEF IInv, TypeOK, StoreTypeOK
      <3>3. DefaultOrgStays'
        BY <3>1 DEF IInv, DefaultOrgStays, OrgExists
      <3>4. n \in Local /\ n.op = l.op /\ n.pc = "casc.maps" /\ n.name = l.name
        BY <1>6 DEF CascadeMapping, At, Local
      <3>5. Sane(n, everSuper)
        BY <3>4, RemovalFacts
      <3> QED BY <2>3, <3>1, <3>2, <3>3, <3>4, <3>5, HandlerStep
    <2> QED BY <1>6, <2>1, <2>2, <2>3 DEF CascadeMapping
  <1> QED BY <1>1, <1>2, <1>3, <1>4, <1>5, <1>6

LEMMA OrganizationsInv ==
  ASSUME IInv, NEW r \in Requests, OrganizationsStep(r)
  PROVE  IInv'
  BY EditOrganizationsInv, RemoveOrganizationsInv, CascadeInv DEF OrganizationsStep

----------------------------------------------------------------------------
(* Mappings, resources, devices, the configuration and the faults. *)

\* A handler's last step, which leaves users and organizations alone.
LEMMA LastStep ==
  ASSUME IInv, NEW r \in Requests, Finish(r), StoreTypeOK',
         UNCHANGED <<users, orgs, everSuper>>
  PROVE  IInv'
  <1>1. StoreOK' /\ DefaultOrgStays'
    BY UsersSame DEF IInv, DefaultOrgStays, OrgExists
  <1> QED BY <1>1, IdleFacts, HandlerStep DEF Finish

LEMMA OtherInv ==
  ASSUME IInv, NEW r \in Requests, OtherStep(r)
  PROVE  IInv'
  <1> DEFINE l == req[r]
  <1> USE LocalFacts
  <1>0. l.org \in OrgIds /\ l.mid \in MappingIds
    BY DEF Local
  <1>1. CASE PutMappingOrg(r)
    BY <1>1, GotoFree, ErrorStep DEF PutMappingOrg, FreeLabels
  <1>2. CASE PutMappingPut(r)
    <2>1. StoreTypeOK'
      BY <1>0, <1>2 DEF PutMappingPut, IInv, TypeOK, StoreTypeOK
    <2> QED BY <1>2, <2>1, LastStep DEF PutMappingPut
  <1>3. CASE RemoveMappingGet(r)
    BY <1>3, GotoFree, ErrorStep DEF RemoveMappingGet, FreeLabels
  <1>4. CASE RemoveMappingDelete(r)
    <2>1. StoreTypeOK'
      BY <1>0, <1>4 DEF RemoveMappingDelete, IInv, TypeOK, StoreTypeOK
    <2> QED BY <1>4, <2>1, LastStep DEF RemoveMappingDelete
  <1>5. CASE NewResourcePut(r)
    <2>1. l.kind \in Kinds
      BY <1>5 DEF NewResourcePut, At, Sane
    <2>2. StoreTypeOK'
      BY <1>0, <1>5, <2>1 DEF NewResourcePut, IInv, TypeOK, StoreTypeOK
    <2> QED BY <1>5, <2>2, LastStep DEF NewResourcePut
  <1>6. CASE CreateDeviceOrg(r)
    BY <1>6, GotoFree, ErrorStep DEF CreateDeviceOrg, FreeLabels
  <1>7. CASE CreateDevicePut(r)
    <2>1. StoreTypeOK'
      BY <1>0, <1>7 DEF CreateDevicePut, IInv, TypeOK, StoreTypeOK
    <2> QED BY <1>7, <2>1, LastStep DEF CreateDevicePut
  <1> QED BY <1>1, <1>2, <1>3, <1>4, <1>5, <1>6, <1>7 DEF OtherStep

\* Steps outside the handlers' locals.
LEMMA OutsideStep ==
  ASSUME IInv, StoreTypeOK', UNCHANGED <<users, orgs, req, everSuper>>
  PROVE  IInv'
  <1>1. StoreOK' /\ DefaultOrgStays'
    BY UsersSame DEF IInv, DefaultOrgStays, OrgExists
  <1> QED BY <1>1 DEF IInv, TypeOK

LEMMA ClientsInv ==
  ASSUME IInv,
         \/ \E k \in Kinds, o \in OrgIds : RemoveResource(k, o)
         \/ \E o \in OrgIds : RemoveDevice(o)
         \/ \E b \in BOOLEAN : ReplaceAuthConfig(b)
  PROVE  IInv'
  <1>1. StoreTypeOK' /\ UNCHANGED <<users, orgs, req, everSuper>>
    BY DEF RemoveResource, RemoveDevice, ReplaceAuthConfig, IInv, TypeOK, StoreTypeOK
  <1> QED BY <1>1, OutsideStep

LEMMA CrashInv ==
  ASSUME IInv, Crash
  PROVE  IInv'
  <1>1. StoreTypeOK'
    BY DEF Crash, Reads, store, IInv, TypeOK, StoreTypeOK
  <1>2. StoreOK' /\ DefaultOrgStays'
    BY UsersSame DEF Crash, Reads, store, IInv, DefaultOrgStays, OrgExists
  <1>3. req' \in [Requests -> Local] /\ \A r \in Requests : Sane(req'[r], everSuper')
    BY IdleFacts DEF Crash
  <1> QED BY <1>1, <1>2, <1>3 DEF IInv, TypeOK

----------------------------------------------------------------------------
(* The theorems. *)

LEMMA InitInv == Init => IInv
  <1> SUFFICES ASSUME Init PROVE IInv
    OBVIOUS
  <1>1. StoreTypeOK
    <2>1. DefaultOrg \in OrgIds /\ 0 \in 0 .. MaxUsers /\ 0 \in 0 .. MaxOrgs
      BY TenancyAssumption DEF DefaultOrg
    <2>2. orgs \in [OrgIds -> OrgNames \cup {Absent}]
      BY TenancyAssumption DEF Init
    <2>3. mappings \in [MappingIds -> OrgIds \cup {Absent}]
      BY <2>1 DEF Init
    <2> QED BY <2>1, <2>2, <2>3 DEF Init, StoreTypeOK
  <1>2. Stored = {}
    BY DEF Init, Stored
  <1>3. DefaultOrgStays
    BY TenancyAssumption DEF Init, DefaultOrgStays, OrgExists, DefaultOrg
  <1>4. req \in [Requests -> Local] /\ \A r \in Requests : Sane(req[r], everSuper)
    BY IdleFacts DEF Init
  <1> QED BY <1>1, <1>2, <1>3, <1>4 DEF IInv, TypeOK, StoreOK

LEMMA NextInv == IInv /\ [Next]_vars => IInv'
  <1> SUFFICES ASSUME IInv, [Next]_vars PROVE IInv'
    OBVIOUS
  <1>1. CASE UNCHANGED vars
    <2>1. StoreTypeOK'
      BY <1>1 DEF vars, IInv, TypeOK, StoreTypeOK
    <2> QED BY <1>1, <2>1, OutsideStep DEF vars
  <1>2. ASSUME NEW r \in Requests, BeginRequest(r) \/ Step(r) \/ StoreError(r)
        PROVE  IInv'
    <2>1. CASE StoreError(r)
      BY <2>1, ErrorStep DEF StoreError
    <2> QED BY <1>2, <2>1, BeginInv, MeInv, UsersInv, OrganizationsInv, OtherInv
            DEF Step
  <1> QED BY <1>1, <1>2, ClientsInv, CrashInv DEF Next

\* The inductive invariant: handlers in flight hold well-formed records, and
\* whatever record one of them will write is regular.
THEOREM Invariant == Spec => []IInv
  BY InitInv, NextInv, PTL DEF Spec

\* The buckets and every handler's locals keep their types.
THEOREM TypeCorrect == Spec => []TypeOK
  <1>1. IInv => TypeOK
    BY DEF IInv
  <1> QED BY <1>1, Invariant, PTL

\* However handlers race, fail or are cut short by a restart, a user who was
\* never super admin has at most one role in each organization, so
\* AuthorizedUser never locks that user out for having too many.
THEOREM NoLockOut == Spec => []RegularOneRole
  <1>1. IInv => RegularOneRole
    BY DEF IInv, StoreOK, Regular, RegularOneRole
  <1> QED BY <1>1, Invariant, PTL
==============================================================================
