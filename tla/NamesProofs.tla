------------------------------ MODULE NamesProofs ------------------------------
(****************************************************************************)
(* Two proofs of Tenancy that follow the ids of users: an id keeps its      *)
(* principal, and the first one is given to a super admin; for every        *)
(* number of handlers, users and organizations and every interleaving.      *)
(****************************************************************************)
EXTENDS TenancyProofs

\* A handler has a record that it may put under uid.
Carries(l) ==
    \/ l.pc \in {"update.get", "update.put", "fupd.get"}
    \/ l.pc = "roles" /\ l.op \in EditOps

\* owner[u] is the principal that id u was given to.
Names(owner) ==
    /\ \A u \in Stored : u <= userSeq /\ users[u].name = owner[u]
    /\ \A r \in Requests : Carries(req[r]) =>
         req[r].uid <= userSeq /\ req[r].rec.name = owner[req[r].uid]

\* The record a handler carries is of the principal whose id it was read under,
\* even when that user has been deleted since: IdKeepsPrincipal alone says
\* nothing of the records that are about to be put.
NamesKept == \E owner : Names(owner)

SameNames ==
    \A u \in UserIds : users[u] # Absent /\ users'[u] # Absent =>
        users'[u].name = users[u].name

\* The locals m a handler goes on with after l: what they carry they carried
\* before, or it has just been read.
Hands(l, m) ==
    Carries(m) =>
      \/ Carries(l) /\ m.uid = l.uid /\ m.rec.name = l.rec.name
      \/ m.uid \in Stored /\ m.rec.name = users[m.uid].name

Handing(r) == \E m : Go(r, m) /\ Hands(req[r], m)

----------------------------------------------------------------------------
(* Steps that put no record. *)

LEMMA HandingKeeps ==
  ASSUME IInv, NamesKept, NEW r \in Requests, Handing(r), userSeq' = userSeq,
         \A u \in UserIds : users'[u] \in {users[u], Absent}
  PROVE  NamesKept' /\ SameNames
  <1>1. PICK owner : Names(owner)
    BY DEF NamesKept
  <1>2. PICK m : Go(r, m) /\ Hands(req[r], m)
    BY DEF Handing
  <1>3. \A u \in Stored' : u \in Stored /\ users'[u] = users[u]
    BY DEF Stored
  <1>4. \A q \in Requests : req'[q] = IF q = r THEN m ELSE req[q]
    BY <1>2 DEF Go, IInv, TypeOK
  <1>5. Carries(m) => m.uid <= userSeq /\ m.rec.name = owner[m.uid]
    BY <1>1, <1>2 DEF Hands, Names
  <1>6. \A q \in Requests : Carries(req'[q]) =>
          req'[q].uid <= userSeq' /\ req'[q].rec.name = owner[req'[q].uid]
    BY <1>1, <1>4, <1>5 DEF Names
  <1>7. \A u \in Stored' : u <= userSeq' /\ users'[u].name = owner[u]
    BY <1>1, <1>3 DEF Names
  <1>8. Names(owner)'
    BY <1>6, <1>7 DEF Names
  <1>9. SameNames
    BY DEF SameNames
  <1> QED BY <1>8, <1>9 DEF NamesKept

LEMMA FreeHanding ==
  ASSUME NEW r \in Requests, NEW m, Go(r, m), ~Carries(m)
  PROVE  Handing(r)
  BY DEF Handing, Hands

\* The labels at which no record is carried, whatever the operation.
PlainLabels == Labels \ {"update.get", "update.put", "fupd.get", "roles"}

LEMMA PlainHanding ==
  ASSUME NEW r \in Requests, NEW m, Go(r, m), m.pc \in PlainLabels
  PROVE  Handing(r)
  BY FreeHanding DEF Carries, PlainLabels

LEMMA GotoHanding ==
  ASSUME IInv, NEW r \in Requests, NEW label \in PlainLabels, Goto(r, label)
  PROVE  Handing(r)
  <1> DEFINE m == [req[r] EXCEPT !.pc = label]
  <1>1. m.pc = label
    BY LocalFacts DEF Local
  <1> QED BY <1>1, PlainHanding DEF Goto

LEMMA ErrorHanding ==
  ASSUME IInv, NEW r \in Requests, Error(r)
  PROVE  Handing(r)
  <1>1. Idle.pc \in PlainLabels
    BY LabelFacts DEF Idle, PlainLabels
  <1>2. [Idle EXCEPT !.op = "Cleanup", !.pc = "odel.get", !.org = req[r].org].pc
          \in PlainLabels
    BY LabelFacts DEF Idle, PlainLabels
  <1>3. OnError(req[r]).pc \in PlainLabels
    BY <1>1, <1>2 DEF OnError
  <1> QED BY <1>3, PlainHanding DEF Error

LEMMA FinishHanding ==
  ASSUME NEW r \in Requests, Finish(r)
  PROVE  Handing(r)
  <1>1. Idle.pc \in PlainLabels
    BY LabelFacts DEF Idle, PlainLabels
  <1> QED BY <1>1, PlainHanding DEF Finish

LEMMA UpdateHanding ==
  ASSUME NEW r \in Requests, NEW l, NEW u, NEW rec, Go(r, Update(l, u, rec)),
         \/ u \in Stored /\ rec.name = users[u].name
         \/ Carries(req[r]) /\ u = req[r].uid /\ rec.name = req[r].rec.name
  PROVE  Handing(r)
  <1> DEFINE m == Update(l, u, rec)
  <1>1. m.uid = u /\ m.rec = rec
    BY DEF Update, Idle
  <1>2. Hands(req[r], m)
    BY <1>1 DEF Hands
  <1> HIDE DEF m
  <1> QED BY <1>2 DEF Handing, m

LEMMA AddHanding ==
  ASSUME NEW r \in Requests, NEW l, NEW rec, Go(r, Add(l, rec))
  PROVE  Handing(r)
  <1>1. Add(l, rec).pc \in PlainLabels
    BY LabelFacts DEF Add, Idle, PlainLabels
  <1> QED BY <1>1, PlainHanding

----------------------------------------------------------------------------
(* The handlers, but for the two steps that put a record. *)

LEMMA BeginHanding ==
  ASSUME IInv, NEW r \in Requests, BeginRequest(r)
  PROVE  Handing(r) /\ UNCHANGED <<users, userSeq>>
  <1>1. \A m : Begin(r, m) => UNCHANGED <<users, userSeq>>
    BY DEF Begin, Reads, store
  <1>2. \A m : Begin(r, m) /\ ~Carries(m) => Handing(r)
    BY FreeHanding DEF Begin
  <1>3. CASE BeginMe(r)
    BY <1>1, <1>2, <1>3 DEF BeginMe, Carries, EditOps, Idle
  <1>4. CASE BeginUpdateMe(r)
    BY <1>1, <1>2, <1>4 DEF BeginUpdateMe, Carries, EditOps, Idle
  <1>5. CASE BeginNewBasicUser(r)
    BY <1>1, <1>2, <1>5 DEF BeginNewBasicUser, Carries, EditOps, Idle
  <1>6. CASE BeginNewUser(r)
    BY ZenonT(60), <1>1, <1>2, <1>6 DEF BeginNewUser, Carries, EditOps, Idle
  <1>7. CASE BeginOrganizationNewUser(r)
    BY ZenonT(60), <1>1, <1>2, <1>7 DEF BeginOrganizationNewUser, Carries, EditOps, Idle
  <1>8. CASE BeginUpdateUser(r)
    BY ZenonT(60), <1>1, <1>2, <1>8 DEF BeginUpdateUser, Carries, EditOps, Idle
  <1>9. CASE BeginOrganizationUpdateUser(r)
    BY ZenonT(60), <1>1, <1>2, <1>9 DEF BeginOrganizationUpdateUser, Carries, EditOps, Idle
  <1>10. CASE BeginRemoveUser(r)
    BY <1>1, <1>2, <1>10 DEF BeginRemoveUser, Carries, EditOps, Idle
  <1>11. CASE BeginOrganizationRemoveUser(r)
    BY <1>1, <1>2, <1>11 DEF BeginOrganizationRemoveUser, Carries, EditOps, Idle
  <1>12. CASE BeginLockedUser(r)
    BY <1>1, <1>2, <1>12 DEF BeginLockedUser, Carries, EditOps, Idle
  <1>13. CASE BeginNewOrganization(r)
    BY <1>1, <1>2, <1>13 DEF BeginNewOrganization, Carries, EditOps, Idle
  <1>14. CASE BeginUpdateOrganization(r)
    BY <1>1, <1>2, <1>14 DEF BeginUpdateOrganization, Carries, EditOps, Idle
  <1>15. CASE BeginRemoveOrganization(r)
    BY <1>1, <1>2, <1>15 DEF BeginRemoveOrganization, Carries, EditOps, Idle
  <1>16. CASE BeginPutMapping(r)
    BY <1>1, <1>2, <1>16 DEF BeginPutMapping, Carries, EditOps, Idle
  <1>17. CASE BeginRemoveMapping(r)
    BY <1>1, <1>2, <1>17 DEF BeginRemoveMapping, Carries, EditOps, Idle
  <1>18. CASE BeginNewResource(r)
    BY <1>1, <1>2, <1>18 DEF BeginNewResource, Carries, EditOps, Idle
  <1>19. CASE BeginCreateDevice(r)
    BY <1>1, <1>2, <1>19 DEF BeginCreateDevice, Carries, EditOps, Idle
  <1> QED BY <1>3, <1>4, <1>5, <1>6, <1>7, <1>8, <1>9, <1>10, <1>11, <1>12, <1>13, <1>14, <1>15, <1>16, <1>17, <1>18, <1>19 DEF BeginRequest

\* The record of a stored user, changed in its roles or its super admin flag.
LEMMA EditName ==
  ASSUME NEW rec \in UserRecord, NEW b, NEW X
  PROVE  /\ [rec EXCEPT !.roles = X].name = rec.name
         /\ [rec EXCEPT !.superAdmin = b].name = rec.name
         /\ [rec EXCEPT !.superAdmin = b, !.roles = X].name = rec.name
  BY DEF UserRecord

LEMMA AfterPutPlain ==
  ASSUME NEW l \in Local
  PROVE  AfterPut(l).pc \in PlainLabels
  <1>1. [Idle EXCEPT !.op = "Me", !.pc = "me.get", !.name = l.name].pc \in PlainLabels
    BY LabelFacts DEF Idle, PlainLabels
  <1>2. [l EXCEPT !.pc = "casc.users", !.uid = 0, !.rec = Absent].pc \in PlainLabels
    BY LabelFacts DEF Local, PlainLabels
  <1>3. Idle.pc \in PlainLabels
    BY LabelFacts DEF Idle, PlainLabels
  <1> QED BY <1>1, <1>2, <1>3 DEF AfterPut

LEMMA AfterNewUsersPlain ==
  ASSUME NEW l \in Local, NEW b
  PROVE  AfterNewUsers(l, b).pc \in PlainLabels
  <1>1. [l EXCEPT !.pc = "me.mappings", !.super = b].pc \in PlainLabels
    BY LabelFacts DEF Local, PlainLabels
  <1>2. \A rec : Add(l, rec).pc \in PlainLabels
    BY LabelFacts DEF Add, Idle, PlainLabels
  <1> QED BY <1>1, <1>2 DEF AfterNewUsers

LEMMA MeHanding ==
  ASSUME IInv, NEW r \in Requests, MeStep(r)
  PROVE  Handing(r) /\ UNCHANGED <<users, userSeq>>
  <1> DEFINE l == req[r]
  <1>0. l \in Local
    BY LocalFacts
  <1>a. /\ "um.facade" \in PlainLabels /\ "um.raw" \in PlainLabels
        /\ "me.first" \in PlainLabels /\ "me.config" \in PlainLabels
        /\ "me.orgs" \in PlainLabels
    BY LabelFacts DEF PlainLabels
  <1>b. UNCHANGED <<users, userSeq>>
    BY DEF MeStep, UpdateMeOrg, UpdateMeFacade, UpdateMeRaw, MeGet, FirstUser,
           NewUsersConfig, MePrincipalMappings, MeOrganization, MeNewUser, Reads, store
  <1> SUFFICES Handing(r)
    BY <1>b
  <1>c. ASSUME NEW u \in ByName(l.name)
        PROVE  u \in Stored /\ users[u] \in UserRecord
    BY NamedFacts, StoredFacts DEF IInv
  <1>1. CASE UpdateMeOrg(r)
    BY <1>a, <1>1, GotoHanding, ErrorHanding DEF UpdateMeOrg
  <1>2. CASE UpdateMeFacade(r)
    BY <1>0, <1>a, <1>2, GotoHanding, AfterPutPlain, PlainHanding DEF UpdateMeFacade
  <1>3. CASE UpdateMeRaw(r)
    <2>1. ASSUME NEW u \in ByName(l.name),
                 Go(r, Update(l, u, [users[u] EXCEPT !.roles = Grant(@, l.org)]))
          PROVE  Handing(r)
      BY <1>c, <2>1, EditName, UpdateHanding
    <2> QED BY <1>3, <2>1, ErrorHanding DEF UpdateMeRaw
  <1>4. CASE MeGet(r)
    <2>1. ASSUME NEW u \in ByName(l.name),
                 Go(r, Update(l, u, [users[u] EXCEPT !.superAdmin = TRUE]))
          PROVE  Handing(r)
      BY <1>c, <2>1, EditName, UpdateHanding
    <2> QED BY <1>4, <1>a, <2>1, GotoHanding, FinishHanding DEF MeGet
  <1>5. CASE FirstUser(r)
    BY <1>0, <1>a, <1>5, GotoHanding, AfterNewUsersPlain, PlainHanding DEF FirstUser
  <1>6. CASE NewUsersConfig(r)
    BY <1>0, <1>6, AfterNewUsersPlain, PlainHanding DEF NewUsersConfig
  <1>7. CASE MePrincipalMappings(r)
    <2>1. \A X : [l EXCEPT !.pc = "me.orgs", !.asked = X].pc = "me.orgs"
      BY <1>0 DEF Local
    <2> QED BY <1>a, <1>7, <2>1, PlainHanding DEF MePrincipalMappings
  <1>8. CASE MeOrganization(r)
    <2>1. \A X, Y : /\ [l EXCEPT !.asked = X, !.grants = Y].pc = l.pc
                    /\ [l EXCEPT !.asked = X].pc = l.pc
      BY <1>0 DEF Local
    <2>2. l.pc \in PlainLabels
      BY <1>a, <1>8 DEF MeOrganization, At
    <2> QED BY <1>8, <2>1, <2>2, PlainHanding DEF MeOrganization
  <1>9. CASE MeNewUser(r)
    BY <1>9, AddHanding, FinishHanding DEF MeNewUser
  <1> QED BY <1>1, <1>2, <1>3, <1>4, <1>5, <1>6, <1>7, <1>8, <1>9 DEF MeStep

LEMMA ReadUsersHanding ==
  ASSUME IInv, NEW r \in Requests,
         \/ NewUserConfig(r) \/ UpdateUserGet(r) \/ ValidRole(r)
         \/ CreateFromRequest(r) \/ EditFromRequest(r) \/ NewBasicUserGet(r)
         \/ RemoveUserGet(r) \/ LockedUserGet(r)
  PROVE  Handing(r) /\ UNCHANGED <<users, userSeq>>
  <1> DEFINE l == req[r]
  <1>0. l \in Local /\ Sane(l, everSuper)
    BY LocalFacts
  <1>a. "me.first" \in PlainLabels /\ "ru.del" \in PlainLabels
        /\ "fadd.get" \in PlainLabels
    BY LabelFacts DEF PlainLabels
  <1>b. UNCHANGED <<users, userSeq>>
    BY DEF NewUserConfig, UpdateUserGet, ValidRole, CreateFromRequest,
           EditFromRequest, NewBasicUserGet, RemoveUserGet, LockedUserGet, Reads, store
  <1> SUFFICES Handing(r)
    BY <1>b
  <1>1. CASE NewUserConfig(r)
    <2> DEFINE n == [l EXCEPT !.pc = "roles", !.super = @ \/ superAdminNewUsers]
    <2>1. n.op = l.op /\ n.pc = "roles"
      BY <1>0 DEF Local
    <2>2. l.op \notin EditOps
      BY <1>0, <1>1 DEF NewUserConfig, At, Sane
    <2>3. ~Carries(n)
      BY <2>1, <2>2 DEF Carries
    <2> QED BY <1>1, <2>3, FreeHanding DEF NewUserConfig
  <1>2. CASE UpdateUserGet(r)
    <2> DEFINE n == [l EXCEPT !.pc = "roles", !.rec = users[l.uid]]
    <2>1. n.uid = l.uid /\ n.rec = users[l.uid]
      BY <1>0 DEF Local
    <2> HIDE DEF n
    <2>2. Present(l.uid) => Hands(l, n)
      BY <2>1 DEF Hands, Present, Stored
    <2> QED BY <1>2, <2>2, ErrorHanding DEF UpdateUserGet, Handing, n
  <1>3. CASE ValidRole(r)
    <2>1. \A X, Y : LET n == [l EXCEPT !.asked = X, !.grants = Y]
                    IN  n.op = l.op /\ n.pc = l.pc /\ n.uid = l.uid /\ n.rec = l.rec
      BY <1>0 DEF Local
    <2>2. \A X, Y : Hands(l, [l EXCEPT !.asked = X, !.grants = Y])
      BY <2>1 DEF Hands, Carries
    <2>3. \A X : [l EXCEPT !.asked = X] = [l EXCEPT !.asked = X, !.grants = l.grants]
      BY <1>0 DEF Local
    <2>4. \A X : Hands(l, [l EXCEPT !.asked = X])
      BY <2>2, <2>3
    <2> QED BY <1>3, <2>2, <2>4, ErrorHanding DEF ValidRole, Handing
  <1>4. CASE CreateFromRequest(r)
    <2>1. \A rec : [Add(l, rec) EXCEPT !.pc = "fadd.get"].pc = "fadd.get"
      BY DEF Add, Idle
    <2> QED BY <1>4, <1>a, <2>1, AddHanding, PlainHanding, ErrorHanding
            DEF CreateFromRequest
  <1>5. CASE EditFromRequest(r)
    <2> DEFINE rec == [l.rec EXCEPT !.superAdmin = l.super,
                                    !.roles = RolesIn(l.grants)]
               n == [Update(l, l.uid, rec) EXCEPT !.pc = "fupd.get"]
    <2>1. l.op \in EditOps /\ l.pc = "roles"
      BY <1>5 DEF EditFromRequest, EditOps, At
    <2>2. l.rec \in UserRecord /\ Carries(l)
      BY <1>0, <2>1 DEF Sane, Carries
    <2>3. rec.name = l.rec.name
      BY <2>2, EditName
    <2> HIDE DEF rec
    <2>4. n.uid = l.uid /\ n.rec = rec
      BY DEF Update, Idle
    <2> HIDE DEF n
    <2>5. Hands(l, n)
      BY <2>2, <2>3, <2>4 DEF Hands
    <2>6. CASE Go(r, n)
      BY <2>5, <2>6 DEF Handing
    <2>7. CASE Go(r, Update(l, l.uid, rec))
      BY <2>2, <2>3, <2>7, UpdateHanding
    <2> QED BY <1>5, <2>6, <2>7, ErrorHanding DEF EditFromRequest, rec, n
  <1>6. CASE NewBasicUserGet(r)
    BY <1>6, <1>a, GotoHanding, ErrorHanding DEF NewBasicUserGet
  <1>7. CASE RemoveUserGet(r)
    BY <1>7, <1>a, GotoHanding, ErrorHanding DEF RemoveUserGet
  <1>8. CASE LockedUserGet(r)
    <2>1. \A u \in ByName(l.name) : u \in Stored
      BY NamedFacts
    <2> QED BY <1>8, <2>1, UpdateHanding, ErrorHanding DEF LockedUserGet
  <1> QED BY <1>1, <1>2, <1>3, <1>4, <1>5, <1>6, <1>7, <1>8

LEMMA FacadeHanding ==
  ASSUME IInv, NEW r \in Requests,
         \/ FacadeAdd(r) \/ FacadeGet(r) \/ FacadeUpdate(r) \/ FacadeDelete(r)
         \/ UpdateGet(r) \/ AddExists(r)
  PROVE  Handing(r) /\ UNCHANGED <<users, userSeq>>
  <1> DEFINE l == req[r]
  <1>0. l \in Local /\ Sane(l, everSuper)
    BY LocalFacts
  <1>a. "fdel.get" \in PlainLabels /\ "add.put" \in PlainLabels
    BY LabelFacts DEF PlainLabels
  <1>b. UNCHANGED <<users, userSeq>>
    BY DEF FacadeAdd, FacadeGet, FacadeUpdate, FacadeDelete, UpdateGet, AddExists,
           Reads, store
  <1> SUFFICES Handing(r)
    BY <1>b
  <1>1. CASE FacadeAdd(r)
    <2>1. ASSUME NEW u \in ByName(l.name), NEW X, NEW b,
                 Go(r, Update(l, u, [users[u] EXCEPT !.superAdmin = b, !.roles = X]))
          PROVE  Handing(r)
      <3>1. u \in Stored /\ users[u] \in UserRecord
        BY NamedFacts, StoredFacts DEF IInv
      <3> DEFINE rec == [users[u] EXCEPT !.superAdmin = b, !.roles = X]
      <3>2. rec.name = users[u].name
        BY <3>1, EditName
      <3> HIDE DEF rec
      <3>3. Go(r, Update(l, u, rec))
        BY <2>1 DEF rec
      <3> QED BY <3>1, <3>2, <3>3, UpdateHanding
    <2> QED BY <1>1, <2>1, AddHanding, ErrorHanding DEF FacadeAdd
  <1>2. CASE FacadeGet(r)
    <2>1. ASSUME NEW X, Present(l.uid),
                 Go(r, [l EXCEPT !.pc = "roles", !.rec = [users[l.uid] EXCEPT !.roles = X]])
          PROVE  Handing(r)
      <3> DEFINE own == [users[l.uid] EXCEPT !.roles = X]
                 n == [l EXCEPT !.pc = "roles", !.rec = own]
      <3>1. own.name = users[l.uid].name
        BY <2>1, PresentFacts, EditName
      <3> HIDE DEF own
      <3>2. n.uid = l.uid /\ n.rec = own
        BY <1>0 DEF Local
      <3> HIDE DEF n
      <3>3. Hands(l, n)
        BY <2>1, <3>1, <3>2, PresentFacts DEF Hands
      <3> QED BY <2>1, <3>3 DEF Handing, n, own
    <2> QED BY <1>2, <1>a, <2>1, GotoHanding, ErrorHanding DEF FacadeGet
  <1>3. CASE FacadeUpdate(r)
    <2>1. l.rec \in UserRecord /\ Carries(l)
      BY <1>0, <1>3 DEF FacadeUpdate, At, Sane, Carries
    <2>2. \A X : Go(r, Update(l, l.uid, [l.rec EXCEPT !.roles = X])) => Handing(r)
      BY <2>1, EditName, UpdateHanding
    <2> QED BY <1>3, <2>2, ErrorHanding DEF FacadeUpdate
  <1>4. CASE FacadeDelete(r)
    <2>1. ASSUME NEW X, Present(l.uid),
                 Go(r, Update(l, l.uid, [users[l.uid] EXCEPT !.roles = X]))
          PROVE  Handing(r)
      BY <2>1, PresentFacts, EditName, UpdateHanding
    <2> QED BY <1>4, <2>1, ErrorHanding DEF FacadeDelete
  <1>5. CASE UpdateGet(r)
    <2> DEFINE n == [l EXCEPT !.pc = "update.put"]
    <2>1. n.uid = l.uid /\ n.rec = l.rec
      BY <1>0 DEF Local
    <2>2. Hands(l, n)
      BY <1>5, <2>1 DEF UpdateGet, At, Carries, Hands
    <2> HIDE DEF n
    <2> QED BY <1>5, <2>2, ErrorHanding DEF UpdateGet, Goto, Handing, n
  <1>6. CASE AddExists(r)
    BY <1>6, <1>a, GotoHanding, ErrorHanding DEF AddExists
  <1> QED BY <1>1, <1>2, <1>3, <1>4, <1>5, <1>6

LEMMA EditOrganizationsHanding ==
  ASSUME IInv, NEW r \in Requests,
         \/ NewOrganizationUnique(r) \/ NewOrganizationPut(r)
         \/ UpdateOrganizationGet(r) \/ UpdateOrganizationKvGet(r)
         \/ UpdateOrganizationUnique(r) \/ UpdateOrganizationPut(r)
  PROVE  Handing(r) /\ UNCHANGED <<users, userSeq>>
  <1> DEFINE l == req[r]
  <1>0. l \in Local
    BY LocalFacts
  <1>a. /\ "no.put" \in PlainLabels /\ "fadd.get" \in PlainLabels
        /\ "uo.kvget" \in PlainLabels /\ "uo.put" \in PlainLabels
        /\ "uo.unique" \in PlainLabels
    BY LabelFacts DEF PlainLabels
  <1>b. UNCHANGED <<users, userSeq>>
    BY DEF NewOrganizationUnique, NewOrganizationPut, UpdateOrganizationGet,
           UpdateOrganizationKvGet, UpdateOrganizationUnique, UpdateOrganizationPut,
           Reads, store
  <1> SUFFICES Handing(r)
    BY <1>b
  <1>1. CASE NewOrganizationUnique(r)
    BY <1>1, <1>a, GotoHanding, ErrorHanding DEF NewOrganizationUnique
  <1>2. CASE NewOrganizationPut(r)
    <2> DEFINE rec == [l.rec EXCEPT !.roles = RolesIn({orgSeq + 1})]
               n == [Add(l, rec) EXCEPT !.pc = "fadd.get", !.org = orgSeq + 1]
    <2>1. n.pc = "fadd.get"
      BY DEF Add, Idle
    <2>2. Go(r, n) \/ Error(r)
      BY <1>2 DEF NewOrganizationPut
    <2> HIDE DEF n
    <2> QED BY <1>a, <2>1, <2>2, PlainHanding, ErrorHanding
  <1>3. CASE UpdateOrganizationGet(r)
    <2> DEFINE n == [l EXCEPT !.pc = "uo.kvget",
                              !.oname = IF @ = Absent THEN orgs[l.org] ELSE @]
    <2>1. n.pc = "uo.kvget"
      BY <1>0 DEF Local
    <2>2. Go(r, n) \/ Error(r)
      BY <1>3 DEF UpdateOrganizationGet
    <2> HIDE DEF n
    <2> QED BY <1>a, <2>1, <2>2, PlainHanding, ErrorHanding
  <1>4. CASE UpdateOrganizationKvGet(r)
    BY <1>4, <1>a, GotoHanding, ErrorHanding DEF UpdateOrganizationKvGet
  <1>5. CASE UpdateOrganizationUnique(r)
    BY <1>5, <1>a, GotoHanding, ErrorHanding DEF UpdateOrganizationUnique
  <1>6. CASE UpdateOrganizationPut(r)
    BY <1>6, FinishHanding DEF UpdateOrganizationPut
  <1> QED BY <1>1, <1>2, <1>3, <1>4, <1>5, <1>6

LEMMA RemoveOrganizationsHanding ==
  ASSUME IInv, NEW r \in Requests,
         \/ RemoveOrganizationGet(r) \/ RemoveOrganizationDevices(r)
         \/ DeleteOrganizationGet(r) \/ DeleteOrganizationPut(r)
  PROVE  Handing(r) /\ UNCHANGED <<users, userSeq>>
  <1> DEFINE l == req[r]
  <1>0. l \in Local
    BY LocalFacts
  <1>a. /\ "ro.devices" \in PlainLabels /\ "odel.get" \in PlainLabels
        /\ "odel.put" \in PlainLabels /\ "casc.res" \in PlainLabels
    BY LabelFacts DEF PlainLabels
  <1>b. UNCHANGED <<users, userSeq>>
    BY DEF RemoveOrganizationGet, RemoveOrganizationDevices, DeleteOrganizationGet,
           DeleteOrganizationPut, Reads, store
  <1> SUFFICES Handing(r)
    BY <1>b
  <1>1. CASE RemoveOrganizationGet(r)
    BY <1>1, <1>a, GotoHanding, ErrorHanding DEF RemoveOrganizationGet
  <1>2. CASE RemoveOrganizationDevices(r)
    BY <1>2, <1>a, GotoHanding, ErrorHanding DEF RemoveOrganizationDevices
  <1>3. CASE DeleteOrganizationGet(r)
    BY <1>3, <1>a, GotoHanding, ErrorHanding DEF DeleteOrganizationGet
  <1>4. CASE DeleteOrganizationPut(r)
    <2>1. [l EXCEPT !.pc = "casc.res", !.kind = 1].pc = "casc.res"
      BY <1>0 DEF Local
    <2> QED BY <1>4, <1>a, <2>1, PlainHanding DEF DeleteOrganizationPut
  <1> QED BY <1>1, <1>2, <1>3, <1>4

LEMMA CascadeHanding ==
  ASSUME IInv, NEW r \in Requests,
         \/ CascadeList(r) \/ CascadeDelete(r) \/ CascadeListUsers(r)
         \/ CascadeUser(r) \/ CascadeListMappings(r) \/ CascadeMapping(r)
  PROVE  Handing(r) /\ UNCHANGED <<users, userSeq>>
  <1> DEFINE l == req[r]
  <1>0. l \in Local
    BY LocalFacts
  <1>a. /\ "casc.res" \in PlainLabels /\ "casc.resdel" \in PlainLabels
        /\ "casc.users" \in PlainLabels /\ "casc.maps" \in PlainLabels
    BY LabelFacts DEF PlainLabels
  <1>b. UNCHANGED <<users, userSeq>>
    BY DEF CascadeList, CascadeDelete, CascadeListUsers, CascadeUser,
           CascadeListMappings, CascadeMapping, Reads, store
  <1> SUFFICES Handing(r)
    BY <1>b
  <1>1. CASE CascadeList(r)
    <2>1. [l EXCEPT !.kind = @ + 1].pc = "casc.res"
      BY <1>0, <1>1 DEF CascadeList, At, Local
    <2> QED BY <1>1, <1>a, <2>1, GotoHanding, PlainHanding DEF CascadeList
  <1>2. CASE CascadeDelete(r)
    <2>1. \A k : [l EXCEPT !.pc = "casc.res", !.kind = k].pc = "casc.res"
      BY <1>0 DEF Local
    <2> QED BY <1>2, <1>a, <2>1, PlainHanding, ErrorHanding DEF CascadeDelete
  <1>3. CASE CascadeListUsers(r)
    <2>1. \A X : [l EXCEPT !.pc = "casc.users", !.usersLeft = X].pc = "casc.users"
      BY <1>0 DEF Local
    <2> QED BY <1>3, <1>a, <2>1, PlainHanding DEF CascadeListUsers
  <1>4. CASE CascadeUser(r)
    <2>1. ASSUME NEW u, NEW m, NEW X, Present(u),
                 Go(r, Update(m, u, [users[u] EXCEPT !.roles = X]))
          PROVE  Handing(r)
      BY <2>1, PresentFacts, EditName, UpdateHanding
    <2> QED BY <1>4, <2>1, ErrorHanding DEF CascadeUser
  <1>5. CASE CascadeListMappings(r)
    <2>1. \A X : [l EXCEPT !.pc = "casc.maps", !.mapsLeft = X].pc = "casc.maps"
      BY <1>0 DEF Local
    <2> QED BY <1>5, <1>a, <2>1, PlainHanding DEF CascadeListMappings
  <1>6. CASE CascadeMapping(r)
    <2>1. \A X : [l EXCEPT !.mapsLeft = X].pc = "casc.maps"
      BY <1>0, <1>6 DEF CascadeMapping, At, Local
    <2> QED BY <1>6, <1>a, <2>1, PlainHanding, FinishHanding, ErrorHanding
            DEF CascadeMapping
  <1> QED BY <1>1, <1>2, <1>3, <1>4, <1>5, <1>6

LEMMA OtherHanding ==
  ASSUME IInv, NEW r \in Requests, OtherStep(r) \/ StoreError(r)
  PROVE  Handing(r) /\ UNCHANGED <<users, userSeq>>
  <1>a. /\ "map.put" \in PlainLabels /\ "mapdel.put" \in PlainLabels
        /\ "dev.put" \in PlainLabels
    BY LabelFacts DEF PlainLabels
  <1>b. UNCHANGED <<users, userSeq>>
    BY DEF OtherStep, PutMappingOrg, PutMappingPut, RemoveMappingGet,
           RemoveMappingDelete, NewResourcePut, CreateDeviceOrg, CreateDevicePut,
           StoreError, Reads, store
  <1>1. CASE PutMappingOrg(r) \/ RemoveMappingGet(r) \/ CreateDeviceOrg(r)
    BY <1>1, <1>a, <1>b, GotoHanding, ErrorHanding
       DEF PutMappingOrg, RemoveMappingGet, CreateDeviceOrg
  <1>2. CASE PutMappingPut(r) \/ RemoveMappingDelete(r) \/ NewResourcePut(r)
             \/ CreateDevicePut(r)
    BY <1>2, <1>b, FinishHanding
       DEF PutMappingPut, RemoveMappingDelete, NewResourcePut, CreateDevicePut
  <1>3. CASE StoreError(r)
    BY <1>3, <1>b, ErrorHanding DEF StoreError
  <1> QED BY <1>1, <1>2, <1>3 DEF OtherStep

----------------------------------------------------------------------------
(* The two steps that put a record, and the steps of no handler. *)

\* Put stores what the handler carries for the id: the principal is the same,
\* also when the id had been deleted meanwhile.
LEMMA UpdatePutNames ==
  ASSUME IInv, NamesKept, NEW r \in Requests, UpdatePut(r)
  PROVE  NamesKept' /\ SameNames
  <1> DEFINE l == req[r]
  <1>0. l \in Local /\ l.uid \in UserIds
    BY LocalFacts DEF UpdatePut, At, Sane
  <1>1. PICK owner : Names(owner)
    BY DEF NamesKept
  <1>2. \A u \in UserIds : users'[u] = IF u = l.uid THEN l.rec ELSE users[u]
    BY <1>0 DEF UpdatePut, IInv, TypeOK, StoreTypeOK
  <1>3. l.uid <= userSeq /\ l.rec.name = owner[l.uid]
    BY <1>1 DEF UpdatePut, At, Carries, Names
  <1>4. userSeq' = userSeq
    BY DEF UpdatePut
  <1>5. \A u \in Stored' : u <= userSeq' /\ users'[u].name = owner[u]
    BY <1>1, <1>2, <1>3, <1>4 DEF Names, Stored
  <1>6. ~Carries(AfterPut(l))
    BY <1>0, AfterPutPlain DEF Carries, PlainLabels
  <1>7. \A q \in Requests : req'[q] = IF q = r THEN AfterPut(l) ELSE req[q]
    BY DEF UpdatePut, Go, IInv, TypeOK
  <1>8. \A q \in Requests : Carries(req'[q]) =>
          req'[q].uid <= userSeq' /\ req'[q].rec.name = owner[req'[q].uid]
    BY <1>1, <1>4, <1>6, <1>7 DEF Names
  <1>9. Names(owner)'
    BY <1>5, <1>8 DEF Names
  <1>10. SameNames
    BY <1>1, <1>2, <1>3 DEF SameNames, Names, Stored
  <1> QED BY <1>9, <1>10 DEF NamesKept

\* A new user takes an id that no record in flight is for.
LEMMA AddPutNames ==
  ASSUME IInv, NamesKept, NEW r \in Requests, AddPut(r)
  PROVE  NamesKept' /\ SameNames
  <1> DEFINE l == req[r]
             id == userSeq + 1
  <1>1. PICK owner : Names(owner)
    BY DEF NamesKept
  <1>2. CASE userSeq < MaxUsers
    <2>0. PICK given :
            given = [u \in UserIds |-> IF u = id THEN l.rec.name ELSE owner[u]]
      OBVIOUS
    <2>1. userSeq \in Nat /\ id \in UserIds
      BY <1>2, TenancyAssumption DEF IInv, TypeOK, StoreTypeOK, UserIds
    <2>2. /\ userSeq' = id /\ Finish(r)
          /\ \A u \in UserIds : users'[u] = IF u = id THEN l.rec ELSE users[u]
      BY <1>2, <2>1, TenancyAssumption DEF AddPut, IInv, TypeOK, StoreTypeOK
    <2>3. \A u \in Stored : u # id
      BY <1>1, <2>1 DEF Names, Stored, UserIds
    <2>4. \A u \in Stored' : u <= userSeq' /\ users'[u].name = given[u]
      BY <1>1, <2>0, <2>1, <2>2 DEF Names, Stored, UserIds
    <2>5. ~Carries(Idle)
      BY LabelFacts DEF Carries, Idle
    <2>6. \A q \in Requests : req'[q] = IF q = r THEN Idle ELSE req[q]
      BY <2>2 DEF Finish, Go, IInv, TypeOK
    <2>7. ASSUME NEW q \in Requests, Carries(req'[q])
          PROVE  req'[q].uid <= userSeq' /\ req'[q].rec.name = given[req'[q].uid]
      <3>1. req'[q] = req[q] /\ Carries(req[q])
        BY <2>5, <2>6, <2>7
      <3>2. req[q].uid <= userSeq /\ req[q].rec.name = owner[req[q].uid]
        BY <1>1, <3>1 DEF Names
      <3>3. req[q].uid \in UserIds
        BY <3>1, LocalFacts DEF Carries, Sane
      <3>4. req[q].uid # id /\ req[q].uid <= id
        BY <2>1, <3>2, <3>3 DEF UserIds
      <3> HIDE DEF id
      <3> QED BY <2>0, <2>2, <3>1, <3>2, <3>3, <3>4
    <2>8. Names(given)'
      BY <2>4, <2>7 DEF Names
    <2>9. SameNames
      BY <2>2, <2>3 DEF SameNames, Stored
    <2> QED BY <2>8, <2>9 DEF NamesKept
  <1>3. CASE ~(userSeq < MaxUsers)
    <2>1. Error(r) /\ UNCHANGED <<users, userSeq>>
      BY <1>3 DEF AddPut
    <2>2. Handing(r)
      BY <2>1, ErrorHanding
    <2> QED BY <2>1, <2>2, HandingKeeps
  <1> QED BY <1>2, <1>3

LEMMA RemoveUserNames ==
  ASSUME IInv, NamesKept, NEW r \in Requests, RemoveUserDelete(r)
  PROVE  NamesKept' /\ SameNames
  <1>1. Handing(r) /\ userSeq' = userSeq
    BY FinishHanding DEF RemoveUserDelete
  <1>2. \A u \in UserIds : users'[u] \in {users[u], Absent}
    BY DEF RemoveUserDelete, IInv, TypeOK, StoreTypeOK
  <1> QED BY <1>1, <1>2, HandingKeeps

\* Nothing of the users moves and no handler takes up a record.
LEMMA OutsideNames ==
  ASSUME NamesKept, UNCHANGED <<users, userSeq>>,
         \A r \in Requests : req'[r] = req[r] \/ ~Carries(req'[r])
  PROVE  NamesKept' /\ SameNames
  <1>1. PICK owner : Names(owner)
    BY DEF NamesKept
  <1>2. Names(owner)'
    BY <1>1 DEF Names, Stored
  <1> QED BY <1>2 DEF NamesKept, SameNames

LEMMA NextNames ==
  ASSUME IInv, NamesKept, [Next]_vars
  PROVE  NamesKept' /\ SameNames
  <1>1. CASE UNCHANGED vars
    BY <1>1, OutsideNames DEF vars
  <1>2. ASSUME NEW r \in Requests, Handing(r) /\ UNCHANGED <<users, userSeq>>
        PROVE  NamesKept' /\ SameNames
    BY <1>2, HandingKeeps
  <1>3. ASSUME NEW r \in Requests, BeginRequest(r) \/ Step(r) \/ StoreError(r)
        PROVE  NamesKept' /\ SameNames
    <2>1. CASE BeginRequest(r)
      BY <1>2, <2>1, BeginHanding
    <2>2. CASE MeStep(r)
      BY <1>2, <2>2, MeHanding
    <2>3. CASE UsersStep(r)
      BY <1>2, <2>3, ReadUsersHanding, FacadeHanding, UpdatePutNames, AddPutNames,
         RemoveUserNames DEF UsersStep
    <2>4. CASE OrganizationsStep(r)
      BY <1>2, <2>4, EditOrganizationsHanding, RemoveOrganizationsHanding,
         CascadeHanding DEF OrganizationsStep
    <2>5. CASE OtherStep(r) \/ StoreError(r)
      BY <1>2, <2>5, OtherHanding
    <2> QED BY <1>3, <2>1, <2>2, <2>3, <2>4, <2>5 DEF Step
  <1>4. CASE \/ \E k \in Kinds, o \in OrgIds : RemoveResource(k, o)
             \/ \E o \in OrgIds : RemoveDevice(o)
             \/ \E b \in BOOLEAN : ReplaceAuthConfig(b)
    <2>1. UNCHANGED <<users, userSeq, req>>
      BY <1>4 DEF RemoveResource, RemoveDevice, ReplaceAuthConfig
    <2> QED BY <2>1, OutsideNames
  <1>5. CASE Crash
    <2>1. \A r \in Requests : ~Carries(req'[r])
      BY <1>5, LabelFacts DEF Crash, Carries, Idle
    <2> QED BY <1>5, <2>1, OutsideNames DEF Crash, Reads, store
  <1> QED BY <1>1, <1>3, <1>4, <1>5 DEF Next

LEMMA InitNames == Init => NamesKept
  <1> SUFFICES ASSUME Init PROVE NamesKept
    OBVIOUS
  <1>1. Stored = {} /\ \A r \in Requests : ~Carries(req[r])
    BY LabelFacts DEF Init, Stored, Carries, Idle
  <1>2. \A owner : Names(owner)
    BY <1>1 DEF Names
  <1> QED BY <1>2 DEF NamesKept

\* However handlers race, fail or are cut short by a restart, an Update that
\* was under way when its user was deleted brings back that user and no other:
\* an id never passes from one principal to another.
THEOREM IdsKeepPrincipals == Spec => IdKeepsPrincipal
  <1>1. Init => IInv /\ NamesKept
    BY InitInv, InitNames
  <1>2. IInv /\ NamesKept /\ [Next]_vars => IInv' /\ NamesKept'
    BY NextInv, NextNames
  <1>3. IInv /\ NamesKept /\ [Next]_vars => [SameNames]_vars
    BY NextNames
  <1>4. SameNames <=> \A u \in UserIds : users[u] # Absent /\ users'[u] # Absent =>
                        users'[u].name = users[u].name
    BY DEF SameNames
  <1> QED BY <1>1, <1>2, <1>3, <1>4, PTL DEF Spec, IdKeepsPrincipal
----------------------------------------------------------------------------
(* The first user. *)

\* What a handler is about to do before there is a user: it makes a super
\* admin or none.
Early(l) ==
    /\ l.pc \notin {"new.config", "me.config", "fadd.get", "no.unique", "no.put",
                    "fupd.get", "update.get", "update.put"}
    /\ l.pc = "roles" => l.op = "NewBasicUser"
    /\ l.pc \in {"me.mappings", "me.orgs"} => l.super
    /\ l.pc \in {"add.exists", "add.put"} => l.rec.superAdmin

\* FirstUserIsSuperAdmin is not inductive: any handler in flight could be about
\* to add somebody.
FirstInv ==
    /\ FirstUserIsSuperAdmin
    /\ userSeq = 0 => Stored = {} /\ \A r \in Requests : Early(req[r])

\* No user yet, and so none after a step of handler r that adds none.
Nobody == userSeq = 0 /\ Stored = {} /\ \A q \in Requests : Early(req[q])

LEMMA EarlyGo ==
  ASSUME IInv, Nobody, NEW r \in Requests, NEW m, Go(r, m), Early(m),
         UNCHANGED <<users, userSeq>>
  PROVE  FirstInv'
  <1>1. \A q \in Requests : req'[q] = IF q = r THEN m ELSE req[q]
    BY DEF Go, IInv, TypeOK
  <1>2. Stored' = {} /\ userSeq' = 0
    BY DEF Nobody, Stored
  <1>3. \A q \in Requests : Early(req'[q])
    BY <1>1 DEF Nobody
  <1>4. ~(userSeq' > 0)
    BY <1>2
  <1> QED BY <1>2, <1>3, <1>4 DEF FirstInv, FirstUserIsSuperAdmin

\* The labels at which Early asks nothing.
EarlyLabels == PlainLabels \ {"new.config", "me.config", "fadd.get", "no.unique",
                              "no.put", "me.mappings", "me.orgs", "add.exists",
                              "add.put"}

LEMMA EarlyLabel ==
  ASSUME NEW m, m.pc \in EarlyLabels
  PROVE  Early(m)
  BY DEF Early, EarlyLabels, PlainLabels

LEMMA EarlyPlain ==
  ASSUME IInv, Nobody, NEW r \in Requests, NEW m, Go(r, m), m.pc \in EarlyLabels,
         UNCHANGED <<users, userSeq>>
  PROVE  FirstInv'
  BY EarlyLabel, EarlyGo

LEMMA EarlyIdle == Idle.pc \in EarlyLabels
  BY LabelFacts DEF Idle, EarlyLabels, PlainLabels

LEMMA EarlyError ==
  ASSUME IInv, Nobody, NEW r \in Requests, Error(r) \/ Finish(r),
         UNCHANGED <<users, userSeq>>
  PROVE  FirstInv'
  <1>1. [Idle EXCEPT !.op = "Cleanup", !.pc = "odel.get", !.org = req[r].org].pc
          \in EarlyLabels
    BY LabelFacts DEF Idle, EarlyLabels, PlainLabels
  <1>2. OnError(req[r]).pc \in EarlyLabels
    BY <1>1, EarlyIdle DEF OnError
  <1> QED BY <1>2, EarlyIdle, EarlyPlain DEF Error, Finish

LEMMA EarlyGoto ==
  ASSUME IInv, Nobody, NEW r \in Requests, NEW label \in EarlyLabels,
         Goto(r, label), UNCHANGED <<users, userSeq>>
  PROVE  FirstInv'
  <1> DEFINE m == [req[r] EXCEPT !.pc = label]
  <1>1. m.pc = label
    BY LocalFacts DEF Local
  <1> QED BY <1>1, EarlyPlain DEF Goto

\* Nobody can be authorized, so only the routes without a session begin.
LEMMA EarlyBegin ==
  ASSUME IInv, Nobody, NEW r \in Requests, BeginRequest(r)
  PROVE  FirstInv'
  <1>0. UNCHANGED <<users, userSeq>>
    BY BeginHanding
  <1>a. SuperAdmins = {} /\ Stored = {}
    BY DEF Nobody, SuperAdmins
  <1>b. /\ "me.get" \in EarlyLabels /\ "um.org" \in EarlyLabels
        /\ "lock.get" \in EarlyLabels
    BY LabelFacts DEF EarlyLabels, PlainLabels
  <1>c. \A m : Begin(r, m) /\ m.pc \in EarlyLabels => FirstInv'
    BY <1>0, EarlyPlain DEF Begin
  <1>1. CASE BeginMe(r)
    BY <1>b, <1>c, <1>1 DEF BeginMe, Idle
  <1>2. CASE BeginUpdateMe(r)
    BY <1>b, <1>c, <1>2 DEF BeginUpdateMe, Idle
  <1>3. CASE BeginLockedUser(r)
    BY <1>b, <1>c, <1>3 DEF BeginLockedUser, Idle
  <1>4. CASE BeginNewBasicUser(r)
    <2>1. ASSUME NEW m, m.op = "NewBasicUser", m.pc = "roles", Begin(r, m)
          PROVE  FirstInv'
      <3>1. Early(m)
        BY <2>1 DEF Early
      <3> QED BY <1>0, <2>1, <3>1, EarlyGo DEF Begin
    <2> QED BY <1>4, <2>1 DEF BeginNewBasicUser, Idle
  <1>5. ~(\/ BeginNewUser(r) \/ BeginOrganizationNewUser(r) \/ BeginUpdateUser(r)
          \/ BeginOrganizationUpdateUser(r) \/ BeginRemoveUser(r)
          \/ BeginOrganizationRemoveUser(r) \/ BeginNewOrganization(r)
          \/ BeginUpdateOrganization(r) \/ BeginRemoveOrganization(r))
    BY <1>a DEF BeginNewUser, BeginOrganizationNewUser, BeginUpdateUser,
         BeginOrganizationUpdateUser, BeginRemoveUser, BeginOrganizationRemoveUser,
         BeginNewOrganization, BeginUpdateOrganization, BeginRemoveOrganization
  <1>6. ~(\/ BeginPutMapping(r) \/ BeginRemoveMapping(r) \/ BeginNewResource(r)
          \/ BeginCreateDevice(r))
    BY <1>a DEF BeginPutMapping, BeginRemoveMapping, BeginNewResource,
         BeginCreateDevice
  <1> QED BY <1>1, <1>2, <1>3, <1>4, <1>5, <1>6 DEF BeginRequest

\* The record that Add carries is the new user.
LEMMA EarlyAdd ==
  ASSUME IInv, Nobody, NEW r \in Requests, NEW l, NEW rec, rec.superAdmin,
         Go(r, Add(l, rec)), UNCHANGED <<users, userSeq>>
  PROVE  FirstInv'
  <1> DEFINE m == Add(l, rec)
  <1>1. m.pc = "add.exists" /\ m.rec = rec
    BY DEF Add, Idle
  <1>2. Early(m)
    BY <1>1 DEF Early
  <1> QED BY <1>2, EarlyGo

\* A first login finds no user and becomes super admin.
LEMMA EarlyMe ==
  ASSUME IInv, Nobody, "StoreError" \notin Ops, NEW r \in Requests, MeStep(r)
  PROVE  FirstInv'
  <1> DEFINE l == req[r]
  <1>0. l \in Local /\ Early(l) /\ UNCHANGED <<users, userSeq>>
    BY LocalFacts, MeHanding DEF Nobody
  <1>a. \A p : ByName(p) = {}
    BY DEF Nobody, ByName, Named
  <1>b. "um.facade" \in EarlyLabels /\ "um.raw" \in EarlyLabels
        /\ "me.first" \in EarlyLabels
    BY LabelFacts DEF EarlyLabels, PlainLabels
  <1>1. CASE UpdateMeOrg(r)
    BY <1>0, <1>b, <1>1, EarlyGoto, EarlyError DEF UpdateMeOrg
  <1>2. CASE UpdateMeFacade(r)
    BY <1>0, <1>a, <1>b, <1>2, EarlyGoto DEF UpdateMeFacade
  <1>3. CASE UpdateMeRaw(r)
    BY <1>0, <1>a, <1>3, EarlyError DEF UpdateMeRaw
  <1>4. CASE MeGet(r)
    BY <1>0, <1>a, <1>b, <1>4, EarlyGoto DEF MeGet
  <1>5. CASE FirstUser(r)
    <2>1. Go(r, AfterNewUsers(l, TRUE))
      BY <1>5 DEF FirstUser, Nobody, CallsMayFail
    <2>2. CASE l.op = "Me"
      <3> DEFINE m == [l EXCEPT !.pc = "me.mappings", !.super = TRUE]
      <3>1. m.pc = "me.mappings" /\ m.super
        BY <1>0 DEF Local
      <3>2. Early(m)
        BY <3>1 DEF Early
      <3> QED BY <1>0, <2>1, <2>2, <3>2, EarlyGo DEF AfterNewUsers
    <2>3. CASE l.op # "Me"
      <3> DEFINE rec == [name |-> l.name, superAdmin |-> TRUE \/ l.super,
                         roles |-> RolesIn(l.grants)]
      <3>1. rec.superAdmin
        OBVIOUS
      <3>2. Go(r, Add(l, rec))
        BY <2>1, <2>3 DEF AfterNewUsers
      <3> HIDE DEF rec
      <3> QED BY <1>0, <3>1, <3>2, EarlyAdd
    <2> QED BY <2>2, <2>3
  <1>6. CASE NewUsersConfig(r)
    BY <1>0, <1>6 DEF NewUsersConfig, At, Early
  <1>7. ASSUME NEW m, Go(r, m), m.pc = "me.orgs", m.super
        PROVE  FirstInv'
    <2>1. Early(m)
      BY <1>7 DEF Early
    <2> QED BY <1>0, <1>7, <2>1, EarlyGo
  <1>8. CASE MePrincipalMappings(r)
    <2>1. \A X : LET m == [l EXCEPT !.pc = "me.orgs", !.asked = X]
                 IN  m.pc = "me.orgs" /\ m.super = l.super
      BY <1>0 DEF Local
    <2>2. l.super
      BY <1>0, <1>8 DEF MePrincipalMappings, At, Early
    <2> QED BY <1>7, <1>8, <2>1, <2>2 DEF MePrincipalMappings
  <1>9. CASE MeOrganization(r)
    <2>1. \A X, Y : LET m == [l EXCEPT !.asked = X, !.grants = Y]
                        n == [l EXCEPT !.asked = X]
                    IN  m.pc = l.pc /\ m.super = l.super
                        /\ n.pc = l.pc /\ n.super = l.super
      BY <1>0 DEF Local
    <2>2. l.super /\ l.pc = "me.orgs"
      BY <1>0, <1>9 DEF MeOrganization, At, Early
    <2> QED BY <1>7, <1>9, <2>1, <2>2 DEF MeOrganization
  <1>10. CASE MeNewUser(r)
    <2>1. l.super
      BY <1>0, <1>10 DEF MeNewUser, At, Early
    <2>2. \A X : [name |-> l.name, superAdmin |-> l.super \/ l.name \in AdminGroup,
                  roles |-> X].superAdmin
      BY <2>1
    <2> QED BY <1>0, <1>10, <2>2, EarlyAdd, EarlyError DEF MeNewUser
  <1> QED BY <1>1, <1>2, <1>3, <1>4, <1>5, <1>6, <1>8, <1>9, <1>10 DEF MeStep

LEMMA EarlyReadUsers ==
  ASSUME IInv, Nobody, NEW r \in Requests,
         \/ NewUserConfig(r) \/ UpdateUserGet(r) \/ ValidRole(r)
         \/ CreateFromRequest(r) \/ EditFromRequest(r) \/ NewBasicUserGet(r)
         \/ RemoveUserGet(r) \/ LockedUserGet(r)
  PROVE  FirstInv'
  <1> DEFINE l == req[r]
  <1>0. l \in Local /\ Early(l) /\ UNCHANGED <<users, userSeq>>
    BY LocalFacts, ReadUsersHanding DEF Nobody
  <1>a. ~Present(l.uid) /\ Named(l.name) = {} /\ ByName(l.name) = {}
    BY DEF Nobody, Present, Stored, Named, ByName
  <1>b. "me.first" \in EarlyLabels
    BY LabelFacts DEF EarlyLabels, PlainLabels
  <1>1. CASE NewUserConfig(r)
    BY <1>0, <1>1 DEF NewUserConfig, At, Early
  <1>2. CASE UpdateUserGet(r)
    BY <1>0, <1>a, <1>2, EarlyError DEF UpdateUserGet
  <1>3. CASE ValidRole(r)
    <2>1. ASSUME NEW m, m.pc = l.pc, m.op = l.op, Go(r, m)
          PROVE  FirstInv'
      <3>1. Early(m)
        BY <1>0, <1>3, <2>1 DEF ValidRole, At, Early
      <3> QED BY <1>0, <2>1, <3>1, EarlyGo
    <2>2. \A X, Y : LET m == [l EXCEPT !.asked = X, !.grants = Y]
                        n == [l EXCEPT !.asked = X]
                    IN  m.pc = l.pc /\ m.op = l.op /\ n.pc = l.pc /\ n.op = l.op
      BY <1>0 DEF Local
    <2> QED BY <1>0, <1>3, <2>1, <2>2, EarlyError DEF ValidRole
  <1>4. CASE CreateFromRequest(r)
    BY <1>0, <1>4 DEF CreateFromRequest, At, Early
  <1>5. CASE EditFromRequest(r)
    BY <1>0, <1>5 DEF EditFromRequest, At, Early
  <1>6. CASE NewBasicUserGet(r)
    BY <1>0, <1>b, <1>6, EarlyGoto, EarlyError DEF NewBasicUserGet
  <1>7. CASE RemoveUserGet(r)
    BY <1>0, <1>a, <1>7, EarlyError DEF RemoveUserGet
  <1>8. CASE LockedUserGet(r)
    BY <1>0, <1>a, <1>8, EarlyError DEF LockedUserGet
  <1> QED BY <1>1, <1>2, <1>3, <1>4, <1>5, <1>6, <1>7, <1>8

LEMMA EarlyFacade ==
  ASSUME IInv, Nobody, NEW r \in Requests,
         \/ FacadeAdd(r) \/ FacadeGet(r) \/ FacadeUpdate(r) \/ FacadeDelete(r)
         \/ UpdateGet(r) \/ AddExists(r)
  PROVE  FirstInv'
  <1> DEFINE l == req[r]
  <1>0. l \in Local /\ Early(l) /\ UNCHANGED <<users, userSeq>>
    BY LocalFacts, FacadeHanding DEF Nobody
  <1>a. ~Present(l.uid)
    BY DEF Nobody, Present, Stored
  <1>1. CASE FacadeAdd(r) \/ FacadeUpdate(r) \/ UpdateGet(r)
    BY <1>0, <1>1 DEF FacadeAdd, FacadeUpdate, UpdateGet, At, Early
  <1>2. CASE FacadeGet(r) \/ FacadeDelete(r)
    BY <1>0, <1>a, <1>2, EarlyError DEF FacadeGet, FacadeDelete
  <1>3. CASE AddExists(r)
    <2> DEFINE m == [l EXCEPT !.pc = "add.put"]
    <2>1. m.pc = "add.put" /\ m.rec = l.rec
      BY <1>0 DEF Local
    <2>2. l.rec.superAdmin
      BY <1>0, <1>3 DEF AddExists, At, Early
    <2>3. Early(m)
      BY <2>1, <2>2 DEF Early
    <2> HIDE DEF m
    <2>4. CASE Go(r, m)
      BY <1>0, <2>3, <2>4, EarlyGo
    <2> QED BY <1>0, <1>3, <2>4, EarlyError DEF AddExists, Goto, m
  <1> QED BY <1>1, <1>2, <1>3

\* The first user is stored under id 1, and is super admin.
LEMMA EarlyPut ==
  ASSUME IInv, Nobody, NEW r \in Requests,
         UpdatePut(r) \/ AddPut(r) \/ RemoveUserDelete(r)
  PROVE  FirstInv'
  <1> DEFINE l == req[r]
  <1>0. Early(l) /\ userSeq = 0
    BY DEF Nobody
  <1>1. CASE UpdatePut(r)
    BY <1>0, <1>1 DEF UpdatePut, At, Early
  <1>2. CASE AddPut(r)
    <2>1. l.rec.superAdmin
      BY <1>0, <1>2 DEF AddPut, At, Early
    <2>2. CASE Error(r) /\ UNCHANGED <<users, userSeq>>
      BY <2>2, EarlyError
    <2>3. CASE userSeq' = userSeq + 1 /\ WasSuper(userSeq + 1, l.rec)
      <3>1. 1 \in everSuper' /\ userSeq' = 1
        BY <1>0, <2>1, <2>3 DEF WasSuper
      <3> QED BY <3>1 DEF FirstInv, FirstUserIsSuperAdmin
    <2> QED BY <1>2, <2>2, <2>3 DEF AddPut
  <1>3. CASE RemoveUserDelete(r)
    <2>1. users' = users
      BY <1>3 DEF RemoveUserDelete, Nobody, Stored, IInv, TypeOK, StoreTypeOK
    <2> QED BY <1>3, <2>1, EarlyError DEF RemoveUserDelete
  <1> QED BY <1>1, <1>2, <1>3

LEMMA EarlyOrganizations ==
  ASSUME IInv, Nobody, NEW r \in Requests, OrganizationsStep(r)
  PROVE  FirstInv'
  <1> DEFINE l == req[r]
  <1>0. l \in Local /\ Early(l) /\ UNCHANGED <<users, userSeq>>
    BY LocalFacts, EditOrganizationsHanding, RemoveOrganizationsHanding,
       CascadeHanding DEF OrganizationsStep, Nobody
  <1>a. /\ "uo.kvget" \in EarlyLabels /\ "uo.put" \in EarlyLabels
        /\ "uo.unique" \in EarlyLabels /\ "ro.devices" \in EarlyLabels
        /\ "odel.get" \in EarlyLabels /\ "odel.put" \in EarlyLabels
        /\ "casc.res" \in EarlyLabels /\ "casc.resdel" \in EarlyLabels
        /\ "casc.users" \in EarlyLabels /\ "casc.maps" \in EarlyLabels
    BY LabelFacts DEF EarlyLabels, PlainLabels
  <1>b. ASSUME NEW m, Go(r, m), m.pc \in EarlyLabels
        PROVE  FirstInv'
    BY <1>0, <1>b, EarlyPlain
  <1>c. /\ \A x : Go(r, [l EXCEPT !.pc = "uo.kvget", !.oname = x]) => FirstInv'
        /\ \A x : Go(r, [l EXCEPT !.pc = "casc.res", !.kind = x]) => FirstInv'
        /\ \A x : Go(r, [l EXCEPT !.pc = "casc.users", !.usersLeft = x]) => FirstInv'
        /\ \A x : Go(r, [l EXCEPT !.pc = "casc.maps", !.mapsLeft = x]) => FirstInv'
    BY <1>0, <1>a, <1>b DEF Local
  <1>d. ASSUME l.pc \in EarlyLabels
        PROVE  /\ \A x : Go(r, [l EXCEPT !.kind = x]) => FirstInv'
               /\ \A x : Go(r, [l EXCEPT !.mapsLeft = x]) => FirstInv'
    BY <1>0, <1>b, <1>d DEF Local
  <1>1. CASE NewOrganizationUnique(r) \/ NewOrganizationPut(r)
    BY <1>0, <1>1 DEF NewOrganizationUnique, NewOrganizationPut, At, Early
  <1>2. CASE UpdateOrganizationGet(r)
    BY <1>0, <1>2, <1>c, EarlyError DEF UpdateOrganizationGet
  <1>3. CASE UpdateOrganizationKvGet(r) \/ UpdateOrganizationUnique(r)
             \/ UpdateOrganizationPut(r)
    BY <1>0, <1>3, <1>a, EarlyGoto, EarlyError
       DEF UpdateOrganizationKvGet, UpdateOrganizationUnique, UpdateOrganizationPut
  <1>4. CASE RemoveOrganizationGet(r) \/ RemoveOrganizationDevices(r)
             \/ DeleteOrganizationGet(r)
    BY <1>0, <1>4, <1>a, EarlyGoto, EarlyError
       DEF RemoveOrganizationGet, RemoveOrganizationDevices, DeleteOrganizationGet
  <1>5. CASE DeleteOrganizationPut(r)
    BY <1>5, <1>c DEF DeleteOrganizationPut
  <1>6. CASE CascadeList(r)
    <2>1. l.pc = "casc.res"
      BY <1>6 DEF CascadeList, At
    <2> QED BY <1>0, <1>6, <1>a, <1>d, <2>1, EarlyGoto DEF CascadeList
  <1>7. CASE CascadeDelete(r)
    BY <1>0, <1>7, <1>c, EarlyError DEF CascadeDelete
  <1>8. CASE CascadeListUsers(r)
    BY <1>8, <1>c DEF CascadeListUsers
  <1>9. CASE CascadeUser(r)
    <2>1. \A u : ~Present(u)
      BY DEF Nobody, Present, Stored
    <2> QED BY <1>0, <1>9, <2>1, EarlyError DEF CascadeUser
  <1>10. CASE CascadeListMappings(r)
    BY <1>10, <1>c DEF CascadeListMappings
  <1>11. CASE CascadeMapping(r)
    <2>1. l.pc = "casc.maps"
      BY <1>11 DEF CascadeMapping, At
    <2> QED BY <1>0, <1>11, <1>a, <1>d, <2>1, EarlyError DEF CascadeMapping
  <1> QED BY <1>1, <1>2, <1>3, <1>4, <1>5, <1>6, <1>7, <1>8, <1>9, <1>10, <1>11
          DEF OrganizationsStep

LEMMA EarlyOther ==
  ASSUME IInv, Nobody, NEW r \in Requests, OtherStep(r)
  PROVE  FirstInv'
  <1>0. UNCHANGED <<users, userSeq>>
    BY OtherHanding
  <1>a. /\ "map.put" \in EarlyLabels /\ "mapdel.put" \in EarlyLabels
        /\ "dev.put" \in EarlyLabels
    BY LabelFacts DEF EarlyLabels, PlainLabels
  <1>1. CASE PutMappingOrg(r) \/ RemoveMappingGet(r) \/ CreateDeviceOrg(r)
    BY <1>0, <1>1, <1>a, EarlyGoto, EarlyError
       DEF PutMappingOrg, RemoveMappingGet, CreateDeviceOrg
  <1>2. CASE PutMappingPut(r) \/ RemoveMappingDelete(r) \/ NewResourcePut(r)
             \/ CreateDevicePut(r)
    BY <1>0, <1>2, EarlyError
       DEF PutMappingPut, RemoveMappingDelete, NewResourcePut, CreateDevicePut
  <1> QED BY <1>1, <1>2 DEF OtherStep

\* Once there has been a user, the sequence stays above 0, and who was super
\* admin has been.
LEMMA HistoryGrows ==
  ASSUME IInv, [Next]_vars
  PROVE  everSuper \subseteq everSuper' /\ userSeq' \in {userSeq, userSeq + 1}
  <1>1. CASE UNCHANGED vars
    BY <1>1 DEF vars
  <1>2. ASSUME NEW r \in Requests, BeginRequest(r) \/ StoreError(r)
        PROVE  everSuper' = everSuper /\ userSeq' = userSeq
    <2>1. Reads \/ StoreError(r)
      BY <1>2 DEF Begin, BeginRequest, BeginMe, BeginUpdateMe, BeginNewBasicUser,
         BeginNewUser, BeginOrganizationNewUser, BeginUpdateUser,
         BeginOrganizationUpdateUser, BeginRemoveUser, BeginOrganizationRemoveUser,
         BeginLockedUser, BeginNewOrganization, BeginUpdateOrganization,
         BeginRemoveOrganization, BeginPutMapping, BeginRemoveMapping,
         BeginNewResource, BeginCreateDevice
    <2> QED BY <2>1 DEF Reads, store, StoreError
  <1>3. ASSUME NEW r \in Requests, Step(r)
        PROVE  everSuper \subseteq everSuper' /\ userSeq' \in {userSeq, userSeq + 1}
    <2>1. CASE MeStep(r)
      BY <2>1 DEF MeStep, UpdateMeOrg, UpdateMeFacade, UpdateMeRaw, MeGet, FirstUser,
           NewUsersConfig, MePrincipalMappings, MeOrganization, MeNewUser, Reads, store
    <2>2. CASE UpdatePut(r) \/ AddPut(r) \/ RemoveUserDelete(r)
      BY <2>2 DEF UpdatePut, AddPut, RemoveUserDelete, WasSuper
    <2>3. CASE UsersStep(r) /\ ~(UpdatePut(r) \/ AddPut(r) \/ RemoveUserDelete(r))
      BY <2>3 DEF UsersStep, NewUserConfig, UpdateUserGet, ValidRole,
           CreateFromRequest, EditFromRequest, NewBasicUserGet, RemoveUserGet,
           LockedUserGet, FacadeAdd, FacadeGet, FacadeUpdate, FacadeDelete,
           UpdateGet, AddExists, Reads, store
    <2>4. CASE OrganizationsStep(r)
      BY <2>4 DEF OrganizationsStep, NewOrganizationUnique, NewOrganizationPut,
           UpdateOrganizationGet, UpdateOrganizationKvGet, UpdateOrganizationUnique,
           UpdateOrganizationPut, RemoveOrganizationGet, RemoveOrganizationDevices,
           DeleteOrganizationGet, DeleteOrganizationPut, CascadeList, CascadeDelete,
           CascadeListUsers, CascadeUser, CascadeListMappings, CascadeMapping,
           Reads, store
    <2>5. CASE OtherStep(r)
      BY <2>5 DEF OtherStep, PutMappingOrg, PutMappingPut, RemoveMappingGet,
           RemoveMappingDelete, NewResourcePut, CreateDeviceOrg, CreateDevicePut,
           Reads, store
    <2> QED BY <1>3, <2>1, <2>2, <2>3, <2>4, <2>5 DEF Step
  <1>4. CASE \/ \E k \in Kinds, o \in OrgIds : RemoveResource(k, o)
             \/ \E o \in OrgIds : RemoveDevice(o)
             \/ \E b \in BOOLEAN : ReplaceAuthConfig(b)
             \/ Crash
    BY <1>4 DEF RemoveResource, RemoveDevice, ReplaceAuthConfig, Crash, Reads, store
  <1> QED BY <1>1, <1>2, <1>3, <1>4 DEF Next

LEMMA FirstNext ==
  ASSUME IInv, FirstInv, "StoreError" \notin Ops, [Next]_vars
  PROVE  FirstInv'
  <1>0. userSeq \in Nat
    BY DEF IInv, TypeOK, StoreTypeOK
  <1>1. CASE userSeq # 0
    <2>1. userSeq' # 0 /\ userSeq' \in Nat /\ 1 \in everSuper'
      BY <1>0, <1>1, HistoryGrows DEF FirstInv, FirstUserIsSuperAdmin
    <2> QED BY <2>1 DEF FirstInv, FirstUserIsSuperAdmin
  <1>2. CASE userSeq = 0
    <2>0. Nobody
      BY <1>2 DEF Nobody, FirstInv
    <2>1. CASE \/ UNCHANGED vars
               \/ \E k \in Kinds, o \in OrgIds : RemoveResource(k, o)
               \/ \E o \in OrgIds : RemoveDevice(o)
               \/ \E b \in BOOLEAN : ReplaceAuthConfig(b)
      <3>1. UNCHANGED <<users, userSeq, req>>
        BY <2>1 DEF vars, RemoveResource, RemoveDevice, ReplaceAuthConfig
      <3>2. Stored' = {} /\ userSeq' = 0 /\ \A q \in Requests : Early(req'[q])
        BY <2>0, <3>1 DEF Nobody, Stored
      <3>3. ~(userSeq' > 0)
        BY <3>2
      <3> QED BY <3>2, <3>3 DEF FirstInv, FirstUserIsSuperAdmin
    <2>2. CASE Crash
      <3>1. Stored' = {} /\ userSeq' = 0 /\ \A q \in Requests : req'[q] = Idle
        BY <2>0, <2>2 DEF Crash, Reads, store, Nobody, Stored
      <3>2. ~(userSeq' > 0) /\ Early(Idle)
        BY <3>1, EarlyIdle, EarlyLabel
      <3> QED BY <3>1, <3>2 DEF FirstInv, FirstUserIsSuperAdmin
    <2>3. ASSUME NEW r \in Requests, BeginRequest(r) \/ Step(r) \/ StoreError(r)
          PROVE  FirstInv'
      <3>1. ~StoreError(r)
        BY DEF StoreError, CallsMayFail
      <3>2. CASE UsersStep(r)
        BY <2>0, <3>2, EarlyReadUsers, EarlyFacade, EarlyPut DEF UsersStep
      <3> QED BY <2>0, <2>3, <3>1, <3>2, EarlyBegin, EarlyMe, EarlyOrganizations,
                 EarlyOther DEF Step
    <2> QED BY <2>1, <2>2, <2>3 DEF Next
  <1> QED BY <1>1, <1>2

LEMMA FirstInit == Init => FirstInv
  <1> SUFFICES ASSUME Init PROVE FirstInv
    OBVIOUS
  <1>1. userSeq = 0 /\ Stored = {} /\ \A r \in Requests : req[r] = Idle
    BY DEF Init, Stored
  <1>2. Early(Idle) /\ ~(userSeq > 0)
    BY <1>1, EarlyIdle, EarlyLabel
  <1> QED BY <1>1, <1>2 DEF FirstInv, FirstUserIsSuperAdmin

\* However first logins race, users are removed and the server stops, the first
\* user an installation ever stores is a super admin, as long as the count of
\* firstUser does not fail (me.go answers false then, and goes on).
THEOREM FirstUserRules ==
  ASSUME "StoreError" \notin Ops
  PROVE  Spec => []FirstUserIsSuperAdmin
  <1>1. Init => IInv /\ FirstInv
    BY InitInv, FirstInit
  <1>2. IInv /\ FirstInv /\ [Next]_vars => IInv' /\ FirstInv'
    BY NextInv, FirstNext
  <1>3. FirstInv => FirstUserIsSuperAdmin
    BY DEF FirstInv
  <1> QED BY <1>1, <1>2, <1>3, PTL DEF Spec
==============================================================================
