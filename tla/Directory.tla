------------------------------ MODULE Directory ------------------------------
(****************************************************************************)
(* What the users and organizations stores promise their clients: the two   *)
(* directories as single atomic objects.  Ids are handed out in sequence    *)
(* and never come back; a principal has one user; an organization name is   *)
(* held by one organization; a user gains roles only in organizations that  *)
(* exist, one per organization; the default organization cannot be deleted. *)
(* Tenancy implements this when its handlers run one at a time.             *)
(****************************************************************************)
EXTENDS UserRecords

CONSTANTS OrgNames, DefaultName, UserIds, DefaultOrg

VARIABLES users, userSeq, orgs, orgSeq

dirVars == <<users, userSeq, orgs, orgSeq>>

DirInit ==
    /\ users = [u \in UserIds |-> Absent] /\ userSeq = 0
    /\ orgs = [o \in OrgIds |-> IF o = DefaultOrg THEN DefaultName ELSE Absent]
    /\ orgSeq = 0

\* The records a principal may hold: at most one role per organization.
LegalRecords(p) ==
    [name : {p}, superAdmin : BOOLEAN, roles : [OrgIds -> {0, 1}]]

GainsOnlyIn(old, new) ==
    \A o \in OrgIds : new[o] > old[o] => orgs[o] # Absent

AddUser == \E p \in Principals : \E rec \in LegalRecords(p) :
    /\ \A u \in UserIds : users[u] # Absent => users[u].name # p
    /\ GainsOnlyIn(RolesIn({}), rec.roles)
    /\ userSeq + 1 \in UserIds
    /\ userSeq' = userSeq + 1
    /\ users' = [users EXCEPT ![userSeq + 1] = rec]
    /\ UNCHANGED <<orgs, orgSeq>>

EditUser == \E u \in UserIds :
    /\ users[u] # Absent
    /\ \E rec \in LegalRecords(users[u].name) :
         /\ GainsOnlyIn(users[u].roles, rec.roles)
         /\ users' = [users EXCEPT ![u] = rec]
    /\ UNCHANGED <<userSeq, orgs, orgSeq>>

RemoveUser == \E u \in UserIds :
    /\ users[u] # Absent
    /\ users' = [users EXCEPT ![u] = Absent]
    /\ UNCHANGED <<userSeq, orgs, orgSeq>>

Free(n) == \A o \in OrgIds : orgs[o] # n

AddOrg == \E n \in OrgNames :
    /\ Free(n)
    /\ orgSeq + 1 \in OrgIds
    /\ orgSeq' = orgSeq + 1
    /\ orgs' = [orgs EXCEPT ![orgSeq + 1] = n]
    /\ UNCHANGED <<users, userSeq>>

RenameOrg == \E o \in OrgIds, n \in OrgNames :
    /\ orgs[o] # Absent /\ Free(n)
    /\ orgs' = [orgs EXCEPT ![o] = n]
    /\ UNCHANGED <<users, userSeq, orgSeq>>

RemoveOrg == \E o \in OrgIds \ {DefaultOrg} :
    /\ orgs[o] # Absent
    /\ orgs' = [orgs EXCEPT ![o] = Absent]
    /\ UNCHANGED <<users, userSeq, orgSeq>>

DirNext ==
    AddUser \/ EditUser \/ RemoveUser \/ AddOrg \/ RenameOrg \/ RemoveOrg

DirSpec == DirInit /\ [][DirNext]_dirVars
==============================================================================
