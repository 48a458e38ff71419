------------------------------ MODULE Resources ------------------------------
(****************************************************************************)
(* Data sources and the servers attached to them: the sources and servers   *)
(* buckets (backend/kv), their organization facades (backend/organizations) *)
(* and the handlers of sources, kapacitors and services (backend/server).   *)
(* One source of the installation is the default one; one server of an      *)
(* organization is the active one.  A server with a type is a service, one  *)
(* without is a kapacitor.                                                  *)
(*                                                                          *)
(* As in Tenancy, `req` holds the handlers in flight and each step is one   *)
(* transaction.  Ids are never handed out twice and kv Update refuses an    *)
(* absent id, so the facade's Get right before a single kv Update or Delete *)
(* that refuses it too is part of that step.  Names, URLs and credentials   *)
(* are left out; so are sources from flags and files (multistore).          *)
(****************************************************************************)
EXTENDS Naturals, FiniteSets

CONSTANTS Requests,     \* slots for handlers in flight
          Orgs,         \* organizations of the sessions
          Absent,       \* what a bucket answers for a key it does not hold
          MaxSources,   \* bound: ids the sources bucket hands out
          MaxServers,   \* bound: ids the servers bucket hands out
          Ops           \* the operations clients use, the faults that happen

SourceIds == 1 .. MaxSources
ServerIds == 1 .. MaxServers

Source == [org : Orgs, default : BOOLEAN]
Server == [org : Orgs, src : SourceIds, kapacitor : BOOLEAN, active : BOOLEAN]

ASSUME ResourcesAssumption ==
    /\ MaxSources \in Nat /\ MaxServers \in Nat
    /\ Absent \notin Source /\ Absent \notin Server

VARIABLES sources,     \* sources bucket
          sourceSeq,   \* its sequence
          servers,     \* servers bucket
          serverSeq,   \* its sequence
          req,         \* handlers in flight
          disturbed    \* history: handlers have overlapped, or one was cut off

sourceVars == <<sources, sourceSeq>>
serverVars == <<servers, serverSeq>>
vars == <<sources, sourceSeq, servers, serverSeq, req, disturbed>>

Operations ==
    {"none", "NewSource", "UpdateSource", "RemoveSource", "NewServer",
     "UpdateServer", "RemoveServer"}

\* Where a handler is: what it asks the store next.
Labels ==
    {"idle", "ns.all", "ns.add", "us.get", "us.put", "rs.get", "rs.del",
     "rs.list", "rs.kget", "rs.kdel", "nk.src", "nk.add", "uk.get", "upd.get",
     "upd.put", "reset.all", "reset.put", "deact.all", "deact.put", "rk.get",
     "rk.kget", "rk.del"}

Local == [op : Operations, pc : Labels, org : Orgs \cup {Absent},
          src : SourceIds \cup {0}, sid : ServerIds \cup {0},
          default : BOOLEAN,                \* source.Default to store
          rec : Server \cup {Absent},       \* server read or being built
          activate : BOOLEAN,               \* activateKapacitor, srv.Active
          left : SUBSET ServerIds]          \* what a loop still has to visit

Idle == [op |-> "none", pc |-> "idle", org |-> Absent, src |-> 0, sid |-> 0,
         default |-> FALSE, rec |-> Absent, activate |-> FALSE, left |-> {}]

TypeOK ==
    /\ sources \in [SourceIds -> Source \cup {Absent}]
    /\ sourceSeq \in 0 .. MaxSources
    /\ servers \in [ServerIds -> Server \cup {Absent}]
    /\ serverSeq \in 0 .. MaxServers
    /\ req \in [Requests -> Local]
    /\ disturbed \in BOOLEAN

StoredSources == {s \in SourceIds : sources[s] # Absent}
StoredServers == {i \in ServerIds : servers[i] # Absent}
DefaultSources == {s \in StoredSources : sources[s].default}

\* Buckets are walked in key order: the first of a set of ids, if any.
First(S) == {s \in S : \A x \in S : s <= x}

\* All of the organization facades.
ServersOf(o) == {i \in StoredServers : servers[i].org = o}
ActiveServersOf(o) == {i \in ServersOf(o) : servers[i].active}

\* Get of the organization facades.
SourceFound(s, o) == s \in StoredSources /\ sources[s].org = o
ServerFound(i, o) == i \in ServersOf(o)

----------------------------------------------------------------------------
At(r, label) == req[r].pc = label
Go(r, l) == req' = [req EXCEPT ![r] = l] /\ UNCHANGED disturbed
Goto(r, label) == Go(r, [req[r] EXCEPT !.pc = label])
Finish(r) == Go(r, Idle)
Reads == UNCHANGED <<sourceVars, serverVars>>

\* A request of a session in organization l.org.
Begin(r, l) ==
    /\ l.op \in Ops
    /\ At(r, "idle")
    /\ req' = [req EXCEPT ![r] = l]
    /\ disturbed' = (disturbed \/ \E q \in Requests \ {r} : ~At(q, "idle"))
    /\ Reads

\* Clients name ids they have been given, of what may be gone by now.
SeenSources == {s \in SourceIds : s <= sourceSeq}
SeenServers == {i \in ServerIds : i <= serverSeq}

BeginNewSource(r) == \E o \in Orgs, d \in BOOLEAN :
    Begin(r, [Idle EXCEPT !.org = o, !.op = "NewSource", !.pc = "ns.all",
                             !.default = d])

BeginUpdateSource(r) == \E o \in Orgs, s \in SeenSources, d \in BOOLEAN :
    Begin(r, [Idle EXCEPT !.org = o, !.op = "UpdateSource", !.pc = "us.get",
                             !.src = s, !.default = d])

BeginRemoveSource(r) == \E o \in Orgs, s \in SeenSources :
    Begin(r, [Idle EXCEPT !.org = o, !.op = "RemoveSource", !.pc = "rs.get",
                             !.src = s])

\* NewKapacitor and NewService.  The record is stored active in any case.
BeginNewServer(r) == \E o \in Orgs, s \in SeenSources, k \in BOOLEAN :
    Begin(r, [Idle EXCEPT !.org = o, !.op = "NewServer", !.pc = "nk.src", !.src = s,
                !.activate = k,
                !.rec = [org |-> o, src |-> s, kapacitor |-> k,
                         active |-> TRUE]])

\* UpdateKapacitor and UpdateService.
BeginUpdateServer(r) == \E o \in Orgs, i \in SeenServers :
    Begin(r, [Idle EXCEPT !.org = o, !.op = "UpdateServer", !.pc = "uk.get",
                             !.sid = i])

\* RemoveKapacitor and RemoveService.
BeginRemoveServer(r) == \E o \in Orgs, i \in SeenServers :
    Begin(r, [Idle EXCEPT !.org = o, !.op = "RemoveServer", !.pc = "rk.get",
                             !.sid = i])

BeginRequest(r) ==
    \/ BeginNewSource(r) \/ BeginUpdateSource(r) \/ BeginRemoveSource(r)
    \/ BeginNewServer(r) \/ BeginUpdateServer(r) \/ BeginRemoveServer(r)

----------------------------------------------------------------------------
(* Sources. *)

\* resetDefaultSource, when the record that is stored next is the default.
ResetDefault(srcs, isDefault) ==
    [s \in SourceIds |->
        IF isDefault /\ srcs[s] # Absent
        THEN [srcs[s] EXCEPT !.default = FALSE] ELSE srcs[s]]

\* update: the other sources are reset and the record put, in one transaction.
PutSource(srcs, s, rec) == [ResetDefault(srcs, rec.default) EXCEPT ![s] = rec]

\* "force first source added to be default"
NewSourceAll(r) ==
    /\ At(r, "ns.all")
    /\ Go(r, [req[r] EXCEPT !.pc = "ns.add",
                            !.default = @ \/ StoredSources = {}])
    /\ Reads

\* Mutant: add forgets resetDefaultSource.
MutNewSourceAdd(r) ==
    /\ At(r, "ns.add") /\ sourceSeq < MaxSources
    /\ sourceSeq' = sourceSeq + 1
    /\ sources' = [sources EXCEPT ![sourceSeq + 1] =
                     [org |-> req[r].org, default |-> req[r].default]]
    /\ Finish(r)
    /\ UNCHANGED serverVars

\* (A store that holds MaxSources, or MaxServers below, fails: the bound.)
NewSourceAdd(r) ==
    /\ At(r, "ns.add")
    /\ \/ /\ sourceSeq < MaxSources
          /\ sourceSeq' = sourceSeq + 1
          /\ sources' = PutSource(sources, sourceSeq + 1,
                          [org |-> req[r].org, default |-> req[r].default])
       \/ sourceSeq = MaxSources /\ UNCHANGED sourceVars
    /\ Finish(r)
    /\ UNCHANGED serverVars

UpdateSourceGet(r) ==
    LET l == req[r]
    IN  /\ At(r, "us.get")
        /\ \/ SourceFound(l.src, l.org) /\ Goto(r, "us.put")
           \/ ~SourceFound(l.src, l.org) /\ Finish(r)
        /\ Reads

UpdateSourcePut(r) ==
    LET l == req[r]
    IN  /\ At(r, "us.put")
        /\ \/ /\ l.src \in StoredSources
              /\ sources' = PutSource(sources, l.src,
                              [org |-> l.org, default |-> l.default])
           \/ l.src \notin StoredSources /\ UNCHANGED sources
        /\ Finish(r)
        /\ UNCHANGED <<sourceSeq, serverVars>>

RemoveSourceGet(r) ==
    LET l == req[r]
    IN  /\ At(r, "rs.get")
        /\ \/ SourceFound(l.src, l.org) /\ Goto(r, "rs.del")
           \/ ~SourceFound(l.src, l.org) /\ Finish(r)
        /\ Reads

\* The sources with the one in S, and no other, the default.
DefaultTo(srcs, S) ==
    [x \in SourceIds |->
        IF srcs[x] = Absent THEN Absent
        ELSE [srcs[x] EXCEPT !.default = (x \in S)]]

\* Mutant: the source about to be deleted is not avoided.
MutSetRandomDefault(srcs, s) ==
    IF srcs[s].default THEN DefaultTo(srcs, First(StoredSources)) ELSE srcs

\* setRandomDefault: if s is the default, the first other source of any
\* organization is made the default.
SetRandomDefault(srcs, s) ==
    IF srcs[s].default THEN DefaultTo(srcs, First(StoredSources \ {s})) ELSE srcs

RemoveSourceDelete(r) ==
    LET l == req[r]
    IN  /\ At(r, "rs.del")
        /\ \/ /\ l.src \in StoredSources
              /\ sources' = [SetRandomDefault(sources, l.src)
                               EXCEPT ![l.src] = Absent]
              /\ Goto(r, "rs.list")
           \/ l.src \notin StoredSources /\ UNCHANGED sources /\ Finish(r)
        /\ UNCHANGED <<sourceSeq, serverVars>>

\* Mutant: services of the source are not listed.
MutRemoveSourceList(r) ==
    LET l == req[r]
        attached == {i \in ServersOf(l.org) :
                       servers[i].src = l.src /\ servers[i].kapacitor}
    IN  /\ At(r, "rs.list")
        /\ Go(r, [l EXCEPT !.pc = "rs.kget", !.left = attached])
        /\ Reads

\* removeSrcsKapa: the servers of the source, kapacitors and services.
RemoveSourceList(r) ==
    LET l == req[r]
        attached == {i \in ServersOf(l.org) : servers[i].src = l.src}
    IN  /\ At(r, "rs.list")
        /\ Go(r, [l EXCEPT !.pc = "rs.kget", !.left = attached])
        /\ Reads

\* The facade's Delete of the next one: Get, which may fail ...
RemoveSourceServerGet(r) ==
    LET l == req[r]
    IN  /\ At(r, "rs.kget")
        /\ \/ \E i \in First(l.left) \cap StoredServers :
                Go(r, [l EXCEPT !.pc = "rs.kdel", !.sid = i,
                                !.left = @ \ {i}])
           \/ First(l.left) \cap StoredServers = {} /\ Finish(r)
        /\ Reads

DeleteServer(r, next) ==
    /\ servers' = [servers EXCEPT ![req[r].sid] = Absent]
    /\ next
    /\ UNCHANGED <<sourceVars, serverSeq>>

\* ... and kv Delete, which does not.
RemoveSourceServerDelete(r) ==
    At(r, "rs.kdel") /\ DeleteServer(r, Goto(r, "rs.kget"))

SourcesStep(r) ==
    \/ NewSourceAll(r) \/ NewSourceAdd(r) \/ UpdateSourceGet(r)
    \/ UpdateSourcePut(r) \/ RemoveSourceGet(r) \/ RemoveSourceDelete(r)
    \/ RemoveSourceList(r) \/ RemoveSourceServerGet(r)
    \/ RemoveSourceServerDelete(r)

----------------------------------------------------------------------------
(* Kapacitors and services. *)

NewServerSource(r) ==
    LET l == req[r]
    IN  /\ At(r, "nk.src")
        /\ \/ SourceFound(l.src, l.org) /\ Goto(r, "reset.all")
           \/ ~SourceFound(l.src, l.org) /\ Finish(r)
        /\ Reads

\* What follows resetActiveServer.
AfterReset(l) == IF l.op = "NewServer" THEN "nk.add" ELSE "upd.put"

\* Mutant: the servers of every organization are reset.
MutResetList(r) ==
    LET l == req[r]
        active == {i \in StoredServers : servers[i].active}
    IN  /\ At(r, "reset.all")
        /\ Go(r, [l EXCEPT !.pc = "reset.put", !.left = active])
        /\ Reads

\* resetActiveServer lists the organization's servers ...
ResetList(r) ==
    LET l == req[r]
    IN  /\ At(r, "reset.all")
        /\ Go(r, [l EXCEPT !.pc = "reset.put", !.left = ActiveServersOf(l.org)])
        /\ Reads

Deactivate(i) == servers' = [servers EXCEPT ![i] = [@ EXCEPT !.active = FALSE]]

\* ... and updates each active one in a transaction of its own; the handler
\* stops when one is gone.
ResetOne(r) ==
    LET l == req[r]
    IN  /\ At(r, "reset.put")
        /\ \/ \E i \in First(l.left) \cap StoredServers :
                Deactivate(i) /\ Go(r, [l EXCEPT !.left = @ \ {i}])
           \/ \E i \in First(l.left) \ StoredServers :
                Finish(r) /\ UNCHANGED servers
           \/ l.left = {} /\ Goto(r, AfterReset(l)) /\ UNCHANGED servers
        /\ UNCHANGED <<sourceVars, serverSeq>>

\* The facade stores the record active, so NewKapacitor goes on to deactivate
\* the others; NewService does not.
NewServerAdd(r) ==
    LET l == req[r]
        id == serverSeq + 1
    IN  /\ At(r, "nk.add")
        /\ \/ /\ serverSeq < MaxServers
              /\ serverSeq' = id
              /\ servers' = [servers EXCEPT ![id] = l.rec]
              /\ \/ l.activate /\ Go(r, [l EXCEPT !.pc = "deact.all", !.sid = id])
                 \/ ~l.activate /\ Finish(r)
           \/ serverSeq = MaxServers /\ Finish(r) /\ UNCHANGED serverVars
        /\ UNCHANGED sourceVars

\* Mutant: the handler goes on with an empty record when there is no server.
MutUpdateServerGet(r) ==
    LET l == req[r]
    IN  /\ At(r, "uk.get") /\ ~ServerFound(l.sid, l.org)
        /\ Go(r, [l EXCEPT !.pc = "upd.get",
                     !.rec = [org |-> Absent, src |-> 0, kapacitor |-> TRUE,
                              active |-> FALSE]])
        /\ Reads

\* A kapacitor's request may set active, to either value; what the record says
\* is kept otherwise.
UpdateServerGet(r) ==
    LET l == req[r]
        edited(a, b) == [l EXCEPT !.pc = "upd.get", !.activate = a,
                           !.src = servers[l.sid].src,
                           !.rec = [servers[l.sid] EXCEPT !.active = b]]
    IN  /\ At(r, "uk.get")
        /\ \/ /\ ServerFound(l.sid, l.org)
              /\ Go(r, edited(FALSE, servers[l.sid].active))
           \/ /\ ServerFound(l.sid, l.org) /\ servers[l.sid].kapacitor
              /\ \E b \in BOOLEAN : Go(r, edited(b, b))
           \/ ~ServerFound(l.sid, l.org) /\ Finish(r)
        /\ Reads

\* Mutant: Update does not reset the active server.
MutFacadeUpdateGet(r) ==
    At(r, "upd.get") /\ Goto(r, "upd.put") /\ Reads

\* "only one server can be active at a time"
FacadeUpdateGet(r) ==
    LET l == req[r]
    IN  /\ At(r, "upd.get")
        /\ \/ l.sid \in StoredServers /\ l.rec.active /\ Goto(r, "reset.all")
           \/ l.sid \in StoredServers /\ ~l.rec.active /\ Goto(r, "upd.put")
           \/ l.sid \notin StoredServers /\ Finish(r)
        /\ Reads

UpdateServerPut(r) ==
    LET l == req[r]
    IN  /\ At(r, "upd.put")
        /\ \/ /\ l.sid \in StoredServers
              /\ servers' = [servers EXCEPT ![l.sid] = l.rec]
              /\ \/ l.activate /\ Goto(r, "deact.all")
                 \/ ~l.activate /\ Finish(r)
           \/ l.sid \notin StoredServers /\ Finish(r) /\ UNCHANGED servers
        /\ UNCHANGED <<sourceVars, serverSeq>>

\* deactivateOtherKapacitors: the other active kapacitors of the source ...
DeactivateList(r) ==
    LET l == req[r]
        others == {i \in ActiveServersOf(l.org) \ {l.sid} :
                     servers[i].src = l.src /\ servers[i].kapacitor}
    IN  /\ At(r, "deact.all")
        /\ Go(r, [l EXCEPT !.pc = "deact.put", !.left = others])
        /\ Reads

\* ... one transaction each; one that is gone is passed over.
DeactivateOne(r) ==
    LET l == req[r]
    IN  /\ At(r, "deact.put")
        /\ \/ \E i \in First(l.left) :
                /\ \/ i \in StoredServers /\ Deactivate(i)
                   \/ i \notin StoredServers /\ UNCHANGED servers
                /\ Go(r, [l EXCEPT !.left = @ \ {i}])
           \/ l.left = {} /\ Finish(r) /\ UNCHANGED servers
        /\ UNCHANGED <<sourceVars, serverSeq>>

RemoveServerGet(r) ==
    LET l == req[r]
    IN  /\ At(r, "rk.get")
        /\ \/ ServerFound(l.sid, l.org) /\ Goto(r, "rk.kget")
           \/ ~ServerFound(l.sid, l.org) /\ Finish(r)
        /\ Reads

RemoveServerFacadeGet(r) ==
    LET l == req[r]
    IN  /\ At(r, "rk.kget")
        /\ \/ l.sid \in StoredServers /\ Goto(r, "rk.del")
           \/ l.sid \notin StoredServers /\ Finish(r)
        /\ Reads

RemoveServerDelete(r) == At(r, "rk.del") /\ DeleteServer(r, Finish(r))

ServersStep(r) ==
    \/ NewServerSource(r) \/ ResetList(r) \/ ResetOne(r) \/ NewServerAdd(r)
    \/ UpdateServerGet(r) \/ FacadeUpdateGet(r) \/ UpdateServerPut(r)
    \/ DeactivateList(r) \/ DeactivateOne(r) \/ RemoveServerGet(r)
    \/ RemoveServerFacadeGet(r) \/ RemoveServerDelete(r)

----------------------------------------------------------------------------
\* The server stops and starts again: the handlers in flight are gone.
Crash ==
    /\ "Crash" \in Ops
    /\ \E r \in Requests : ~At(r, "idle")
    /\ req' = [r \in Requests |-> Idle]
    /\ disturbed' = TRUE
    /\ Reads

Init ==
    /\ sources = [s \in SourceIds |-> Absent] /\ sourceSeq = 0
    /\ servers = [i \in ServerIds |-> Absent] /\ serverSeq = 0
    /\ req = [r \in Requests |-> Idle]
    /\ disturbed = FALSE

Step(r) == SourcesStep(r) \/ ServersStep(r)

Next == (\E r \in Requests : BeginRequest(r) \/ Step(r)) \/ Crash

Spec == Init /\ [][Next]_vars

----------------------------------------------------------------------------
(* What the handlers promise, however they interleave. *)

\* One source of the installation is the default at most (resetDefaultSource
\* runs in the transaction that stores a default): front ends that ask for
\* "the" default get one answer.
AtMostOneDefault == \A s, t \in DefaultSources : s = t

\* Deleting the default source makes another one the default, if one is left
\* ("avoid selecting the source we're about to delete", kv/sources.go:212).
RemovalKeepsDefault ==
    [][\A s \in DefaultSources :
         sources'[s] = Absent /\ StoredSources' # {} => DefaultSources' # {}]_vars

\* A stored server is changed and deleted by sessions of its organization
\* only, although neither Delete of the facade nor the loops look at it again.
OrgIsolation ==
    [][\A i \in StoredServers : servers'[i] # servers[i] =>
         \E r \in Requests : req[r].org = servers[i].org /\ req'[r] # req[r]]_vars

----------------------------------------------------------------------------
(* While handlers have run one at a time, to the end. *)

Undisturbed == ~disturbed /\ \A r \in Requests : At(r, "idle")

\* "make sure that there is at most one active kapacitor"
\* (server/kapacitors.go:117), services counted as well.
OneActive == \A o \in Orgs : \A i, j \in ActiveServersOf(o) : i = j
OneActiveAlone == Undisturbed => OneActive

\* A removed source takes its kapacitors and services along (removeSrcsKapa).
NoOrphanAlone ==
    Undisturbed => \A i \in StoredServers :
                     SourceFound(servers[i].src, servers[i].org)

==============================================================================
