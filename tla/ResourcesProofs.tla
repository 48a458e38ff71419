--------------------------- MODULE ResourcesProofs ---------------------------
(****************************************************************************)
(* Proofs for every number of handlers, organizations, sources and servers, *)
(* every set of operations and every interleaving, crashes included.        *)
(****************************************************************************)
EXTENDS Resources, TLAPS, Induction

\* Where a handler carries a record it is going to store ...
Building == {"nk.src", "nk.add", "upd.get", "upd.put", "reset.all", "reset.put"}

\* ... and where it has not looked at the id it was given yet.
Looking == {"uk.get", "rk.get"}

\* What the locals l of a handler keep, srv being the servers bucket and seq
\* its sequence: the servers a handler is going to touch belong to its own
\* organization, or are gone.
Scoped(l, srv, seq) ==
    l.pc # "idle" =>
      /\ l.org \in Orgs
      /\ \A i \in l.left \cup {l.sid} : i <= seq
      /\ l.pc \in Building => l.rec \in Server /\ l.rec.org = l.org
      /\ l.pc \notin Looking =>
           \A i \in l.left \cup {l.sid} :
             i \in ServerIds /\ srv[i] # Absent => srv[i].org = l.org
      /\ l.pc \in Looking => l.left = {}

\* Ids come from the sequence.
SeqOK == \A i \in StoredServers : i <= serverSeq

\* The inductive invariant.  OrgIsolation alone says nothing of what a handler
\* remembers from an earlier transaction.
IInv ==
    /\ TypeOK
    /\ AtMostOneDefault
    /\ SeqOK
    /\ \A r \in Requests : Scoped(req[r], servers, serverSeq)

\* A step keeps a server's organization, deletes it, or hands out a new id.
ServersKept ==
    /\ servers' \in [ServerIds -> Server \cup {Absent}]
    /\ serverSeq' \in 0 .. MaxServers /\ serverSeq <= serverSeq'
    /\ \A i \in ServerIds : servers'[i] # Absent =>
         \/ serverSeq < i /\ i <= serverSeq'
         \/ servers[i] # Absent /\ servers'[i].org = servers[i].org

SourcesKept ==
    /\ sources' \in [SourceIds -> Source \cup {Absent}]
    /\ sourceSeq' \in 0 .. MaxSources
    /\ AtMostOneDefault'

\* The servers a step of handler r changes are those of its organization.
OwnServers(r) ==
    \A i \in ServerIds : servers[i] # Absent /\ servers'[i] # servers[i] =>
        req[r].org = servers[i].org /\ req'[r] # req[r]

\* All a step of handler r does.
Effect(r) ==
    /\ SourcesKept /\ ServersKept /\ OwnServers(r)
    /\ \E l \in Local : /\ req' = [req EXCEPT ![r] = l]
                        /\ Scoped(l, servers', serverSeq')
    /\ disturbed' \in BOOLEAN

----------------------------------------------------------------------------
(* The locals. *)

LEMMA LabelFacts ==
  /\ "idle" \in Labels /\ "ns.all" \in Labels /\ "ns.add" \in Labels
  /\ "us.get" \in Labels /\ "us.put" \in Labels /\ "rs.get" \in Labels
  /\ "rs.del" \in Labels /\ "rs.list" \in Labels /\ "rs.kget" \in Labels
  /\ "rs.kdel" \in Labels /\ "nk.src" \in Labels /\ "nk.add" \in Labels
  /\ "uk.get" \in Labels /\ "upd.get" \in Labels /\ "upd.put" \in Labels
  /\ "reset.all" \in Labels /\ "reset.put" \in Labels
  /\ "deact.all" \in Labels /\ "deact.put" \in Labels /\ "rk.get" \in Labels
  /\ "rk.kget" \in Labels /\ "rk.del" \in Labels
  /\ "none" \in Operations /\ "NewSource" \in Operations
  /\ "UpdateSource" \in Operations /\ "RemoveSource" \in Operations
  /\ "NewServer" \in Operations /\ "UpdateServer" \in Operations
  /\ "RemoveServer" \in Operations
  BY DEF Labels, Operations

LEMMA IdleFacts ==
  /\ Idle \in Local /\ Idle.pc = "idle" /\ Idle.left = {} /\ Idle.sid = 0
  /\ \A srv, seq : Scoped(Idle, srv, seq)
  <1>1. Idle \in Local
    BY LabelFacts DEF Idle, Local
  <1>2. Idle.pc = "idle" /\ Idle.left = {} /\ Idle.sid = 0
    BY DEF Idle
  <1> QED BY <1>1, <1>2 DEF Scoped

LEMMA IdFacts == \A i \in ServerIds : i \in Nat /\ i > 0
  BY ResourcesAssumption DEF ServerIds

\* Two ways a step changes the locals.
LEMMA GotoFacts ==
  ASSUME NEW l \in Local, NEW p \in Labels
  PROVE  LET n == [l EXCEPT !.pc = p]
         IN  /\ n \in Local /\ n.pc = p /\ n.org = l.org /\ n.sid = l.sid
             /\ n.left = l.left /\ n.rec = l.rec
  BY DEF Local

LEMMA VisitFacts ==
  ASSUME NEW l \in Local, NEW i \in ServerIds
  PROVE  LET n == [l EXCEPT !.left = @ \ {i}]
         IN  /\ n \in Local /\ n.pc = l.pc /\ n.org = l.org /\ n.sid = l.sid
             /\ n.left = l.left \ {i} /\ n.rec = l.rec
  BY DEF Local

\* What the other handlers remember survives any step.
LEMMA ScopedStable ==
  ASSUME TypeOK, ServersKept, NEW l \in Local, Scoped(l, servers, serverSeq)
  PROVE  Scoped(l, servers', serverSeq')
  <1>1. l.left \subseteq ServerIds /\ l.sid \in ServerIds \cup {0}
    BY DEF Local
  <1>2. serverSeq \in Nat /\ serverSeq' \in Nat /\ serverSeq <= serverSeq'
    BY ResourcesAssumption DEF ServersKept, TypeOK
  <1>3. \A i \in l.left \cup {l.sid} : i \in Nat
    BY <1>1, IdFacts
  <1> QED BY <1>1, <1>2, <1>3 DEF Scoped, ServersKept

\* A handler that changes its locals without widening what it touches.
LEMMA ScopedMove ==
  ASSUME NEW l \in Local, NEW n \in Local, NEW srv, NEW seq,
         Scoped(l, srv, seq), l.pc # "idle", n.org = l.org,
         n.sid = l.sid, n.left \subseteq l.left, n.rec = l.rec,
         n.pc \in Building => l.pc \in Building,
         n.pc \notin Looking, l.pc \notin Looking
  PROVE  Scoped(n, srv, seq)
  BY DEF Scoped

----------------------------------------------------------------------------
(* Steps that leave the servers alone. *)

LEMMA SourceEffect ==
  ASSUME IInv, NEW r \in Requests, UNCHANGED serverVars, SourcesKept,
         NEW n \in Local, req' = [req EXCEPT ![r] = n],
         Scoped(n, servers, serverSeq), disturbed' \in BOOLEAN
  PROVE  Effect(r)
  <1>1. servers' = servers /\ serverSeq' = serverSeq
    BY DEF serverVars
  <1>2. serverSeq \in Nat
    BY ResourcesAssumption DEF IInv, TypeOK
  <1>3. ServersKept
    BY <1>1, <1>2 DEF ServersKept, IInv, TypeOK
  <1>4. OwnServers(r)
    BY <1>1 DEF OwnServers
  <1> QED BY <1>1, <1>3, <1>4 DEF Effect

LEMMA ReadEffect ==
  ASSUME IInv, NEW r \in Requests, Reads,
         NEW n \in Local, req' = [req EXCEPT ![r] = n],
         Scoped(n, servers, serverSeq), disturbed' \in BOOLEAN
  PROVE  Effect(r)
  <1>1. UNCHANGED serverVars /\ sources' = sources /\ sourceSeq' = sourceSeq
    BY DEF Reads, sourceVars
  <1>2. SourcesKept
    BY <1>1 DEF SourcesKept, IInv, TypeOK, AtMostOneDefault, DefaultSources,
                StoredSources
  <1> QED BY <1>1, <1>2, SourceEffect

LEMMA GoEffect ==
  ASSUME IInv, NEW r \in Requests, Reads, NEW n \in Local, Go(r, n),
         Scoped(n, servers, serverSeq)
  PROVE  Effect(r)
  <1>1. req' = [req EXCEPT ![r] = n] /\ disturbed' \in BOOLEAN
    BY DEF Go, IInv, TypeOK
  <1> QED BY <1>1, ReadEffect

LEMMA FinishEffect ==
  ASSUME IInv, NEW r \in Requests, Reads, Finish(r)
  PROVE  Effect(r)
  BY IdleFacts, GoEffect DEF Finish

\* Going on to another label without having to know more than before.
LEMMA GotoEffect ==
  ASSUME IInv, NEW r \in Requests, Reads, NEW p \in Labels, Goto(r, p),
         ~At(r, "idle"),
         p \in Building => req[r].pc \in Building,
         p \notin Looking, req[r].pc \notin Looking
  PROVE  Effect(r)
  <1> DEFINE l == req[r]
             n == [l EXCEPT !.pc = p]
  <1>1. l \in Local /\ Scoped(l, servers, serverSeq)
    BY DEF IInv, TypeOK
  <1>2. /\ n \in Local /\ n.pc = p /\ n.org = l.org /\ n.sid = l.sid
        /\ n.left = l.left /\ n.rec = l.rec
    BY <1>1, GotoFacts
  <1>3. l.pc # "idle"
    BY DEF At
  <1>4. Go(r, n)
    BY DEF Goto
  <1> HIDE DEF l, n
  <1>5. n.pc \in Building => l.pc \in Building
    BY <1>2 DEF l
  <1>6. n.pc \notin Looking /\ l.pc \notin Looking
    BY <1>2 DEF l
  <1>7. Scoped(n, servers, serverSeq)
    BY <1>1, <1>2, <1>3, <1>5, <1>6, ScopedMove
  <1> QED BY <1>2, <1>4, <1>7, GoEffect

LEMMA BeginEffect ==
  ASSUME IInv, NEW r \in Requests, BeginRequest(r)
  PROVE  Effect(r)
  <1> USE IdleFacts, LabelFacts, IdFacts
  <1>1. \A s \in SeenSources : s \in SourceIds
    BY DEF SeenSources
  <1>2. \A i \in SeenServers : i \in ServerIds /\ i <= serverSeq
    BY DEF SeenServers
  <1>3. serverSeq \in Nat
    BY ResourcesAssumption DEF IInv, TypeOK
  <1>4. ASSUME NEW l \in Local, Begin(r, l), Scoped(l, servers, serverSeq)
        PROVE  Effect(r)
    <2>1. disturbed' \in BOOLEAN
      <3>1. disturbed \in BOOLEAN
        BY DEF IInv, TypeOK
      <3> QED BY <1>4, <3>1 DEF Begin
    <2> QED BY <1>4, <2>1, ReadEffect DEF Begin
  <1>5. CASE BeginNewSource(r)
    <2>1. PICK o \in Orgs, d \in BOOLEAN :
            Begin(r, [Idle EXCEPT !.org = o, !.op = "NewSource",
                        !.pc = "ns.all", !.default = d])
      BY <1>5 DEF BeginNewSource
    <2> DEFINE l == [Idle EXCEPT !.org = o, !.op = "NewSource",
                       !.pc = "ns.all", !.default = d]
    <2>2. l \in Local /\ l.org = o /\ l.pc = "ns.all" /\ l.left = {} /\ l.sid = 0
      BY DEF Local
    <2>3. Scoped(l, servers, serverSeq)
      BY <1>3, <2>2 DEF Scoped, Building
    <2> QED BY <1>4, <2>1, <2>2, <2>3
  <1>6. CASE BeginUpdateSource(r)
    <2>1. PICK o \in Orgs, s \in SeenSources, d \in BOOLEAN :
            Begin(r, [Idle EXCEPT !.org = o, !.op = "UpdateSource",
                        !.pc = "us.get", !.src = s, !.default = d])
      BY <1>6 DEF BeginUpdateSource
    <2> DEFINE l == [Idle EXCEPT !.org = o, !.op = "UpdateSource",
                       !.pc = "us.get", !.src = s, !.default = d]
    <2>2. l \in Local /\ l.org = o /\ l.pc = "us.get" /\ l.left = {} /\ l.sid = 0
      BY <1>1 DEF Local
    <2>3. Scoped(l, servers, serverSeq)
      BY <1>3, <2>2 DEF Scoped, Building
    <2> QED BY <1>4, <2>1, <2>2, <2>3
  <1>7. CASE BeginRemoveSource(r)
    <2>1. PICK o \in Orgs, s \in SeenSources :
            Begin(r, [Idle EXCEPT !.org = o, !.op = "RemoveSource",
                        !.pc = "rs.get", !.src = s])
      BY <1>7 DEF BeginRemoveSource
    <2> DEFINE l == [Idle EXCEPT !.org = o, !.op = "RemoveSource",
                       !.pc = "rs.get", !.src = s]
    <2>2. l \in Local /\ l.org = o /\ l.pc = "rs.get" /\ l.left = {} /\ l.sid = 0
      BY <1>1 DEF Local
    <2>3. Scoped(l, servers, serverSeq)
      BY <1>3, <2>2 DEF Scoped, Building
    <2> QED BY <1>4, <2>1, <2>2, <2>3
  <1>8. CASE BeginNewServer(r)
    <2>1. PICK o \in Orgs, s \in SeenSources, k \in BOOLEAN :
            Begin(r, [Idle EXCEPT !.org = o, !.op = "NewServer",
                        !.pc = "nk.src", !.src = s, !.activate = k,
                        !.rec = [org |-> o, src |-> s, kapacitor |-> k,
                                 active |-> TRUE]])
      BY <1>8 DEF BeginNewServer
    <2> DEFINE rec == [org |-> o, src |-> s, kapacitor |-> k, active |-> TRUE]
               l == [Idle EXCEPT !.org = o, !.op = "NewServer",
                       !.pc = "nk.src", !.src = s, !.activate = k, !.rec = rec]
    <2>2. rec \in Server /\ rec.org = o
      BY <1>1 DEF Server
    <2> HIDE DEF rec
    <2>3. /\ l \in Local /\ l.org = o /\ l.pc = "nk.src" /\ l.left = {}
          /\ l.sid = 0 /\ l.rec = rec
      BY <1>1, <2>2 DEF Local
    <2>4. Scoped(l, servers, serverSeq)
      BY <1>3, <2>2, <2>3 DEF Scoped
    <2>5. Begin(r, l)
      BY <2>1 DEF rec
    <2> QED BY <1>4, <2>3, <2>4, <2>5
  <1>9. CASE BeginUpdateServer(r)
    <2>1. PICK o \in Orgs, i \in SeenServers :
            Begin(r, [Idle EXCEPT !.org = o, !.op = "UpdateServer",
                        !.pc = "uk.get", !.sid = i])
      BY <1>9 DEF BeginUpdateServer
    <2> DEFINE l == [Idle EXCEPT !.org = o, !.op = "UpdateServer",
                       !.pc = "uk.get", !.sid = i]
    <2>2. l \in Local /\ l.org = o /\ l.pc = "uk.get" /\ l.left = {} /\ l.sid = i
      BY <1>2 DEF Local
    <2>3. Scoped(l, servers, serverSeq)
      BY <1>2, <2>2 DEF Scoped, Building, Looking
    <2> QED BY <1>4, <2>1, <2>2, <2>3
  <1>10. CASE BeginRemoveServer(r)
    <2>1. PICK o \in Orgs, i \in SeenServers :
            Begin(r, [Idle EXCEPT !.org = o, !.op = "RemoveServer",
                        !.pc = "rk.get", !.sid = i])
      BY <1>10 DEF BeginRemoveServer
    <2> DEFINE l == [Idle EXCEPT !.org = o, !.op = "RemoveServer",
                       !.pc = "rk.get", !.sid = i]
    <2>2. l \in Local /\ l.org = o /\ l.pc = "rk.get" /\ l.left = {} /\ l.sid = i
      BY <1>2 DEF Local
    <2>3. Scoped(l, servers, serverSeq)
      BY <1>2, <2>2 DEF Scoped, Building, Looking
    <2> QED BY <1>4, <2>1, <2>2, <2>3
  <1> QED BY <1>5, <1>6, <1>7, <1>8, <1>9, <1>10 DEF BeginRequest

----------------------------------------------------------------------------
(* Steps that change the servers. *)

\* A step that stores rec, nothing or another server of the handler's own
\* organization at id i.
LEMMA ServerEffect ==
  ASSUME IInv, NEW r \in Requests, UNCHANGED <<sourceVars, serverSeq>>,
         NEW i \in ServerIds, NEW rec \in Server \cup {Absent},
         servers' = [servers EXCEPT ![i] = rec],
         servers[i] # Absent => servers[i].org = req[r].org,
         rec # Absent => servers[i] # Absent /\ rec.org = req[r].org,
         NEW n \in Local, Go(r, n), n # req[r],
         Scoped(n, servers, serverSeq)
  PROVE  Effect(r)
  <1>1. /\ servers \in [ServerIds -> Server \cup {Absent}]
        /\ serverSeq \in 0 .. MaxServers /\ serverSeq \in Nat
    BY ResourcesAssumption DEF IInv, TypeOK
  <1>2. ServersKept
    BY <1>1 DEF ServersKept
  <1>3. req' = [req EXCEPT ![r] = n] /\ req'[r] # req[r]
        /\ disturbed' \in BOOLEAN
    BY DEF Go, IInv, TypeOK
  <1>4. OwnServers(r)
    BY <1>1, <1>3 DEF OwnServers
  <1>5. SourcesKept
    BY DEF SourcesKept, sourceVars, IInv, TypeOK, AtMostOneDefault,
           DefaultSources, StoredSources
  <1>6. Scoped(n, servers', serverSeq')
    BY <1>2, ScopedStable DEF IInv
  <1> QED BY <1>2, <1>3, <1>4, <1>5, <1>6 DEF Effect

\* Delete of kv, of the server the handler has looked at.
LEMMA DeleteEffect ==
  ASSUME IInv, NEW r \in Requests, NEW n \in Local,
         ~At(r, "idle"), req[r].pc \notin Looking,
         DeleteServer(r, Go(r, n)), n # req[r], Scoped(n, servers, serverSeq)
  PROVE  Effect(r)
  <1> DEFINE i == req[r].sid
  <1>1. Scoped(req[r], servers, serverSeq) /\ i \in ServerIds \cup {0}
    BY DEF IInv, TypeOK, Local
  <1>2. /\ servers' = [servers EXCEPT ![i] = Absent] /\ Go(r, n)
        /\ UNCHANGED <<sourceVars, serverSeq>>
    BY DEF DeleteServer
  <1>3. CASE i \in ServerIds
    <2>1. servers[i] # Absent => servers[i].org = req[r].org
      BY <1>1, <1>3 DEF Scoped, At
    <2> QED BY <1>2, <1>3, <2>1, ServerEffect
  <1>4. CASE i \notin ServerIds
    <2>1. servers' = servers
      BY <1>2, <1>4 DEF IInv, TypeOK
    <2> QED BY <1>2, <2>1, GoEffect DEF Reads, sourceVars, serverVars
  <1> QED BY <1>3, <1>4

\* Deactivation of a server a loop has listed.
LEMMA DeactivateEffect ==
  ASSUME IInv, NEW r \in Requests, UNCHANGED <<sourceVars, serverSeq>>,
         ~At(r, "idle"), req[r].pc \notin Looking,
         NEW i \in First(req[r].left), i \in StoredServers, Deactivate(i),
         Go(r, [req[r] EXCEPT !.left = @ \ {i}])
  PROVE  Effect(r)
  <1> DEFINE l == req[r]
             n == [l EXCEPT !.left = @ \ {i}]
             rec == [servers[i] EXCEPT !.active = FALSE]
  <1>1. l \in Local /\ Scoped(l, servers, serverSeq) /\ l.pc # "idle"
    BY DEF IInv, TypeOK, At
  <1>2. i \in l.left /\ i \in ServerIds /\ servers[i] \in Server /\ servers[i] # Absent
    BY DEF First, StoredServers, IInv, TypeOK
  <1>3. servers[i].org = l.org
    BY <1>1, <1>2 DEF Scoped
  <1>4. rec \in Server /\ rec.org = l.org
    BY <1>2, <1>3 DEF Server
  <1>5. servers' = [servers EXCEPT ![i] = rec]
    BY DEF Deactivate
  <1>6. /\ n \in Local /\ n.pc = l.pc /\ n.org = l.org /\ n.sid = l.sid
        /\ n.left = l.left \ {i} /\ n.rec = l.rec
    BY <1>1, <1>2, VisitFacts
  <1>7. Go(r, n)
    OBVIOUS
  <1> HIDE DEF rec, n
  <1>8. Scoped(n, servers, serverSeq) /\ n # l
    BY <1>1, <1>2, <1>6, ScopedMove
  <1> QED BY <1>2, <1>3, <1>4, <1>5, <1>6, <1>7, <1>8, ServerEffect

----------------------------------------------------------------------------
(* Steps over the sources. *)

SourceMap == [SourceIds -> Source \cup {Absent}]

IsDefault(srcs, s) == srcs[s] # Absent /\ srcs[s].default
OneDefaultIn(srcs) ==
    \A s, t \in SourceIds : IsDefault(srcs, s) /\ IsDefault(srcs, t) => s = t

LEMMA DefaultFacts ==
  /\ AtMostOneDefault <=> OneDefaultIn(sources)
  /\ AtMostOneDefault' <=> OneDefaultIn(sources')
  BY DEF AtMostOneDefault, OneDefaultIn, IsDefault, DefaultSources,
         StoredSources

\* Storing a record resets the others if it is the default one, and cannot
\* make a second default if it is not.
LEMMA PutSourceFacts ==
  ASSUME NEW srcs \in SourceMap, OneDefaultIn(srcs),
         NEW s \in SourceIds, NEW rec \in Source
  PROVE  PutSource(srcs, s, rec) \in SourceMap /\ OneDefaultIn(PutSource(srcs, s, rec))
  <1> DEFINE reset == ResetDefault(srcs, rec.default)
             put == PutSource(srcs, s, rec)
  <1>1. rec.default \in BOOLEAN /\ rec # Absent
    BY ResourcesAssumption DEF Source
  <1>2. reset \in SourceMap
    <2>1. ASSUME NEW x \in SourceIds, srcs[x] # Absent
          PROVE  [srcs[x] EXCEPT !.default = FALSE] \in Source
      <3>1. srcs[x] \in Source
        BY <2>1 DEF SourceMap
      <3> QED BY <3>1 DEF Source
    <2> QED BY <1>1, <2>1 DEF ResetDefault, SourceMap
  <1>3. \A x \in SourceIds : IsDefault(reset, x) =>
          ~rec.default /\ IsDefault(srcs, x)
    <2>1. ASSUME NEW x \in SourceIds, IsDefault(reset, x)
          PROVE  ~rec.default /\ IsDefault(srcs, x)
      <3>1. CASE rec.default
        <4>1. CASE srcs[x] = Absent
          BY <2>1, <3>1, <4>1 DEF IsDefault, ResetDefault
        <4>2. CASE srcs[x] # Absent
          <5>1. srcs[x] \in Source
            BY <4>2 DEF SourceMap
          <5>2. reset[x] = [srcs[x] EXCEPT !.default = FALSE]
            BY <3>1, <4>2 DEF ResetDefault
          <5>3. ~reset[x].default
            BY <5>1, <5>2 DEF Source
          <5> QED BY <2>1, <5>3 DEF IsDefault
        <4> QED BY <4>1, <4>2
      <3>2. CASE ~rec.default
        BY <2>1, <3>2 DEF IsDefault, ResetDefault
      <3> QED BY <1>1, <3>1, <3>2
    <2> QED BY <2>1
  <1>4. put = [reset EXCEPT ![s] = rec]
    BY DEF PutSource
  <1> HIDE DEF reset, put
  <1>5. put \in SourceMap
    BY <1>2, <1>4 DEF SourceMap
  <1>6. \A x \in SourceIds : put[x] = IF x = s THEN rec ELSE reset[x]
    BY <1>2, <1>4 DEF SourceMap
  <1>7. OneDefaultIn(put)
    <2>1. ASSUME NEW x \in SourceIds, NEW y \in SourceIds,
                 IsDefault(put, x), IsDefault(put, y)
          PROVE  x = y
      <3>1. CASE rec.default
        BY <1>3, <1>6, <2>1, <3>1 DEF IsDefault
      <3>2. CASE ~rec.default
        <4>1. x # s /\ y # s
          BY <1>6, <2>1, <3>2 DEF IsDefault
        <4>2. IsDefault(srcs, x) /\ IsDefault(srcs, y)
          BY <1>3, <1>6, <2>1, <4>1 DEF IsDefault
        <4> QED BY <4>2 DEF OneDefaultIn
      <3> QED BY <1>1, <3>1, <3>2
    <2> QED BY <2>1 DEF OneDefaultIn
  <1> QED BY <1>5, <1>7 DEF put

\* The first of a set of sources is one source.
LEMMA FirstFacts ==
  ASSUME NEW S \in SUBSET SourceIds
  PROVE  \A s, t \in First(S) : s = t
  <1>1. \A s \in S : s \in Nat
    BY ResourcesAssumption DEF SourceIds
  <1> QED BY <1>1 DEF First

LEMMA RandomDefaultFacts ==
  ASSUME NEW srcs \in SourceMap, OneDefaultIn(srcs), srcs = sources,
         NEW s \in SourceIds
  PROVE  LET n == [SetRandomDefault(srcs, s) EXCEPT ![s] = Absent]
         IN  n \in SourceMap /\ OneDefaultIn(n)
  <1> DEFINE d == SetRandomDefault(srcs, s)
             n == [d EXCEPT ![s] = Absent]
             S == First(StoredSources \ {s})
  <1>1. \A x, y \in S : x = y
    BY FirstFacts DEF StoredSources
  <1> HIDE DEF S
  <1>2. ASSUME NEW x \in SourceIds
        PROVE  /\ DefaultTo(srcs, S)[x] \in Source \cup {Absent}
               /\ IsDefault(DefaultTo(srcs, S), x) => x \in S
    <2>1. CASE srcs[x] = Absent
      BY <2>1 DEF DefaultTo, IsDefault
    <2>2. CASE srcs[x] # Absent
      <3>1. srcs[x] \in Source
        BY <2>2 DEF SourceMap
      <3>2. DefaultTo(srcs, S)[x] = [srcs[x] EXCEPT !.default = (x \in S)]
        BY <2>2 DEF DefaultTo
      <3> DEFINE b == x \in S
      <3>3. b \in BOOLEAN
        OBVIOUS
      <3> HIDE DEF b
      <3>4. [srcs[x] EXCEPT !.default = b] \in Source
            /\ [srcs[x] EXCEPT !.default = b].default = b
        BY <3>1, <3>3 DEF Source
      <3> QED BY <3>2, <3>4 DEF IsDefault, b
    <2> QED BY <2>1, <2>2
  <1>3. DefaultTo(srcs, S) \in SourceMap /\ OneDefaultIn(DefaultTo(srcs, S))
    <2>1. DefaultTo(srcs, S) \in SourceMap
      BY <1>2 DEF DefaultTo, SourceMap
    <2> QED BY <1>1, <1>2, <2>1 DEF OneDefaultIn
  <1>4. d \in SourceMap /\ OneDefaultIn(d)
    BY <1>3 DEF SetRandomDefault, S
  <1> HIDE DEF d
  <1>5. n \in SourceMap /\ \A x \in SourceIds : IsDefault(n, x) => IsDefault(d, x)
    BY <1>4 DEF SourceMap, IsDefault
  <1> QED BY <1>4, <1>5 DEF OneDefaultIn, d

LEMMA SourcesEffect ==
  ASSUME IInv, NEW r \in Requests, SourcesStep(r)
  PROVE  Effect(r)
  <1> DEFINE l == req[r]
  <1> USE LabelFacts, IdleFacts
  <1>1. l \in Local /\ Scoped(l, servers, serverSeq) /\ disturbed \in BOOLEAN
    BY DEF IInv, TypeOK
  <1>2. /\ sources \in SourceMap /\ OneDefaultIn(sources)
        /\ sourceSeq \in Nat /\ sourceSeq \in 0 .. MaxSources
    BY DefaultFacts, ResourcesAssumption DEF IInv, TypeOK, SourceMap
  <1>3. serverSeq \in Nat
    BY ResourcesAssumption DEF IInv, TypeOK
  <1>4. CASE NewSourceAll(r)
    <2> DEFINE n == [l EXCEPT !.pc = "ns.add",
                              !.default = @ \/ StoredSources = {}]
    <2>1. At(r, "ns.all") /\ Go(r, n) /\ Reads
      BY <1>4 DEF NewSourceAll
    <2>2. /\ n \in Local /\ n.pc = "ns.add" /\ n.org = l.org /\ n.sid = l.sid
          /\ n.left = l.left /\ n.rec = l.rec
      BY ZenonT(60), <1>1 DEF Local
    <2> HIDE DEF n
    <2>3. Scoped(n, servers, serverSeq)
      BY <1>1, <2>1, <2>2, ScopedMove DEF At, Building, Looking
    <2> QED BY <2>1, <2>2, <2>3, GoEffect
  <1>5. CASE NewSourceAdd(r)
    <2> DEFINE rec == [org |-> l.org, default |-> l.default]
               id == sourceSeq + 1
    <2>1. At(r, "ns.add") /\ Finish(r) /\ UNCHANGED serverVars
      BY <1>5 DEF NewSourceAdd
    <2>2. l.org \in Orgs
      BY <1>1, <2>1 DEF Scoped, At
    <2>3. rec \in Source
      BY <1>1, <2>2 DEF Local, Source
    <2> HIDE DEF rec
    <2>4. SourcesKept
      <3>1. CASE /\ sourceSeq < MaxSources /\ sourceSeq' = id
                 /\ sources' = PutSource(sources, id, rec)
        <4>1. id \in SourceIds /\ sourceSeq' \in 0 .. MaxSources
          BY <1>2, <3>1, ResourcesAssumption DEF SourceIds
        <4> QED BY <1>2, <2>3, <3>1, <4>1, PutSourceFacts, DefaultFacts
                DEF SourcesKept, SourceMap
      <3>2. CASE UNCHANGED sourceVars
        BY <1>2, <3>2, DefaultFacts DEF SourcesKept, SourceMap, sourceVars
      <3> QED BY <1>5, <3>1, <3>2 DEF NewSourceAdd, rec
    <2> QED BY <1>1, <2>1, <2>4, SourceEffect DEF Finish, Go
  <1>6. CASE UpdateSourceGet(r)
    <2>1. At(r, "us.get") /\ Reads /\ (Goto(r, "us.put") \/ Finish(r))
      BY <1>6 DEF UpdateSourceGet
    <2> QED BY <2>1, GotoEffect, FinishEffect DEF At, Building, Looking
  <1>7. CASE UpdateSourcePut(r)
    <2> DEFINE rec == [org |-> l.org, default |-> l.default]
    <2>1. /\ At(r, "us.put") /\ Finish(r)
          /\ sourceSeq' = sourceSeq /\ UNCHANGED serverVars
      BY <1>7 DEF UpdateSourcePut
    <2>2. l.org \in Orgs
      BY <1>1, <2>1 DEF Scoped, At
    <2>3. rec \in Source
      BY <1>1, <2>2 DEF Local, Source
    <2> HIDE DEF rec
    <2>4. SourcesKept
      <3>1. CASE /\ l.src \in StoredSources
                 /\ sources' = PutSource(sources, l.src, rec)
        <4>1. l.src \in SourceIds
          BY <3>1 DEF StoredSources
        <4> QED BY <1>2, <2>1, <2>3, <3>1, <4>1, PutSourceFacts, DefaultFacts
                DEF SourcesKept, SourceMap
      <3>2. CASE UNCHANGED sources
        BY <1>2, <2>1, <3>2, DefaultFacts DEF SourcesKept, SourceMap
      <3> QED BY <1>7, <3>1, <3>2 DEF UpdateSourcePut, rec
    <2> QED BY <1>1, <2>1, <2>4, SourceEffect DEF Finish, Go
  <1>8. CASE RemoveSourceGet(r)
    <2>1. At(r, "rs.get") /\ Reads /\ (Goto(r, "rs.del") \/ Finish(r))
      BY <1>8 DEF RemoveSourceGet
    <2> QED BY <2>1, GotoEffect, FinishEffect DEF At, Building, Looking
  <1>9. CASE RemoveSourceDelete(r)
    <2>1. At(r, "rs.del") /\ sourceSeq' = sourceSeq /\ UNCHANGED serverVars
      BY <1>9 DEF RemoveSourceDelete
    <2>2. SourcesKept
      <3>1. CASE /\ l.src \in StoredSources
                 /\ sources' = [SetRandomDefault(sources, l.src)
                                  EXCEPT ![l.src] = Absent]
        <4>1. l.src \in SourceIds
          BY <3>1 DEF StoredSources
        <4> QED BY <1>2, <2>1, <3>1, <4>1, RandomDefaultFacts, DefaultFacts
                DEF SourcesKept, SourceMap
      <3>2. CASE UNCHANGED sources
        BY <1>2, <2>1, <3>2, DefaultFacts DEF SourcesKept, SourceMap
      <3> QED BY <1>9, <3>1, <3>2 DEF RemoveSourceDelete
    <2>3. CASE Goto(r, "rs.list")
      <3> DEFINE n == [l EXCEPT !.pc = "rs.list"]
      <3>1. /\ n \in Local /\ n.pc = "rs.list" /\ n.org = l.org
            /\ n.sid = l.sid /\ n.left = l.left /\ n.rec = l.rec
        BY <1>1, GotoFacts
      <3>2. req' = [req EXCEPT ![r] = n] /\ disturbed' \in BOOLEAN
        BY <1>1, <2>3 DEF Goto, Go
      <3> HIDE DEF n
      <3>3. Scoped(n, servers, serverSeq)
        BY <1>1, <2>1, <3>1, ScopedMove DEF At, Building, Looking
      <3> QED BY <2>1, <2>2, <3>1, <3>2, <3>3, SourceEffect
    <2>4. CASE Finish(r)
      BY <1>1, <2>1, <2>2, <2>4, SourceEffect DEF Finish, Go
    <2> QED BY <1>9, <2>3, <2>4 DEF RemoveSourceDelete
  <1>10. CASE RemoveSourceList(r)
    <2> DEFINE S == {i \in ServersOf(l.org) : servers[i].src = l.src}
               n == [l EXCEPT !.pc = "rs.kget", !.left = S]
    <2>1. At(r, "rs.list") /\ Go(r, n) /\ Reads
      BY <1>10 DEF RemoveSourceList
    <2>2. S \in SUBSET ServerIds
      BY DEF ServersOf, StoredServers
    <2>3. \A i \in S : servers[i].org = l.org /\ i <= serverSeq
      BY DEF ServersOf, IInv, SeqOK
    <2> HIDE DEF S
    <2>4. /\ n \in Local /\ n.pc = "rs.kget" /\ n.org = l.org /\ n.sid = l.sid
          /\ n.left = S /\ n.rec = l.rec
      BY <1>1, <2>2 DEF Local
    <2> HIDE DEF n
    <2>5. Scoped(n, servers, serverSeq)
      BY <1>1, <2>1, <2>3, <2>4 DEF At, Scoped, Building, Looking
    <2> QED BY <2>1, <2>4, <2>5, GoEffect
  <1>11. CASE RemoveSourceServerGet(r)
    <2>1. At(r, "rs.kget") /\ Reads
      BY <1>11 DEF RemoveSourceServerGet
    <2>2. ASSUME NEW i \in First(l.left) \cap StoredServers,
                 Go(r, [l EXCEPT !.pc = "rs.kdel", !.sid = i, !.left = @ \ {i}])
          PROVE  Effect(r)
      <3> DEFINE n == [l EXCEPT !.pc = "rs.kdel", !.sid = i, !.left = @ \ {i}]
      <3>1. i \in l.left /\ i \in ServerIds
        BY DEF First, StoredServers
      <3>2. /\ n \in Local /\ n.pc = "rs.kdel" /\ n.org = l.org /\ n.sid = i
            /\ n.left = l.left \ {i} /\ n.rec = l.rec
        BY <1>1, <3>1 DEF Local
      <3>3. Go(r, n)
        BY <2>2
      <3> HIDE DEF n
      <3>4. Scoped(n, servers, serverSeq)
        BY <1>1, <2>1, <3>1, <3>2 DEF At, Scoped, Building, Looking
      <3> QED BY <2>1, <3>2, <3>3, <3>4, GoEffect
    <2> QED BY <1>11, <2>1, <2>2, FinishEffect DEF RemoveSourceServerGet
  <1>12. CASE RemoveSourceServerDelete(r)
    <2> DEFINE n == [l EXCEPT !.pc = "rs.kget"]
    <2>1. At(r, "rs.kdel") /\ DeleteServer(r, Go(r, n))
      BY <1>12 DEF RemoveSourceServerDelete, Goto
    <2>2. /\ n \in Local /\ n.pc = "rs.kget" /\ n.org = l.org
          /\ n.sid = l.sid /\ n.left = l.left /\ n.rec = l.rec
      BY <1>1, GotoFacts
    <2> HIDE DEF n
    <2>3. Scoped(n, servers, serverSeq) /\ n # l
      BY <1>1, <2>1, <2>2, ScopedMove DEF At, Building, Looking
    <2> QED BY <2>1, <2>2, <2>3, DeleteEffect DEF At, Looking
  <1> QED BY <1>4, <1>5, <1>6, <1>7, <1>8, <1>9, <1>10, <1>11, <1>12
          DEF SourcesStep

----------------------------------------------------------------------------
(* Steps over the servers. *)

LEMMA ServersEffect ==
  ASSUME IInv, NEW r \in Requests, ServersStep(r)
  PROVE  Effect(r)
  <1> DEFINE l == req[r]
  <1> USE LabelFacts, IdleFacts
  <1>1. l \in Local /\ Scoped(l, servers, serverSeq) /\ disturbed \in BOOLEAN
    BY DEF IInv, TypeOK
  <1>2. /\ servers \in [ServerIds -> Server \cup {Absent}]
        /\ serverSeq \in Nat /\ serverSeq \in 0 .. MaxServers
    BY ResourcesAssumption DEF IInv, TypeOK
  <1>3. CASE NewServerSource(r)
    <2>1. At(r, "nk.src") /\ Reads /\ (Goto(r, "reset.all") \/ Finish(r))
      BY <1>3 DEF NewServerSource
    <2> QED BY <2>1, GotoEffect, FinishEffect DEF At, Building, Looking
  <1>4. CASE ResetList(r)
    <2> DEFINE S == ActiveServersOf(l.org)
               n == [l EXCEPT !.pc = "reset.put", !.left = S]
    <2>1. At(r, "reset.all") /\ Go(r, n) /\ Reads
      BY <1>4 DEF ResetList
    <2>2. S \in SUBSET ServerIds
      BY DEF ActiveServersOf, ServersOf, StoredServers
    <2>3. \A i \in S : servers[i].org = l.org /\ i <= serverSeq
      BY DEF ActiveServersOf, ServersOf, IInv, SeqOK
    <2> HIDE DEF S
    <2>4. /\ n \in Local /\ n.pc = "reset.put" /\ n.org = l.org
          /\ n.sid = l.sid /\ n.left = S /\ n.rec = l.rec
      BY <1>1, <2>2 DEF Local
    <2> HIDE DEF n
    <2>5. Scoped(n, servers, serverSeq)
      BY <1>1, <2>1, <2>3, <2>4 DEF At, Scoped, Building, Looking
    <2> QED BY <2>1, <2>4, <2>5, GoEffect
  <1>5. CASE ResetOne(r)
    <2>1. At(r, "reset.put") /\ UNCHANGED <<sourceVars, serverSeq>>
      BY <1>5 DEF ResetOne
    <2>2. ASSUME NEW i \in First(l.left) \cap StoredServers, Deactivate(i),
                 Go(r, [l EXCEPT !.left = @ \ {i}])
          PROVE  Effect(r)
      BY <1>1, <2>1, <2>2, DeactivateEffect DEF At, Looking, Building
    <2>3. ASSUME UNCHANGED servers, Finish(r)
          PROVE  Effect(r)
      BY <2>1, <2>3, FinishEffect DEF Reads, sourceVars, serverVars
    <2>4. ASSUME UNCHANGED servers, Goto(r, AfterReset(l))
          PROVE  Effect(r)
      <3>1. AfterReset(l) \in Labels /\ AfterReset(l) \notin Looking
        BY DEF AfterReset, Looking
      <3>2. Reads
        BY <2>1, <2>4 DEF Reads, sourceVars, serverVars
      <3> QED BY <2>1, <2>4, <3>1, <3>2, GotoEffect DEF At, Building, Looking
    <2> QED BY <1>5, <2>2, <2>3, <2>4 DEF ResetOne
  <1>6. CASE NewServerAdd(r)
    <2> DEFINE id == serverSeq + 1
               n == [l EXCEPT !.pc = "deact.all", !.sid = id]
    <2>1. At(r, "nk.add") /\ UNCHANGED sourceVars
      BY <1>6 DEF NewServerAdd
    <2>2. /\ l.rec \in Server /\ l.rec.org = l.org /\ l.org \in Orgs
          /\ l.rec # Absent
      BY <1>1, <2>1, ResourcesAssumption DEF At, Scoped, Building
    <2>3. ASSUME serverSeq < MaxServers, serverSeq' = id,
                 servers' = [servers EXCEPT ![id] = l.rec],
                 Go(r, n) \/ Finish(r)
          PROVE  Effect(r)
      <3>1. id \in ServerIds /\ serverSeq' \in 0 .. MaxServers /\ servers[id] = Absent
        BY <1>2, <2>3, ResourcesAssumption
           DEF ServerIds, IInv, SeqOK, StoredServers
      <3> HIDE DEF id
      <3>2. ServersKept
        <4>1. serverSeq <= serverSeq'
          BY <1>2, <2>3 DEF id
        <4>2. \A i \in ServerIds : i # id => servers'[i] = servers[i]
          BY <1>2, <2>3, <3>1
        <4>3. servers' \in [ServerIds -> Server \cup {Absent}]
          BY <1>2, <2>2, <2>3, <3>1
        <4>4. serverSeq < id /\ id <= serverSeq'
          BY <1>2, <2>3 DEF id
        <4> QED BY <3>1, <4>1, <4>2, <4>3, <4>4 DEF ServersKept
      <3>3. OwnServers(r)
        BY <1>2, <2>3, <3>1 DEF OwnServers
      <3>4. SourcesKept
        BY <2>1 DEF SourcesKept, sourceVars, IInv, TypeOK, AtMostOneDefault,
                    DefaultSources, StoredSources
      <3>5. /\ n \in Local /\ n.pc = "deact.all" /\ n.org = l.org /\ n.sid = id
            /\ n.left = l.left /\ n.rec = l.rec
        BY <1>1, <3>1 DEF Local
      <3> HIDE DEF n
      <3>6. Scoped(l, servers', serverSeq')
        BY <1>1, <3>2, ScopedStable DEF IInv
      <3>7. servers'[id].org = l.org /\ id <= serverSeq'
        BY <1>2, <2>2, <2>3, <3>1 DEF id
      <3>8. Scoped(n, servers', serverSeq')
        BY <2>1, <3>5, <3>6, <3>7 DEF Scoped, At, Building, Looking
      <3> QED BY <1>1, <2>3, <3>2, <3>3, <3>4, <3>5, <3>8 DEF Effect, Go, Finish
    <2>4. ASSUME UNCHANGED serverVars, Finish(r)
          PROVE  Effect(r)
      BY <2>1, <2>4, FinishEffect DEF Reads, sourceVars, serverVars
    <2> QED BY <1>6, <2>3, <2>4 DEF NewServerAdd
  <1>7. CASE UpdateServerGet(r)
    <2>1. At(r, "uk.get") /\ Reads
      BY <1>7 DEF UpdateServerGet
    <2>2. ASSUME NEW a \in BOOLEAN, NEW b \in BOOLEAN, ServerFound(l.sid, l.org),
                 Go(r, [l EXCEPT !.pc = "upd.get", !.activate = a,
                          !.src = servers[l.sid].src,
                          !.rec = [servers[l.sid] EXCEPT !.active = b]])
          PROVE  Effect(r)
      <3> DEFINE rec == [servers[l.sid] EXCEPT !.active = b]
                 src == servers[l.sid].src
                 n == [l EXCEPT !.pc = "upd.get", !.activate = a, !.src = src,
                         !.rec = rec]
      <3>1. servers[l.sid] \in Server /\ servers[l.sid].org = l.org
            /\ l.sid \in ServerIds /\ l.sid <= serverSeq
        BY <1>2, <2>2 DEF ServerFound, ServersOf, StoredServers, IInv, SeqOK
      <3>2. rec \in Server /\ rec.org = l.org /\ src \in SourceIds
        BY <3>1 DEF Server
      <3>3. Go(r, n)
        BY <2>2
      <3> HIDE DEF rec, src
      <3>4. /\ n \in Local /\ n.pc = "upd.get" /\ n.org = l.org
            /\ n.sid = l.sid /\ n.left = l.left /\ n.rec = rec
        BY <1>1, <3>2 DEF Local
      <3> HIDE DEF n
      <3>5. Scoped(n, servers, serverSeq)
        BY <1>1, <2>1, <3>1, <3>2, <3>4 DEF At, Scoped, Looking
      <3> QED BY <2>1, <3>3, <3>4, <3>5, GoEffect
    <2>3. ServerFound(l.sid, l.org) => servers[l.sid].active \in BOOLEAN
      BY <1>2 DEF ServerFound, ServersOf, StoredServers, Server
    <2> QED BY <1>7, <2>1, <2>2, <2>3, FinishEffect DEF UpdateServerGet
  <1>8. CASE FacadeUpdateGet(r)
    <2>1. /\ At(r, "upd.get") /\ Reads
          /\ Goto(r, "reset.all") \/ Goto(r, "upd.put") \/ Finish(r)
      BY <1>8 DEF FacadeUpdateGet
    <2> QED BY <2>1, GotoEffect, FinishEffect DEF At, Building, Looking
  <1>9. CASE UpdateServerPut(r)
    <2>1. At(r, "upd.put") /\ UNCHANGED <<sourceVars, serverSeq>>
      BY <1>9 DEF UpdateServerPut
    <2>2. /\ l.rec \in Server /\ l.rec.org = l.org /\ l.rec # Absent
      BY <1>1, <2>1, ResourcesAssumption DEF At, Scoped, Building
    <2>3. ASSUME l.sid \in StoredServers,
                 servers' = [servers EXCEPT ![l.sid] = l.rec],
                 Goto(r, "deact.all") \/ Finish(r)
          PROVE  Effect(r)
      <3> DEFINE n == [l EXCEPT !.pc = "deact.all"]
      <3>1. l.sid \in ServerIds /\ servers[l.sid] # Absent
        BY <2>3 DEF StoredServers
      <3>2. servers[l.sid].org = l.org
        BY <1>1, <2>1, <3>1 DEF Scoped, At, Looking
      <3>3. /\ n \in Local /\ n.pc = "deact.all" /\ n.org = l.org
            /\ n.sid = l.sid /\ n.left = l.left /\ n.rec = l.rec
        BY <1>1, GotoFacts
      <3>4. Go(r, n) \/ Go(r, Idle)
        BY <2>3 DEF Goto, Finish
      <3> HIDE DEF n
      <3>5. Scoped(n, servers, serverSeq) /\ n # l
        BY <1>1, <2>1, <3>3, ScopedMove DEF At, Building, Looking
      <3>6. Idle # l /\ Scoped(Idle, servers, serverSeq)
        BY <2>1 DEF At
      <3> QED BY <2>1, <2>2, <2>3, <3>1, <3>2, <3>3, <3>4, <3>5, <3>6,
                 ServerEffect
    <2>4. ASSUME UNCHANGED servers, Finish(r)
          PROVE  Effect(r)
      BY <2>1, <2>4, FinishEffect DEF Reads, sourceVars, serverVars
    <2> QED BY <1>9, <2>3, <2>4 DEF UpdateServerPut
  <1>10. CASE DeactivateList(r)
    <2> DEFINE S == {i \in ActiveServersOf(l.org) \ {l.sid} :
                       servers[i].src = l.src /\ servers[i].kapacitor}
               n == [l EXCEPT !.pc = "deact.put", !.left = S]
    <2>1. At(r, "deact.all") /\ Go(r, n) /\ Reads
      BY <1>10 DEF DeactivateList
    <2>2. S \in SUBSET ServerIds
      BY DEF ActiveServersOf, ServersOf, StoredServers
    <2>3. \A i \in S : servers[i].org = l.org /\ i <= serverSeq
      BY DEF ActiveServersOf, ServersOf, IInv, SeqOK
    <2> HIDE DEF S
    <2>4. /\ n \in Local /\ n.pc = "deact.put" /\ n.org = l.org
          /\ n.sid = l.sid /\ n.left = S /\ n.rec = l.rec
      BY <1>1, <2>2 DEF Local
    <2> HIDE DEF n
    <2>5. Scoped(n, servers, serverSeq)
      BY <1>1, <2>1, <2>3, <2>4 DEF At, Scoped, Building, Looking
    <2> QED BY <2>1, <2>4, <2>5, GoEffect
  <1>11. CASE DeactivateOne(r)
    <2>1. At(r, "deact.put") /\ UNCHANGED <<sourceVars, serverSeq>>
      BY <1>11 DEF DeactivateOne
    <2>2. ASSUME NEW i \in First(l.left), i \in StoredServers, Deactivate(i),
                 Go(r, [l EXCEPT !.left = @ \ {i}])
          PROVE  Effect(r)
      BY <1>1, <2>1, <2>2, DeactivateEffect DEF At, Looking, Building
    <2>3. ASSUME NEW i \in First(l.left), UNCHANGED servers,
                 Go(r, [l EXCEPT !.left = @ \ {i}])
          PROVE  Effect(r)
      <3> DEFINE n == [l EXCEPT !.left = @ \ {i}]
      <3>1. i \in ServerIds
        BY <1>1 DEF First, Local
      <3>2. /\ n \in Local /\ n.pc = l.pc /\ n.org = l.org /\ n.sid = l.sid
            /\ n.left = l.left \ {i} /\ n.rec = l.rec
        BY <1>1, <3>1, VisitFacts
      <3>3. Go(r, n)
        BY <2>3
      <3> HIDE DEF n
      <3>4. Scoped(n, servers, serverSeq)
        BY <1>1, <2>1, <3>2, ScopedMove DEF At, Looking
      <3> QED BY <2>1, <2>3, <3>2, <3>3, <3>4, GoEffect
              DEF Reads, sourceVars, serverVars
    <2>4. ASSUME UNCHANGED servers, Finish(r)
          PROVE  Effect(r)
      BY <2>1, <2>4, FinishEffect DEF Reads, sourceVars, serverVars
    <2> QED BY <1>11, <2>2, <2>3, <2>4 DEF DeactivateOne
  <1>12. CASE RemoveServerGet(r)
    <2>1. /\ At(r, "rk.get") /\ Reads
          /\ \/ ServerFound(l.sid, l.org) /\ Goto(r, "rk.kget")
             \/ Finish(r)
      BY <1>12 DEF RemoveServerGet
    <2>2. CASE ServerFound(l.sid, l.org) /\ Goto(r, "rk.kget")
      <3> DEFINE n == [l EXCEPT !.pc = "rk.kget"]
      <3>1. servers[l.sid].org = l.org
        BY <2>2 DEF ServerFound, ServersOf
      <3>2. /\ n \in Local /\ n.pc = "rk.kget" /\ n.org = l.org
            /\ n.sid = l.sid /\ n.left = l.left /\ n.rec = l.rec
        BY <1>1, GotoFacts
      <3>3. Go(r, n)
        BY <2>2 DEF Goto
      <3> HIDE DEF n
      <3>4. Scoped(n, servers, serverSeq)
        BY <1>1, <2>1, <3>1, <3>2 DEF At, Scoped, Building, Looking
      <3> QED BY <2>1, <3>2, <3>3, <3>4, GoEffect
    <2>3. CASE Finish(r)
      BY <2>1, <2>3, FinishEffect
    <2> QED BY <2>1, <2>2, <2>3
  <1>13. CASE RemoveServerFacadeGet(r)
    <2>1. At(r, "rk.kget") /\ Reads /\ (Goto(r, "rk.del") \/ Finish(r))
      BY <1>13 DEF RemoveServerFacadeGet
    <2> QED BY <2>1, GotoEffect, FinishEffect DEF At, Building, Looking
  <1>14. CASE RemoveServerDelete(r)
    <2>1. At(r, "rk.del") /\ DeleteServer(r, Go(r, Idle))
      BY <1>14 DEF RemoveServerDelete, Finish
    <2>2. Idle # l
      BY <2>1 DEF At
    <2> QED BY <2>1, <2>2, DeleteEffect DEF At, Looking
  <1> QED BY <1>3, <1>4, <1>5, <1>6, <1>7, <1>8, <1>9, <1>10, <1>11, <1>12,
             <1>13, <1>14 DEF ServersStep

----------------------------------------------------------------------------
(* The invariant. *)

LEMMA InitInv == Init => IInv
  <1> SUFFICES ASSUME Init PROVE IInv
    OBVIOUS
  <1>1. TypeOK
    <2>1. sources \in [SourceIds -> Source \cup {Absent}]
      BY DEF Init
    <2>2. servers \in [ServerIds -> Server \cup {Absent}]
      BY DEF Init
    <2>3. sourceSeq \in 0 .. MaxSources /\ serverSeq \in 0 .. MaxServers
      BY ResourcesAssumption DEF Init
    <2>4. req \in [Requests -> Local] /\ disturbed \in BOOLEAN
      BY IdleFacts DEF Init
    <2> QED BY <2>1, <2>2, <2>3, <2>4 DEF TypeOK
  <1>2. StoredSources = {} /\ StoredServers = {}
    BY DEF Init, StoredSources, StoredServers
  <1>3. \A r \in Requests : Scoped(req[r], servers, serverSeq)
    BY IdleFacts DEF Init
  <1> QED BY <1>1, <1>2, <1>3 DEF IInv, AtMostOneDefault, DefaultSources, SeqOK

LEMMA EffectInv ==
  ASSUME IInv, NEW r \in Requests, Effect(r)
  PROVE  IInv'
  <1>1. PICK l \in Local : /\ req' = [req EXCEPT ![r] = l]
                           /\ Scoped(l, servers', serverSeq')
    BY DEF Effect
  <1>2. TypeOK'
    BY <1>1 DEF Effect, SourcesKept, ServersKept, IInv, TypeOK
  <1>3. AtMostOneDefault'
    BY DEF Effect, SourcesKept
  <1>4. SeqOK'
    <2>1. serverSeq \in Nat /\ serverSeq' \in Nat
      BY ResourcesAssumption DEF IInv, TypeOK, Effect, ServersKept
    <2>2. \A i \in ServerIds : i \in Nat
      BY IdFacts
    <2> QED BY <2>1, <2>2 DEF Effect, ServersKept, IInv, SeqOK, StoredServers
  <1>5. ASSUME NEW q \in Requests
        PROVE  Scoped(req'[q], servers', serverSeq')
    <2>1. CASE q = r
      BY <1>1, <2>1 DEF IInv, TypeOK
    <2>2. CASE q # r
      <3>1. req'[q] = req[q] /\ req[q] \in Local
        BY <1>1, <2>2 DEF IInv, TypeOK
      <3>2. TypeOK /\ ServersKept /\ Scoped(req[q], servers, serverSeq)
        BY DEF IInv, Effect
      <3>3. Scoped(req[q], servers', serverSeq')
        BY <3>1, <3>2, ScopedStable
      <3> QED BY <3>1, <3>3
    <2> QED BY <2>1, <2>2
  <1> QED BY <1>2, <1>3, <1>4, <1>5 DEF IInv

LEMMA StepEffect ==
  ASSUME IInv, NEW r \in Requests, BeginRequest(r) \/ Step(r)
  PROVE  Effect(r)
  BY BeginEffect, SourcesEffect, ServersEffect DEF Step

LEMMA CrashInv == IInv /\ Crash => IInv'
  <1> SUFFICES ASSUME IInv, Crash PROVE IInv'
    OBVIOUS
  <1>1. /\ sources' = sources /\ sourceSeq' = sourceSeq
        /\ servers' = servers /\ serverSeq' = serverSeq
        /\ req' = [r \in Requests |-> Idle] /\ disturbed' = TRUE
    BY DEF Crash, Reads, sourceVars, serverVars
  <1> QED BY <1>1, IdleFacts DEF IInv, TypeOK, AtMostOneDefault, DefaultSources,
             StoredSources, SeqOK, StoredServers

LEMMA StutterInv == IInv /\ UNCHANGED vars => IInv'
  BY DEF vars, IInv, TypeOK, AtMostOneDefault, DefaultSources, StoredSources,
         SeqOK, StoredServers

LEMMA NextInv == IInv /\ [Next]_vars => IInv'
  BY StepEffect, EffectInv, CrashInv, StutterInv DEF Next

THEOREM Invariant == Spec => []IInv
  BY InitInv, NextInv, PTL DEF Spec

\* Both buckets and every handler's locals keep their types: no handler goes
\* on with a record it did not find.
THEOREM TypeCorrect == Spec => []TypeOK
  <1>1. IInv => TypeOK
    BY DEF IInv
  <1> QED BY <1>1, Invariant, PTL

\* However updates, additions and removals of sources race, and whatever stale
\* default flag each brings along, there is one default source at most.
THEOREM OneDefault == Spec => []AtMostOneDefault
  <1>1. IInv => AtMostOneDefault
    BY DEF IInv
  <1> QED BY <1>1, Invariant, PTL

\* No step changes or deletes a server but that of a handler of the server's
\* own organization, although the look at the organization is several
\* transactions old by then.
THEOREM Isolated == Spec => OrgIsolation
  <1> DEFINE Own == \A i \in StoredServers : servers'[i] # servers[i] =>
               \E r \in Requests : req[r].org = servers[i].org /\ req'[r] # req[r]
  <1>1. IInv /\ [Next]_vars => [Own]_vars
    <2> SUFFICES ASSUME IInv, Next PROVE Own
      OBVIOUS
    <2>1. CASE Crash
      BY <2>1 DEF Crash, Reads, serverVars
    <2>2. ASSUME NEW r \in Requests, BeginRequest(r) \/ Step(r)
          PROVE  Own
      BY <2>2, StepEffect DEF Effect, OwnServers, StoredServers
    <2> QED BY <2>1, <2>2 DEF Next
  <1> QED BY <1>1, Invariant, PTL DEF Spec, OrgIsolation

----------------------------------------------------------------------------
(* What the steps do to the sources bucket. *)

\* Ids of sources come from their sequence.
SourceSeqOK == \A s \in StoredSources : s <= sourceSeq

KeepsSources == sources' = sources /\ sourceSeq' = sourceSeq

\* A record is stored: under a new id, or in place of the one that is there.
StoresSource ==
    \E s \in SourceIds, rec \in Source :
      /\ sources' = PutSource(sources, s, rec)
      /\ \/ s = sourceSeq + 1 /\ sourceSeq' = sourceSeq + 1
         \/ s \in StoredSources /\ sourceSeq' = sourceSeq

DropsSource ==
    \E s \in StoredSources :
      /\ sources' = [SetRandomDefault(sources, s) EXCEPT ![s] = Absent]
      /\ sourceSeq' = sourceSeq

\* No other step of any handler touches the sources.
LEMMA SourceSteps ==
  ASSUME IInv, [Next]_vars
  PROVE  KeepsSources \/ StoresSource \/ DropsSource
  <1> USE DEF KeepsSources
  <1>1. CASE Crash \/ UNCHANGED vars
    BY <1>1 DEF Crash, Reads, sourceVars, vars
  <1>2. ASSUME NEW r \in Requests, BeginRequest(r)
        PROVE  KeepsSources
    BY <1>2 DEF BeginRequest, BeginNewSource, BeginUpdateSource,
                BeginRemoveSource, BeginNewServer, BeginUpdateServer,
                BeginRemoveServer, Begin, Reads, sourceVars
  <1>3. ASSUME NEW r \in Requests, ServersStep(r)
        PROVE  KeepsSources
    BY <1>3 DEF ServersStep, NewServerSource, ResetList, ResetOne, NewServerAdd,
                UpdateServerGet, FacadeUpdateGet, UpdateServerPut,
                DeactivateList, DeactivateOne, RemoveServerGet,
                RemoveServerFacadeGet, RemoveServerDelete, DeleteServer, Reads,
                sourceVars
  <1>4. ASSUME NEW r \in Requests, SourcesStep(r)
        PROVE  KeepsSources \/ StoresSource \/ DropsSource
    <2> DEFINE l == req[r]
               rec == [org |-> l.org, default |-> l.default]
    <2>1. l \in Local /\ Scoped(l, servers, serverSeq)
      BY DEF IInv, TypeOK
    <2>2. ASSUME At(r, "ns.add") \/ At(r, "us.put")
          PROVE  rec \in Source
      <3>1. l.org \in Orgs /\ l.default \in BOOLEAN
        BY <2>1, <2>2 DEF Scoped, At, Local
      <3> QED BY <3>1 DEF Source
    <2>3. CASE NewSourceAdd(r)
      <3>1. rec \in Source
        BY <2>2, <2>3 DEF NewSourceAdd
      <3> HIDE DEF rec
      <3>2. CASE /\ sourceSeq < MaxSources /\ sourceSeq' = sourceSeq + 1
                 /\ sources' = PutSource(sources, sourceSeq + 1, rec)
        <4>1. sourceSeq + 1 \in SourceIds
          BY <3>2, ResourcesAssumption DEF SourceIds, IInv, TypeOK
        <4> QED BY <3>1, <3>2, <4>1 DEF StoresSource
      <3>3. CASE UNCHANGED sourceVars
        BY <3>3 DEF sourceVars
      <3> QED BY <2>3, <3>2, <3>3 DEF NewSourceAdd, rec
    <2>4. CASE UpdateSourcePut(r)
      <3>1. rec \in Source /\ sourceSeq' = sourceSeq
        BY <2>2, <2>4 DEF UpdateSourcePut
      <3> HIDE DEF rec
      <3>2. CASE /\ l.src \in StoredSources
                 /\ sources' = PutSource(sources, l.src, rec)
        BY <3>1, <3>2 DEF StoresSource, StoredSources
      <3>3. CASE UNCHANGED sources
        BY <3>1, <3>3
      <3> QED BY <2>4, <3>2, <3>3 DEF UpdateSourcePut, rec
    <2>5. CASE RemoveSourceDelete(r)
      BY <2>5 DEF RemoveSourceDelete, DropsSource
    <2> QED BY <1>4, <2>3, <2>4, <2>5
            DEF SourcesStep, NewSourceAll, UpdateSourceGet, RemoveSourceGet,
                RemoveSourceList, RemoveSourceServerGet,
                RemoveSourceServerDelete, DeleteServer, Reads, sourceVars
  <1> QED BY <1>1, <1>2, <1>3, <1>4 DEF Next, Step

\* Storing a record keeps the other sources with their organization.
LEMMA PutSourceKeeps ==
  ASSUME NEW srcs \in SourceMap, NEW s \in SourceIds, NEW rec \in Source,
         NEW x \in SourceIds
  PROVE  LET put == PutSource(srcs, s, rec)
         IN  IF x = s THEN put[x] = rec /\ put[x] # Absent
             ELSE /\ put[x] = Absent <=> srcs[x] = Absent
                  /\ srcs[x] # Absent => put[x].org = srcs[x].org
  <1> DEFINE reset == ResetDefault(srcs, rec.default)
  <1>1. rec # Absent
    BY ResourcesAssumption
  <1>2. /\ reset[x] = Absent <=> srcs[x] = Absent
        /\ srcs[x] # Absent => reset[x].org = srcs[x].org
    <2>1. CASE srcs[x] = Absent
      BY <2>1 DEF ResetDefault
    <2>2. CASE srcs[x] # Absent
      <3>1. srcs[x] \in Source
        BY <2>2 DEF SourceMap
      <3>2. reset[x] = [srcs[x] EXCEPT !.default = FALSE] \/ reset[x] = srcs[x]
        BY <2>2 DEF ResetDefault
      <3>3. LET n == [srcs[x] EXCEPT !.default = FALSE]
            IN  n \in Source /\ n.org = srcs[x].org
        BY <3>1 DEF Source
      <3> QED BY <2>2, <3>2, <3>3, ResourcesAssumption
    <2> QED BY <2>1, <2>2
  <1>3. PutSource(srcs, s, rec) = [reset EXCEPT ![s] = rec]
    BY DEF PutSource
  <1>4. DOMAIN reset = SourceIds
    BY DEF ResetDefault
  <1> HIDE DEF reset
  <1> QED BY <1>1, <1>2, <1>3, <1>4

\* setRandomDefault keeps every source with its organization, and leaves a
\* default in the set it was given.
LEMMA DefaultToKeeps ==
  ASSUME NEW srcs \in SourceMap, NEW S, NEW x \in SourceIds
  PROVE  /\ DefaultTo(srcs, S)[x] = Absent <=> srcs[x] = Absent
         /\ srcs[x] # Absent => /\ DefaultTo(srcs, S)[x].org = srcs[x].org
                                /\ x \in S => DefaultTo(srcs, S)[x].default
  <1>1. CASE srcs[x] = Absent
    BY <1>1 DEF DefaultTo
  <1>2. CASE srcs[x] # Absent
    <2> DEFINE b == x \in S
    <2>1. srcs[x] \in Source /\ b \in BOOLEAN
      BY <1>2 DEF SourceMap
    <2>2. DefaultTo(srcs, S)[x] = [srcs[x] EXCEPT !.default = b]
      BY <1>2 DEF DefaultTo
    <2> HIDE DEF b
    <2>3. LET n == [srcs[x] EXCEPT !.default = b]
          IN  n \in Source /\ n.org = srcs[x].org /\ n.default = b
      BY <2>1 DEF Source
    <2> QED BY <1>2, <2>2, <2>3, ResourcesAssumption DEF b
  <1> QED BY <1>1, <1>2

\* Every set of ids that is not empty has a first one.
LEMMA FirstExists ==
  ASSUME NEW S, S \subseteq SourceIds \/ S \subseteq ServerIds, S # {}
  PROVE  \E s \in S : s \in First(S)
  <1>1. S \in SUBSET Nat
    BY ResourcesAssumption DEF SourceIds, ServerIds
  <1> QED BY <1>1, LeastElement DEF First

LEMMA SourceSeqInv == Spec => []SourceSeqOK
  <1>1. Init => SourceSeqOK
    BY DEF Init, SourceSeqOK, StoredSources
  <1>2. IInv /\ SourceSeqOK /\ [Next]_vars => SourceSeqOK'
    <2> SUFFICES ASSUME IInv, SourceSeqOK, [Next]_vars,
                        NEW x \in SourceIds, sources'[x] # Absent
                 PROVE  x <= sourceSeq'
      BY DEF SourceSeqOK, StoredSources
    <2>1. /\ sources \in SourceMap /\ sourceSeq \in Nat /\ x \in Nat
          /\ sources[x] # Absent => x <= sourceSeq
      BY ResourcesAssumption
         DEF IInv, TypeOK, SourceMap, SourceSeqOK, StoredSources, SourceIds
    <2>2. CASE KeepsSources
      BY <2>1, <2>2 DEF KeepsSources
    <2>3. CASE StoresSource
      <3>1. PICK s \in SourceIds, rec \in Source :
              /\ sources' = PutSource(sources, s, rec)
              /\ \/ s = sourceSeq + 1 /\ sourceSeq' = sourceSeq + 1
                 \/ s \in StoredSources /\ sourceSeq' = sourceSeq
        BY <2>3 DEF StoresSource
      <3>2. x = s \/ sources[x] # Absent
        BY <2>1, <3>1, PutSourceKeeps
      <3>3. \/ x = sourceSeq + 1 /\ sourceSeq' = sourceSeq + 1
            \/ x <= sourceSeq /\ sourceSeq' \in {sourceSeq, sourceSeq + 1}
        BY <2>1, <3>1, <3>2 DEF SourceSeqOK
      <3> QED BY <2>1, <3>3
    <2>4. CASE DropsSource
      <3>1. PICK s \in StoredSources :
              /\ sources' = [SetRandomDefault(sources, s) EXCEPT ![s] = Absent]
              /\ sourceSeq' = sourceSeq
        BY <2>4 DEF DropsSource
      <3> DEFINE d == SetRandomDefault(sources, s)
      <3>2. DOMAIN d = SourceIds /\ (d[x] = Absent <=> sources[x] = Absent)
        BY <2>1, DefaultToKeeps DEF SetRandomDefault, DefaultTo, SourceMap
      <3>3. sources' = [d EXCEPT ![s] = Absent]
        BY <3>1
      <3> HIDE DEF d
      <3>4. sources[x] # Absent
        BY <3>2, <3>3
      <3> QED BY <2>1, <3>1, <3>4
    <2> QED BY <2>2, <2>3, <2>4, SourceSteps
  <1> QED BY <1>1, <1>2, Invariant, PTL DEF Spec

\* The default source does not disappear without a successor: whatever removes
\* it makes another one the default, if any source is left.
THEOREM RemovalLeavesDefault == Spec => RemovalKeepsDefault
  <1> DEFINE Kept == \A s \in DefaultSources :
               sources'[s] = Absent /\ StoredSources' # {} => DefaultSources' # {}
  <1>1. IInv /\ [Next]_vars => [Kept]_vars
    <2> SUFFICES ASSUME IInv, [Next]_vars, NEW x \in DefaultSources,
                        sources'[x] = Absent, StoredSources' # {}
                 PROVE  DefaultSources' # {}
      OBVIOUS
    <2>1. /\ sources \in SourceMap /\ x \in SourceIds /\ sources[x] # Absent
          /\ sources[x].default
      BY DEF IInv, TypeOK, SourceMap, DefaultSources, StoredSources
    <2>2. ~KeepsSources
      BY <2>1 DEF KeepsSources
    <2>3. ~StoresSource
      <3> SUFFICES ASSUME NEW s \in SourceIds, NEW rec \in Source,
                          sources' = PutSource(sources, s, rec)
                   PROVE  FALSE
        BY DEF StoresSource
      <3> QED BY <2>1, PutSourceKeeps
    <2>4. PICK s \in StoredSources :
            sources' = [SetRandomDefault(sources, s) EXCEPT ![s] = Absent]
      BY <2>2, <2>3, SourceSteps DEF DropsSource
    <2> DEFINE d == SetRandomDefault(sources, s)
               S == First(StoredSources \ {s})
    <2>5. /\ s \in SourceIds /\ DOMAIN d = SourceIds
          /\ \A t \in SourceIds : d[t] = Absent <=> sources[t] = Absent
      BY <2>1, <2>4, DefaultToKeeps
         DEF SetRandomDefault, DefaultTo, SourceMap, StoredSources
    <2>6. sources' = [d EXCEPT ![s] = Absent]
      BY <2>4
    <2>7. x = s
      <3> HIDE DEF d
      <3> QED BY <2>1, <2>5, <2>6
    <2>8. d = DefaultTo(sources, S)
      BY <2>1, <2>7 DEF SetRandomDefault
    <2> HIDE DEF d
    <2>9. StoredSources \ {s} # {}
      BY <2>5, <2>6 DEF StoredSources
    <2>10. PICK t \in StoredSources \ {s} : t \in S
      BY <2>9, FirstExists DEF StoredSources
    <2>11. t \in SourceIds /\ sources[t] # Absent /\ t # s
      BY <2>10 DEF StoredSources
    <2>12. d[t] # Absent /\ d[t].default
      <3> HIDE DEF S
      <3>1. d[t] # Absent
        BY <2>5, <2>11
      <3>2. d[t].default
        BY <2>1, <2>8, <2>10, <2>11, DefaultToKeeps
      <3> QED BY <3>1, <3>2
    <2>13. sources'[t] # Absent /\ sources'[t].default
      BY <2>5, <2>6, <2>11, <2>12
    <2> QED BY <2>11, <2>13 DEF DefaultSources, StoredSources
  <1> QED BY <1>1, Invariant, PTL DEF Spec, RemovalKeepsDefault

----------------------------------------------------------------------------
(* One handler at a time. *)

OneActiveIn(o) == \A i, j \in ActiveServersOf(o) : i = j

\* A server whose source is gone, or belongs to another organization.
Orphan(i) == ~SourceFound(servers[i].src, servers[i].org)

\* Active servers while a handler with the locals l is the only one in flight:
\* resetActiveServer is about to visit every one of the organization, and none
\* is left when the handler stores one.
CalmActive(l) ==
    /\ \A o \in Orgs : OneActiveIn(o) \/ (l.pc = "reset.put" /\ o = l.org)
    /\ l.pc = "reset.put" =>
         ActiveServersOf(l.org) \subseteq l.left /\ l.left \subseteq StoredServers
    /\ l.pc = "nk.add" \/ (l.pc = "upd.put" /\ l.rec.active) =>
         ActiveServersOf(l.org) = {}

\* Servers of a removed source: removeSrcsKapa is about to list or to visit
\* every one of them; a handler that stores a server has seen its source, and
\* the source is there still.
CalmOrphans(l) ==
    /\ \A i \in StoredServers : Orphan(i) =>
         \/ l.pc = "rs.list" /\ servers[i].src = l.src /\ servers[i].org = l.org
         \/ l.pc \in {"rs.kget", "rs.kdel"} /\ i \in l.left
         \/ l.pc = "rs.kdel" /\ i = l.sid
    /\ l.pc \in {"rs.kget", "rs.kdel"} => l.left \subseteq StoredServers
    /\ l.pc = "rs.kdel" => l.sid \notin l.left
    /\ l.pc = "nk.src" => l.rec.src = l.src
    /\ l.pc \in Building \ {"nk.src"} => SourceFound(l.rec.src, l.org)
    /\ l.pc \in {"us.put", "rs.del"} => SourceFound(l.src, l.org)

Calm(l) == CalmActive(l) /\ CalmOrphans(l)

\* The strengthening of OneActiveAlone and NoOrphanAlone that is inductive.
AloneInv ==
    ~disturbed =>
      /\ \A q, r \in Requests : ~At(q, "idle") /\ ~At(r, "idle") => q = r
      /\ \A r \in Requests : ~At(r, "idle") => Calm(req[r])
      /\ (\A r \in Requests : At(r, "idle")) => Calm(Idle)

\* What a step of the only handler leaves behind.
Settles(r) == \E n \in Local : req' = [req EXCEPT ![r] = n] /\ Calm(n)'

\* Where nothing is unfinished: a handler may stop here.
Unfinished == {"reset.put", "rs.list", "rs.kget", "rs.kdel"}

\* What Calm says of the labels a handler may begin at, or has finished at.
LEMMA CalmRest ==
  ASSUME NEW l \in Local, NEW n \in Local, Calm(l), l.pc \notin Unfinished,
         n.pc \notin Building \cup Unfinished \cup {"us.put", "rs.del"}
  PROVE  Calm(n)
  <1>1. CalmActive(n)
    BY DEF Calm, CalmActive, Unfinished, Building
  <1>2. CalmOrphans(n)
    BY DEF Calm, CalmOrphans, Unfinished, Building
  <1> QED BY <1>1, <1>2 DEF Calm

LEMMA CalmKept ==
  ASSUME sources' = sources, servers' = servers, NEW n, Calm(n)
  PROVE  Calm(n)'
  BY DEF Calm, CalmActive, CalmOrphans, OneActiveIn, ActiveServersOf, ServersOf,
         StoredServers, Orphan, SourceFound, StoredSources

LEMMA ReadSettles ==
  ASSUME NEW r \in Requests, Reads, NEW n \in Local, Go(r, n), Calm(n)
  PROVE  Settles(r)
  <1>1. sources' = sources /\ servers' = servers
    BY DEF Reads, sourceVars, serverVars
  <1>2. Calm(n)'
    BY <1>1, CalmKept
  <1> QED BY <1>2 DEF Settles, Go

LEMMA FinishSettles ==
  ASSUME IInv, NEW r \in Requests, Reads, Finish(r), Calm(req[r]),
         req[r].pc \notin Unfinished
  PROVE  Settles(r)
  <1>1. req[r] \in Local
    BY DEF IInv, TypeOK
  <1>2. Calm(Idle)
    BY <1>1, IdleFacts, CalmRest DEF Building, Unfinished
  <1> QED BY <1>2, IdleFacts, ReadSettles DEF Finish

\* A change of label, with everything else a handler remembers.
LEMMA LabelMove ==
  ASSUME NEW l \in Local, NEW p \in Labels
  PROVE  LET n == [l EXCEPT !.pc = p]
         IN  /\ n \in Local /\ n.pc = p /\ n.org = l.org /\ n.sid = l.sid
             /\ n.left = l.left /\ n.rec = l.rec /\ n.src = l.src
  BY DEF Local

\* A step that removes servers, or makes them inactive, and takes no source
\* away: what was calm with it is calm after it.
Shrinks ==
    /\ \A s \in SourceIds, o \in Orgs : SourceFound(s, o) => SourceFound(s, o)'
    /\ \A i \in ServerIds : servers'[i] # Absent =>
         /\ servers[i] # Absent
         /\ servers'[i].org = servers[i].org /\ servers'[i].src = servers[i].src
         /\ servers'[i].active => servers[i].active

LEMMA ShrinkFacts ==
  ASSUME IInv, Shrinks
  PROVE  /\ \A o : ActiveServersOf(o)' \subseteq ActiveServersOf(o)
         /\ \A o : OneActiveIn(o) => OneActiveIn(o)'
         /\ StoredServers' \subseteq StoredServers
         /\ \A i \in StoredServers' :
              /\ Orphan(i)' => Orphan(i)
              /\ servers'[i].src = servers[i].src
              /\ servers'[i].org = servers[i].org
  <1>1. StoredServers' \subseteq StoredServers
    BY DEF Shrinks, StoredServers
  <1>2. \A o : ActiveServersOf(o)' \subseteq ActiveServersOf(o)
    BY DEF Shrinks, ActiveServersOf, ServersOf, StoredServers
  <1>3. \A i \in StoredServers' : /\ servers'[i].src = servers[i].src
                                  /\ servers'[i].org = servers[i].org
    BY DEF Shrinks, StoredServers
  <1>4. ASSUME NEW i \in StoredServers', ~Orphan(i)
        PROVE  ~Orphan(i)'
    <2>1. i \in ServerIds /\ servers[i] \in Server
      BY <1>1 DEF StoredServers, IInv, TypeOK
    <2>2. servers[i].src \in SourceIds /\ servers[i].org \in Orgs
      BY <2>1 DEF Server
    <2> QED BY <1>3, <1>4, <2>2 DEF Shrinks, Orphan, SourceFound
  <1> QED BY <1>1, <1>2, <1>3, <1>4 DEF OneActiveIn

\* Where a handler that has nothing to remember may be.
Plain(l) == l.pc \notin Building \cup Unfinished \cup {"us.put", "rs.del"}

LEMMA ShrinkCalm ==
  ASSUME IInv, Shrinks, NEW n \in Local, Calm(n), Plain(n)
  PROVE  Calm(n)'
  <1>1. CalmActive(n)'
    BY ShrinkFacts DEF Calm, CalmActive, Plain, Unfinished, Building
  <1>2. CalmOrphans(n)'
    BY ShrinkFacts DEF Calm, CalmOrphans, Plain, Unfinished, Building
  <1> QED BY <1>1, <1>2 DEF Calm

LEMMA ShrinkSettles ==
  ASSUME IInv, NEW r \in Requests, Calm(req[r]), req[r].pc \notin Unfinished,
         Shrinks, NEW n \in Local, Go(r, n), Plain(n)
  PROVE  Settles(r)
  <1>1. req[r] \in Local
    BY DEF IInv, TypeOK
  <1>2. Calm(n)
    BY <1>1, CalmRest DEF Plain
  <1> QED BY <1>2, ShrinkCalm DEF Settles, Go

LEMMA IdlePlain == Plain(Idle)
  BY IdleFacts DEF Plain, Building, Unfinished

LEMMA PutSourceShrinks ==
  ASSUME IInv, UNCHANGED servers, NEW s \in SourceIds, NEW rec \in Source,
         sources' = PutSource(sources, s, rec),
         sources[s] # Absent => sources[s].org = rec.org
  PROVE  Shrinks
  <1>1. sources \in SourceMap
    BY DEF IInv, TypeOK, SourceMap
  <1>2. \A x \in SourceIds, o \in Orgs : SourceFound(x, o) => SourceFound(x, o)'
    BY <1>1, PutSourceKeeps DEF SourceFound, StoredSources
  <1> QED BY <1>2 DEF Shrinks

LEMMA SourcesSettle ==
  ASSUME IInv, SourceSeqOK, NEW r \in Requests, SourcesStep(r), Calm(req[r])
  PROVE  Settles(r)
  <1> DEFINE l == req[r]
  <1> USE LabelFacts, IdleFacts, IdlePlain
  <1>1. l \in Local /\ Scoped(l, servers, serverSeq)
    BY DEF IInv, TypeOK
  <1>2. sources \in SourceMap /\ sourceSeq \in Nat
    BY ResourcesAssumption DEF IInv, TypeOK, SourceMap
  <1>3. CASE NewSourceAll(r)
    <2> DEFINE n == [l EXCEPT !.pc = "ns.add",
                              !.default = @ \/ StoredSources = {}]
    <2>1. At(r, "ns.all") /\ Go(r, n) /\ Reads
      BY <1>3 DEF NewSourceAll
    <2>2. n \in Local /\ n.pc = "ns.add"
      BY ZenonT(60), <1>1 DEF Local
    <2> HIDE DEF n
    <2>3. Calm(n)
      BY <1>1, <2>1, <2>2, CalmRest DEF At, Building, Unfinished
    <2> QED BY <2>1, <2>2, <2>3, ReadSettles
  <1>4. CASE NewSourceAdd(r)
    <2> DEFINE rec == [org |-> l.org, default |-> l.default]
    <2>1. At(r, "ns.add") /\ Finish(r) /\ servers' = servers
      BY <1>4 DEF NewSourceAdd, serverVars
    <2>2. l.org \in Orgs /\ l.default \in BOOLEAN
      BY <1>1, <2>1 DEF Scoped, At, Local
    <2>3. rec \in Source
      BY <2>2 DEF Source
    <2> HIDE DEF rec
    <2>4. Shrinks
      <3>1. CASE /\ sourceSeq < MaxSources
                 /\ sources' = PutSource(sources, sourceSeq + 1, rec)
        <4>1. sourceSeq + 1 \in SourceIds
          BY <1>2, <3>1, ResourcesAssumption DEF SourceIds
        <4>2. sources[sourceSeq + 1] = Absent
          BY <1>2, <4>1 DEF SourceSeqOK, StoredSources
        <4> QED BY <2>1, <2>3, <3>1, <4>1, <4>2, PutSourceShrinks
      <3>2. CASE UNCHANGED sourceVars
        BY <2>1, <3>2 DEF sourceVars, Shrinks, SourceFound, StoredSources
      <3> QED BY <1>4, <3>1, <3>2 DEF NewSourceAdd, rec
    <2> QED BY <2>1, <2>4, ShrinkSettles DEF At, Finish, Unfinished
  <1>5. CASE UpdateSourceGet(r)
    <2>1. At(r, "us.get") /\ Reads
      BY <1>5 DEF UpdateSourceGet
    <2>2. CASE SourceFound(l.src, l.org) /\ Goto(r, "us.put")
      <3> DEFINE n == [l EXCEPT !.pc = "us.put"]
      <3>1. /\ n \in Local /\ n.pc = "us.put" /\ n.org = l.org /\ n.src = l.src
            /\ Go(r, n)
        BY <1>1, <2>2, LabelMove DEF Goto
      <3> HIDE DEF n
      <3>2. Calm(n)
        BY <2>1, <2>2, <3>1
           DEF Calm, CalmActive, CalmOrphans, At, Building
      <3> QED BY <2>1, <3>1, <3>2, ReadSettles
    <2> QED BY <1>5, <2>1, <2>2, FinishSettles
            DEF UpdateSourceGet, At, Unfinished
  <1>6. CASE UpdateSourcePut(r)
    <2> DEFINE rec == [org |-> l.org, default |-> l.default]
    <2>1. At(r, "us.put") /\ Finish(r) /\ servers' = servers
      BY <1>6 DEF UpdateSourcePut, serverVars
    <2>2. l.org \in Orgs /\ l.default \in BOOLEAN
      BY <1>1, <2>1 DEF Scoped, At, Local
    <2>3. rec \in Source /\ rec.org = l.org
      BY <2>2 DEF Source
    <2> HIDE DEF rec
    <2>4. SourceFound(l.src, l.org)
      BY <2>1 DEF Calm, CalmOrphans, At
    <2>5. Shrinks
      <3>1. CASE sources' = PutSource(sources, l.src, rec)
        BY <2>1, <2>3, <2>4, <3>1, PutSourceShrinks
           DEF SourceFound, StoredSources
      <3>2. CASE UNCHANGED sources
        BY <2>1, <3>2 DEF Shrinks, SourceFound, StoredSources
      <3> QED BY <1>6, <3>1, <3>2 DEF UpdateSourcePut, rec
    <2> QED BY <2>1, <2>5, ShrinkSettles DEF At, Finish, Unfinished
  <1>7. CASE RemoveSourceGet(r)
    <2>1. At(r, "rs.get") /\ Reads
      BY <1>7 DEF RemoveSourceGet
    <2>2. CASE SourceFound(l.src, l.org) /\ Goto(r, "rs.del")
      <3> DEFINE n == [l EXCEPT !.pc = "rs.del"]
      <3>1. /\ n \in Local /\ n.pc = "rs.del" /\ n.org = l.org /\ n.src = l.src
            /\ Go(r, n)
        BY <1>1, <2>2, LabelMove DEF Goto
      <3> HIDE DEF n
      <3>2. Calm(n)
        BY <2>1, <2>2, <3>1
           DEF Calm, CalmActive, CalmOrphans, At, Building
      <3> QED BY <2>1, <3>1, <3>2, ReadSettles
    <2> QED BY <1>7, <2>1, <2>2, FinishSettles
            DEF RemoveSourceGet, At, Unfinished
  <1>8. CASE RemoveSourceDelete(r)
    <2>1. At(r, "rs.del") /\ sourceSeq' = sourceSeq /\ UNCHANGED serverVars
      BY <1>8 DEF RemoveSourceDelete
    <2>2. CASE /\ l.src \in StoredSources /\ Goto(r, "rs.list")
               /\ sources' = [SetRandomDefault(sources, l.src)
                                EXCEPT ![l.src] = Absent]
      <3> DEFINE d == SetRandomDefault(sources, l.src)
      <3>1. PICK n \in Local :
              /\ n.pc = "rs.list" /\ n.org = l.org /\ n.src = l.src
              /\ req' = [req EXCEPT ![r] = n]
        <4> DEFINE m == [l EXCEPT !.pc = "rs.list"]
        <4>1. Go(r, m)
          BY <2>2 DEF Goto
        <4>2. m \in Local /\ m.pc = "rs.list" /\ m.org = l.org /\ m.src = l.src
          BY <1>1, LabelMove
        <4> HIDE DEF m
        <4> QED BY <4>1, <4>2 DEF Go
      <3>2. l.src \in SourceIds /\ sources[l.src].org = l.org
        BY <2>1 DEF Calm, CalmOrphans, At, SourceFound, StoredSources
      <3>3. /\ DOMAIN d = SourceIds
            /\ \A x \in SourceIds : sources[x] # Absent =>
                 d[x] # Absent /\ d[x].org = sources[x].org
        BY <1>2, DefaultToKeeps DEF SetRandomDefault, DefaultTo, SourceMap
      <3>4. sources' = [d EXCEPT ![l.src] = Absent]
        BY <2>2
      <3> HIDE DEF d
      <3>5. \A x \in SourceIds, o \in Orgs :
              SourceFound(x, o) /\ x # l.src => SourceFound(x, o)'
        BY <3>2, <3>3, <3>4 DEF SourceFound, StoredSources
      <3>6. servers' = servers
        BY <2>1 DEF serverVars
      <3>7. CalmActive(n)'
        BY <2>1, <3>1, <3>6
           DEF Calm, CalmActive, OneActiveIn, ActiveServersOf, ServersOf,
               StoredServers, At
      <3>8. ASSUME NEW i \in StoredServers', Orphan(i)'
            PROVE  servers'[i].src = l.src /\ servers'[i].org = l.org
        <4>1. i \in StoredServers /\ servers[i] \in Server
          BY <3>6 DEF StoredServers, IInv, TypeOK
        <4>2. servers[i].src \in SourceIds /\ servers[i].org \in Orgs
          BY <4>1 DEF Server
        <4>3. SourceFound(servers[i].src, servers[i].org)
          BY <2>1, <4>1 DEF Calm, CalmOrphans, Orphan, At
        <4>4. servers[i].src = l.src
          BY <3>5, <3>6, <3>8, <4>2, <4>3 DEF Orphan, SourceFound, StoredSources
        <4> QED BY <3>2, <3>6, <4>3, <4>4 DEF SourceFound
      <3>9. CalmOrphans(n)'
        BY <3>1, <3>8 DEF CalmOrphans, Building
      <3> QED BY <3>1, <3>7, <3>9 DEF Settles, Calm
    <2>3. CASE UNCHANGED sources /\ Finish(r)
      BY <2>1, <2>3, FinishSettles
         DEF Reads, sourceVars, serverVars, At, Unfinished
    <2> QED BY <1>8, <2>2, <2>3 DEF RemoveSourceDelete
  <1>9. CASE RemoveSourceList(r)
    <2> DEFINE S == {i \in ServersOf(l.org) : servers[i].src = l.src}
               n == [l EXCEPT !.pc = "rs.kget", !.left = S]
    <2>1. At(r, "rs.list") /\ Go(r, n) /\ Reads
      BY <1>9 DEF RemoveSourceList
    <2>2. S \in SUBSET ServerIds /\ S \subseteq StoredServers
      BY DEF ServersOf, StoredServers
    <2>3. \A i \in StoredServers : Orphan(i) => i \in S
      BY <2>1 DEF Calm, CalmOrphans, At, ServersOf
    <2> HIDE DEF S
    <2>4. n \in Local /\ n.pc = "rs.kget" /\ n.left = S
      BY <1>1, <2>2 DEF Local
    <2> HIDE DEF n
    <2>5. CalmActive(n)
      BY <2>1, <2>4 DEF Calm, CalmActive, At
    <2>6. CalmOrphans(n)
      BY <2>2, <2>3, <2>4 DEF CalmOrphans, Building
    <2> QED BY <2>1, <2>4, <2>5, <2>6, ReadSettles DEF Calm
  <1>10. CASE RemoveSourceServerGet(r)
    <2>1. At(r, "rs.kget") /\ Reads
      BY <1>10 DEF RemoveSourceServerGet
    <2>2. /\ l.left \subseteq StoredServers
          /\ \A i \in StoredServers : Orphan(i) => i \in l.left
      BY <2>1 DEF Calm, CalmOrphans, At
    <2>3. ASSUME NEW i \in First(l.left) \cap StoredServers,
                 Go(r, [l EXCEPT !.pc = "rs.kdel", !.sid = i, !.left = @ \ {i}])
          PROVE  Settles(r)
      <3> DEFINE n == [l EXCEPT !.pc = "rs.kdel", !.sid = i, !.left = @ \ {i}]
      <3>1. i \in l.left /\ i \in ServerIds
        BY DEF First, StoredServers
      <3>2. n \in Local /\ n.pc = "rs.kdel" /\ n.sid = i /\ n.left = l.left \ {i}
        BY <1>1, <3>1 DEF Local
      <3>3. Go(r, n)
        BY <2>3
      <3> HIDE DEF n
      <3>4. CalmActive(n)
        BY <2>1, <3>2 DEF Calm, CalmActive, At
      <3>5. CalmOrphans(n)
        BY <2>2, <3>2 DEF CalmOrphans, Building
      <3> QED BY <2>1, <3>2, <3>3, <3>4, <3>5, ReadSettles DEF Calm
    <2>4. CASE First(l.left) \cap StoredServers = {} /\ Finish(r)
      <3>1. l.left = {}
        <4>1. l.left \subseteq ServerIds
          BY <1>1 DEF Local
        <4> QED BY <2>2, <2>4, <4>1, FirstExists
      <3>2. Calm(Idle)
        BY <2>1, <2>2, <3>1
           DEF Calm, CalmActive, CalmOrphans, At, Building
      <3> QED BY <2>1, <2>4, <3>2, ReadSettles DEF Finish
    <2> QED BY <1>10, <2>3, <2>4 DEF RemoveSourceServerGet
  <1>11. CASE RemoveSourceServerDelete(r)
    <2>1. /\ At(r, "rs.kdel") /\ sources' = sources
          /\ servers' = [servers EXCEPT ![l.sid] = Absent]
          /\ Go(r, [l EXCEPT !.pc = "rs.kget"])
      BY <1>11 DEF RemoveSourceServerDelete, DeleteServer, Goto, sourceVars
    <2>2. PICK n \in Local : /\ n.pc = "rs.kget" /\ n.left = l.left
                             /\ req' = [req EXCEPT ![r] = n]
      <3> DEFINE m == [l EXCEPT !.pc = "rs.kget"]
      <3>1. Go(r, m) /\ m \in Local /\ m.pc = "rs.kget" /\ m.left = l.left
        BY <1>1, <2>1, LabelMove
      <3> HIDE DEF m
      <3> QED BY <3>1 DEF Go
    <2>3. servers \in [ServerIds -> Server \cup {Absent}]
      BY DEF IInv, TypeOK
    <2>4. \A i \in StoredServers' : i # l.sid /\ i \in StoredServers
      BY <2>1, <2>3 DEF StoredServers
    <2>5. \A i \in StoredServers : i # l.sid => i \in StoredServers'
      BY <2>1, <2>3 DEF StoredServers
    <2>6. Shrinks
      BY <2>1, <2>3 DEF Shrinks, SourceFound, StoredSources
    <2>7. CalmActive(n)'
      BY <2>1, <2>2, <2>6, ShrinkFacts DEF Calm, CalmActive, At
    <2>8. CalmOrphans(n)'
      BY <2>1, <2>2, <2>4, <2>5, <2>6, ShrinkFacts
         DEF Calm, CalmOrphans, At, Building
    <2> QED BY <2>1, <2>2, <2>7, <2>8 DEF Settles, Calm
  <1> QED BY <1>3, <1>4, <1>5, <1>6, <1>7, <1>8, <1>9, <1>10, <1>11
          DEF SourcesStep

LEMMA DeactivateShrinks ==
  ASSUME IInv, UNCHANGED sourceVars, NEW i \in StoredServers, Deactivate(i)
  PROVE  Shrinks /\ ~servers'[i].active /\ StoredServers' = StoredServers
  <1> DEFINE rec == [servers[i] EXCEPT !.active = FALSE]
  <1>1. /\ servers \in [ServerIds -> Server \cup {Absent}]
        /\ i \in ServerIds /\ servers[i] \in Server
    BY DEF IInv, TypeOK, StoredServers
  <1>2. /\ rec \in Server /\ rec # Absent /\ ~rec.active
        /\ rec.org = servers[i].org /\ rec.src = servers[i].src
    <2>1. /\ rec \in Server /\ ~rec.active
          /\ rec.org = servers[i].org /\ rec.src = servers[i].src
      BY <1>1 DEF Server
    <2> QED BY <2>1, ResourcesAssumption
  <1>3. servers' = [servers EXCEPT ![i] = rec] /\ sources' = sources
    BY DEF Deactivate, sourceVars
  <1> HIDE DEF rec
  <1>4. /\ servers'[i] = rec
        /\ \A x \in ServerIds : x # i => servers'[x] = servers[x]
    BY <1>1, <1>3
  <1>5. StoredServers' = StoredServers
    BY <1>2, <1>4 DEF StoredServers
  <1>6. Shrinks
    BY <1>2, <1>3, <1>4 DEF Shrinks, SourceFound, StoredSources, StoredServers
  <1> QED BY <1>2, <1>4, <1>5, <1>6

LEMMA DeleteShrinks ==
  ASSUME IInv, NEW r \in Requests, NEW next, DeleteServer(r, next)
  PROVE  Shrinks
  <1>1. servers \in [ServerIds -> Server \cup {Absent}] /\ sources' = sources
    BY DEF IInv, TypeOK, DeleteServer, sourceVars
  <1> QED BY <1>1 DEF DeleteServer, Shrinks, SourceFound, StoredSources

\* A server whose source is there is stored active, while no other one of the
\* organization is active, or inactive, in place of one of the organization.
LEMMA StoreCalm ==
  ASSUME IInv, UNCHANGED sourceVars, NEW i \in ServerIds, NEW rec \in Server,
         servers' = [servers EXCEPT ![i] = rec],
         servers[i] # Absent => servers[i].org = rec.org,
         SourceFound(rec.src, rec.org),
         NEW l \in Local, Calm(l), l.pc \notin Unfinished, l.org = rec.org,
         rec.active => ActiveServersOf(l.org) = {},
         NEW n \in Local, Plain(n)
  PROVE  Calm(n)'
  <1>1. /\ servers \in [ServerIds -> Server \cup {Absent}] /\ rec # Absent
        /\ sources' = sources
    BY ResourcesAssumption DEF IInv, TypeOK, sourceVars
  <1>2. /\ servers'[i] = rec
        /\ \A x \in ServerIds : x # i => servers'[x] = servers[x]
    BY <1>1
  <1>3. ASSUME NEW o \in Orgs
        PROVE  OneActiveIn(o)'
    <2>1. \A x \in ActiveServersOf(o)' :
            x \in ServerIds /\ (x # i => x \in ActiveServersOf(o))
      BY <1>2 DEF ActiveServersOf, ServersOf, StoredServers
    <2>2. OneActiveIn(o)
      BY DEF Calm, CalmActive, Unfinished
    <2>3. CASE o # rec.org
      BY <1>2, <2>1, <2>2, <2>3
         DEF OneActiveIn, ActiveServersOf, ServersOf, StoredServers
    <2>4. CASE o = rec.org /\ rec.active
      BY <2>1, <2>4 DEF OneActiveIn
    <2>5. CASE ~rec.active
      <3>1. i \notin ActiveServersOf(o)'
        BY <1>2, <2>5 DEF ActiveServersOf
      <3> QED BY <2>1, <2>2, <3>1 DEF OneActiveIn
    <2> QED BY <2>3, <2>4, <2>5
  <1>4. \A x \in StoredServers' : ~Orphan(x)'
    <2> SUFFICES ASSUME NEW x \in StoredServers' PROVE ~Orphan(x)'
      OBVIOUS
    <2>1. CASE x = i
      BY <1>1, <1>2, <2>1 DEF Orphan, SourceFound, StoredSources
    <2>2. CASE x # i
      <3>1. x \in StoredServers /\ servers'[x] = servers[x]
        BY <1>2, <2>2 DEF StoredServers
      <3>2. ~Orphan(x)
        BY <3>1 DEF Calm, CalmOrphans, Unfinished
      <3> QED BY <1>1, <3>1, <3>2 DEF Orphan, SourceFound, StoredSources
    <2> QED BY <2>1, <2>2
  <1> QED BY <1>3, <1>4
          DEF Calm, CalmActive, CalmOrphans, Plain, Unfinished, Building

LEMMA ServersSettle ==
  ASSUME IInv, NEW r \in Requests, ServersStep(r), Calm(req[r])
  PROVE  Settles(r)
  <1> DEFINE l == req[r]
  <1> USE LabelFacts, IdleFacts, IdlePlain
  <1>1. l \in Local /\ Scoped(l, servers, serverSeq)
    BY DEF IInv, TypeOK
  <1>2. /\ servers \in [ServerIds -> Server \cup {Absent}]
        /\ serverSeq \in Nat
    BY ResourcesAssumption DEF IInv, TypeOK
  <1>3. CASE NewServerSource(r)
    <2>1. At(r, "nk.src") /\ Reads
      BY <1>3 DEF NewServerSource
    <2>2. CASE SourceFound(l.src, l.org) /\ Goto(r, "reset.all")
      <3> DEFINE n == [l EXCEPT !.pc = "reset.all"]
      <3>1. /\ n \in Local /\ n.pc = "reset.all" /\ n.org = l.org
            /\ n.rec = l.rec /\ Go(r, n)
        BY <1>1, <2>2, LabelMove DEF Goto
      <3> HIDE DEF n
      <3>2. Calm(n)
        BY <2>1, <2>2, <3>1 DEF Calm, CalmActive, CalmOrphans, At, Building
      <3> QED BY <2>1, <3>1, <3>2, ReadSettles
    <2> QED BY <1>3, <2>1, <2>2, FinishSettles
            DEF NewServerSource, At, Unfinished
  <1>4. CASE ResetList(r)
    <2> DEFINE S == ActiveServersOf(l.org)
               n == [l EXCEPT !.pc = "reset.put", !.left = S]
    <2>1. At(r, "reset.all") /\ Go(r, n) /\ Reads
      BY <1>4 DEF ResetList
    <2>2. S \in SUBSET ServerIds /\ S \subseteq StoredServers
      BY DEF ActiveServersOf, ServersOf, StoredServers
    <2> HIDE DEF S
    <2>3. /\ n \in Local /\ n.pc = "reset.put" /\ n.org = l.org /\ n.left = S
          /\ n.rec = l.rec
      BY <1>1, <2>2 DEF Local
    <2> HIDE DEF n
    <2>4. CalmActive(n)
      BY <2>1, <2>2, <2>3 DEF Calm, CalmActive, At, S
    <2>5. CalmOrphans(n)
      BY <2>1, <2>3 DEF Calm, CalmOrphans, At, Building
    <2> QED BY <2>1, <2>3, <2>4, <2>5, ReadSettles DEF Calm
  <1>5. CASE ResetOne(r)
    <2>1. /\ At(r, "reset.put") /\ UNCHANGED <<sourceVars, serverSeq>>
          /\ l.pc = "reset.put"
      BY <1>5 DEF ResetOne, At
    <2>2. /\ ActiveServersOf(l.org) \subseteq l.left
          /\ l.left \subseteq StoredServers
          /\ SourceFound(l.rec.src, l.org)
      BY <2>1 DEF Calm, CalmActive, CalmOrphans, Building
    <2>3. ASSUME NEW i \in First(l.left) \cap StoredServers, Deactivate(i),
                 Go(r, [l EXCEPT !.left = @ \ {i}])
          PROVE  Settles(r)
      <3>1. i \in ServerIds
        BY DEF StoredServers
      <3>2. PICK n \in Local :
              /\ n.pc = "reset.put" /\ n.org = l.org /\ n.left = l.left \ {i}
              /\ n.rec = l.rec /\ req' = [req EXCEPT ![r] = n]
        BY <1>1, <2>1, <2>3, <3>1, VisitFacts DEF Go
      <3>3. Shrinks /\ ~servers'[i].active /\ StoredServers' = StoredServers
        BY <2>1, <2>3, DeactivateShrinks
      <3>4. CalmActive(n)'
        <4>1. \A o \in Orgs : OneActiveIn(o)' \/ o = n.org
          BY <3>2, <3>3, ShrinkFacts DEF Calm, CalmActive
        <4>2. ActiveServersOf(n.org)' \subseteq n.left
          <5>1. i \notin ActiveServersOf(l.org)'
            BY <3>3 DEF ActiveServersOf
          <5>2. ActiveServersOf(n.org)' \subseteq ActiveServersOf(n.org)
            BY <3>3, ShrinkFacts
          <5>3. i \notin ActiveServersOf(n.org)'
            BY <3>2, <3>3 DEF ActiveServersOf
          <5> QED BY <2>2, <3>2, <5>2, <5>3
        <4>3. n.left \subseteq StoredServers'
          BY <2>2, <3>2, <3>3
        <4> QED BY <3>2, <4>1, <4>2, <4>3 DEF CalmActive
      <3>5. CalmOrphans(n)'
        <4>1. SourceFound(n.rec.src, n.org)'
          BY <2>1, <2>2, <3>2 DEF SourceFound, StoredSources, sourceVars
        <4>2. \A x \in StoredServers' : ~Orphan(x)'
          BY <2>1, <3>3, ShrinkFacts DEF Calm, CalmOrphans
        <4> QED BY <3>2, <4>1, <4>2 DEF CalmOrphans, Building
      <3> QED BY <3>2, <3>4, <3>5 DEF Settles, Calm
    <2>4. ASSUME NEW i \in First(l.left) \ StoredServers
          PROVE  FALSE
      BY <2>2 DEF First
    <2>5. CASE l.left = {} /\ Goto(r, AfterReset(l)) /\ UNCHANGED servers
      <3> DEFINE p == AfterReset(l)
                 n == [l EXCEPT !.pc = p]
      <3>1. p \in Labels /\ p \in {"nk.add", "upd.put"}
        BY DEF AfterReset
      <3> HIDE DEF p
      <3>2. /\ n \in Local /\ n.pc = p /\ n.org = l.org /\ n.rec = l.rec
            /\ Go(r, n)
        BY <1>1, <2>5, <3>1, LabelMove DEF Goto, p
      <3> HIDE DEF n
      <3>3. CalmActive(n)
        <4>1. ActiveServersOf(n.org) = {}
          BY <2>2, <2>5, <3>2
        <4>2. \A o \in Orgs : OneActiveIn(o)
          BY <3>2, <4>1 DEF Calm, CalmActive, OneActiveIn
        <4> QED BY <3>1, <3>2, <4>1, <4>2 DEF CalmActive
      <3>4. CalmOrphans(n)
        BY <2>1, <2>2, <3>1, <3>2 DEF Calm, CalmOrphans, Building
      <3>5. Reads
        BY <2>1, <2>5 DEF Reads, sourceVars, serverVars
      <3> QED BY <3>2, <3>3, <3>4, <3>5, ReadSettles DEF Calm
    <2> QED BY <1>5, <2>3, <2>4, <2>5 DEF ResetOne
  <1>6. CASE NewServerAdd(r)
    <2> DEFINE id == serverSeq + 1
    <2>1. At(r, "nk.add") /\ UNCHANGED sourceVars /\ l.pc = "nk.add"
      BY <1>6 DEF NewServerAdd, At
    <2>2. /\ l.rec \in Server /\ l.rec.org = l.org
          /\ ActiveServersOf(l.org) = {} /\ SourceFound(l.rec.src, l.org)
      BY <1>1, <2>1 DEF Scoped, Building, Calm, CalmActive, CalmOrphans
    <2>3. ASSUME serverSeq < MaxServers,
                 servers' = [servers EXCEPT ![id] = l.rec],
                 NEW n \in Local, Plain(n), req' = [req EXCEPT ![r] = n]
          PROVE  Settles(r)
      <3>1. id \in ServerIds /\ servers[id] = Absent
        BY <1>2, <2>3, ResourcesAssumption
           DEF ServerIds, IInv, SeqOK, StoredServers
      <3> HIDE DEF id
      <3>2. Calm(n)'
        BY <1>1, <2>1, <2>2, <2>3, <3>1, StoreCalm DEF Unfinished
      <3> QED BY <2>3, <3>2 DEF Settles
    <2>4. CASE serverSeq = MaxServers /\ Finish(r) /\ UNCHANGED serverVars
      BY <2>1, <2>4, FinishSettles
         DEF Reads, sourceVars, serverVars, Unfinished
    <2>5. ASSUME serverSeq < MaxServers
          PROVE  LET n == [l EXCEPT !.pc = "deact.all", !.sid = id]
                 IN  n \in Local /\ Plain(n)
      <3>1. id \in ServerIds
        BY <1>2, <2>5, ResourcesAssumption DEF ServerIds
      <3> HIDE DEF id
      <3> DEFINE n == [l EXCEPT !.pc = "deact.all", !.sid = id]
      <3>2. n \in Local /\ n.pc = "deact.all"
        BY <1>1, <3>1 DEF Local
      <3> HIDE DEF n
      <3>3. Plain(n)
        BY <3>2 DEF Plain, Building, Unfinished
      <3> QED BY <3>2, <3>3 DEF n
    <2>6. Go(r, [l EXCEPT !.pc = "deact.all", !.sid = id]) \/ Finish(r)
      BY <1>6 DEF NewServerAdd
    <2> HIDE DEF l
    <2>7. CASE serverSeq < MaxServers /\ servers' = [servers EXCEPT ![id] = l.rec]
      BY <2>3, <2>5, <2>6, <2>7 DEF Go, Finish
    <2> QED BY <1>6, <2>4, <2>7 DEF NewServerAdd, l
  <1>7. CASE UpdateServerGet(r)
    <2>1. At(r, "uk.get") /\ Reads /\ l.pc = "uk.get"
      BY <1>7 DEF UpdateServerGet, At
    <2>2. ASSUME NEW a \in BOOLEAN, NEW b \in BOOLEAN, ServerFound(l.sid, l.org),
                 Go(r, [l EXCEPT !.pc = "upd.get", !.activate = a,
                          !.src = servers[l.sid].src,
                          !.rec = [servers[l.sid] EXCEPT !.active = b]])
          PROVE  Settles(r)
      <3> DEFINE rec == [servers[l.sid] EXCEPT !.active = b]
                 src == servers[l.sid].src
                 n == [l EXCEPT !.pc = "upd.get", !.activate = a, !.src = src,
                         !.rec = rec]
      <3>1. /\ servers[l.sid] \in Server /\ servers[l.sid].org = l.org
            /\ l.sid \in StoredServers
        BY <1>2, <2>2 DEF ServerFound, ServersOf, StoredServers
      <3>2. rec \in Server /\ rec.src = src /\ src \in SourceIds
        BY <3>1 DEF Server
      <3>3. SourceFound(src, l.org)
        BY <2>1, <3>1 DEF Calm, CalmOrphans, Orphan
      <3>4. Go(r, n)
        BY <2>2
      <3> HIDE DEF rec, src
      <3>5. /\ n \in Local /\ n.pc = "upd.get" /\ n.org = l.org /\ n.rec = rec
        BY <1>1, <3>2 DEF Local
      <3> HIDE DEF n
      <3>6. CalmActive(n)
        BY <2>1, <3>5 DEF Calm, CalmActive
      <3>7. CalmOrphans(n)
        BY <2>1, <3>2, <3>3, <3>5 DEF Calm, CalmOrphans, Building
      <3> QED BY <2>1, <3>4, <3>5, <3>6, <3>7, ReadSettles DEF Calm
    <2>3. ServerFound(l.sid, l.org) => servers[l.sid].active \in BOOLEAN
      BY <1>2 DEF ServerFound, ServersOf, StoredServers, Server
    <2> QED BY <1>7, <2>1, <2>2, <2>3, FinishSettles
            DEF UpdateServerGet, Unfinished
  <1>8. CASE FacadeUpdateGet(r)
    <2>1. At(r, "upd.get") /\ Reads /\ l.pc = "upd.get"
      BY <1>8 DEF FacadeUpdateGet, At
    <2>2. ASSUME NEW p \in {"reset.all", "upd.put"}, Goto(r, p),
                 p = "upd.put" => ~l.rec.active
          PROVE  Settles(r)
      <3> DEFINE n == [l EXCEPT !.pc = p]
      <3>1. /\ n \in Local /\ n.pc = p /\ n.org = l.org /\ n.rec = l.rec
            /\ Go(r, n)
        BY <1>1, <2>2, LabelMove DEF Goto
      <3> HIDE DEF n
      <3>2. CalmActive(n)
        BY <2>1, <2>2, <3>1 DEF Calm, CalmActive
      <3>3. CalmOrphans(n)
        BY <2>1, <2>2, <3>1 DEF Calm, CalmOrphans, Building
      <3> QED BY <2>1, <3>1, <3>2, <3>3, ReadSettles DEF Calm
    <2> QED BY <1>8, <2>1, <2>2, FinishSettles DEF FacadeUpdateGet, Unfinished
  <1>9. CASE UpdateServerPut(r)
    <2>1. /\ At(r, "upd.put") /\ UNCHANGED <<sourceVars, serverSeq>>
          /\ l.pc = "upd.put"
      BY <1>9 DEF UpdateServerPut, At
    <2>2. /\ l.rec \in Server /\ l.rec.org = l.org
          /\ l.rec.active => ActiveServersOf(l.org) = {}
          /\ SourceFound(l.rec.src, l.org)
      BY <1>1, <2>1 DEF Scoped, Building, Calm, CalmActive, CalmOrphans
    <2>3. CASE /\ l.sid \in StoredServers
               /\ servers' = [servers EXCEPT ![l.sid] = l.rec]
               /\ Goto(r, "deact.all") \/ Finish(r)
      <3>1. l.sid \in ServerIds /\ servers[l.sid] # Absent
        BY <2>3 DEF StoredServers
      <3>2. servers[l.sid].org = l.org
        BY <1>1, <2>1, <3>1 DEF Scoped, Looking
      <3>3. PICK n \in Local : Plain(n) /\ req' = [req EXCEPT ![r] = n]
        <4>1. CASE Finish(r)
          BY <4>1 DEF Finish, Go
        <4>2. CASE Goto(r, "deact.all")
          <5> DEFINE n == [l EXCEPT !.pc = "deact.all"]
          <5>1. n \in Local /\ n.pc = "deact.all" /\ Go(r, n)
            BY <1>1, <4>2, LabelMove DEF Goto
          <5> HIDE DEF n
          <5> QED BY <5>1 DEF Go, Plain, Building, Unfinished
        <4> QED BY <2>3, <4>1, <4>2
      <3>4. Calm(n)'
        BY <1>1, <2>1, <2>2, <2>3, <3>1, <3>2, <3>3, StoreCalm DEF Unfinished
      <3> QED BY <3>3, <3>4 DEF Settles
    <2>4. CASE UNCHANGED servers /\ Finish(r)
      BY <2>1, <2>4, FinishSettles
         DEF Reads, sourceVars, serverVars, Unfinished
    <2> QED BY <1>9, <2>3, <2>4 DEF UpdateServerPut
  <1>10. CASE DeactivateList(r)
    <2> DEFINE S == {i \in ActiveServersOf(l.org) \ {l.sid} :
                       servers[i].src = l.src /\ servers[i].kapacitor}
               n == [l EXCEPT !.pc = "deact.put", !.left = S]
    <2>1. At(r, "deact.all") /\ Go(r, n) /\ Reads /\ l.pc = "deact.all"
      BY <1>10 DEF DeactivateList, At
    <2>2. S \in SUBSET ServerIds
      BY DEF ActiveServersOf, ServersOf, StoredServers
    <2> HIDE DEF S
    <2>3. n \in Local /\ n.pc = "deact.put"
      BY <1>1, <2>2 DEF Local
    <2> HIDE DEF n
    <2>4. Calm(n)
      BY <1>1, <2>1, <2>3, CalmRest DEF Building, Unfinished
    <2> QED BY <2>1, <2>3, <2>4, ReadSettles
  <1>11. CASE DeactivateOne(r)
    <2>1. /\ At(r, "deact.put") /\ UNCHANGED <<sourceVars, serverSeq>>
          /\ l.pc = "deact.put"
      BY <1>11 DEF DeactivateOne, At
    <2>2. Shrinks
      <3>1. CASE UNCHANGED servers
        BY <2>1, <3>1 DEF Shrinks, SourceFound, StoredSources, sourceVars
      <3>2. ASSUME NEW i \in StoredServers, Deactivate(i)
            PROVE  Shrinks
        BY <2>1, <3>2, DeactivateShrinks
      <3> QED BY <1>11, <3>1, <3>2 DEF DeactivateOne
    <2>3. ASSUME NEW i \in First(l.left), Go(r, [l EXCEPT !.left = @ \ {i}])
          PROVE  Settles(r)
      <3> DEFINE n == [l EXCEPT !.left = @ \ {i}]
      <3>1. i \in ServerIds
        BY <1>1 DEF First, Local
      <3>2. n \in Local /\ n.pc = "deact.put" /\ Go(r, n)
        BY <1>1, <2>1, <2>3, <3>1, VisitFacts
      <3> HIDE DEF n
      <3> QED BY <2>1, <2>2, <3>2, ShrinkSettles DEF Plain, Building, Unfinished
    <2>4. CASE Finish(r)
      BY <2>1, <2>2, <2>4, ShrinkSettles DEF Finish, Unfinished
    <2> QED BY <1>11, <2>3, <2>4 DEF DeactivateOne
  <1>12. ASSUME NEW p \in {"rk.kget", "rk.del"}, Goto(r, p), Reads,
                l.pc \notin Unfinished
         PROVE  Settles(r)
    <2> DEFINE n == [l EXCEPT !.pc = p]
    <2>1. n \in Local /\ n.pc = p /\ Go(r, n)
      BY <1>1, <1>12, LabelMove DEF Goto
    <2> HIDE DEF n
    <2>2. Calm(n)
      BY <1>1, <1>12, <2>1, CalmRest DEF Building, Unfinished
    <2> QED BY <1>12, <2>1, <2>2, ReadSettles
  <1>13. CASE RemoveServerGet(r) \/ RemoveServerFacadeGet(r)
    <2>1. /\ Reads /\ l.pc \notin Unfinished
          /\ Goto(r, "rk.kget") \/ Goto(r, "rk.del") \/ Finish(r)
      BY <1>13 DEF RemoveServerGet, RemoveServerFacadeGet, At, Unfinished
    <2> QED BY <1>12, <2>1, FinishSettles
  <1>14. CASE RemoveServerDelete(r)
    <2>1. At(r, "rk.del") /\ DeleteServer(r, Finish(r)) /\ Finish(r)
      BY <1>14 DEF RemoveServerDelete, DeleteServer
    <2>2. Shrinks
      BY <2>1, DeleteShrinks
    <2> QED BY <2>1, <2>2, ShrinkSettles DEF Finish, At, Unfinished
  <1> QED BY <1>3, <1>4, <1>5, <1>6, <1>7, <1>8, <1>9, <1>10, <1>11, <1>13,
             <1>14 DEF ServersStep

\* A request of the only handler begins where nothing is unfinished.
LEMMA BeginSettles ==
  ASSUME IInv, NEW r \in Requests, BeginRequest(r), Calm(Idle)
  PROVE  Settles(r)
  <1> USE IdleFacts, LabelFacts
  <1>1. SeenSources \subseteq SourceIds /\ SeenServers \subseteq ServerIds
    BY DEF SeenSources, SeenServers
  <1>2. ASSUME NEW l \in Local, Begin(r, l), Plain(l)
        PROVE  Settles(r)
    <2>1. sources' = sources /\ servers' = servers
      BY <1>2 DEF Begin, Reads, sourceVars, serverVars
    <2>2. Shrinks
      BY <2>1 DEF Shrinks, SourceFound, StoredSources
    <2>3. Calm(l)
      BY <1>2, CalmRest DEF Plain, Unfinished
    <2> QED BY <1>2, <2>2, <2>3, ShrinkCalm DEF Settles, Begin
  <1>3. CASE BeginNewSource(r)
    <2>1. PICK o \in Orgs, d \in BOOLEAN :
            Begin(r, [Idle EXCEPT !.org = o, !.op = "NewSource",
                        !.pc = "ns.all", !.default = d])
      BY <1>3 DEF BeginNewSource
    <2> DEFINE l == [Idle EXCEPT !.org = o, !.op = "NewSource",
                       !.pc = "ns.all", !.default = d]
    <2>2. l \in Local /\ l.pc = "ns.all"
      BY <1>1 DEF Local
    <2> HIDE DEF l
    <2>3. Plain(l)
      BY <2>2 DEF Plain, Building, Unfinished
    <2> QED BY <1>2, <2>1, <2>2, <2>3 DEF l
  <1>4. CASE BeginUpdateSource(r)
    <2>1. PICK o \in Orgs, s \in SeenSources, d \in BOOLEAN :
            Begin(r, [Idle EXCEPT !.org = o, !.op = "UpdateSource",
                        !.pc = "us.get", !.src = s, !.default = d])
      BY <1>4 DEF BeginUpdateSource
    <2> DEFINE l == [Idle EXCEPT !.org = o, !.op = "UpdateSource",
                       !.pc = "us.get", !.src = s, !.default = d]
    <2>2. l \in Local /\ l.pc = "us.get"
      BY <1>1 DEF Local
    <2> HIDE DEF l
    <2>3. Plain(l)
      BY <2>2 DEF Plain, Building, Unfinished
    <2> QED BY <1>2, <2>1, <2>2, <2>3 DEF l
  <1>5. CASE BeginRemoveSource(r)
    <2>1. PICK o \in Orgs, s \in SeenSources :
            Begin(r, [Idle EXCEPT !.org = o, !.op = "RemoveSource",
                        !.pc = "rs.get", !.src = s])
      BY <1>5 DEF BeginRemoveSource
    <2> DEFINE l == [Idle EXCEPT !.org = o, !.op = "RemoveSource",
                       !.pc = "rs.get", !.src = s]
    <2>2. l \in Local /\ l.pc = "rs.get"
      BY <1>1 DEF Local
    <2> HIDE DEF l
    <2>3. Plain(l)
      BY <2>2 DEF Plain, Building, Unfinished
    <2> QED BY <1>2, <2>1, <2>2, <2>3 DEF l
  <1>6. CASE BeginUpdateServer(r)
    <2>1. PICK o \in Orgs, i \in SeenServers :
            Begin(r, [Idle EXCEPT !.org = o, !.op = "UpdateServer",
                        !.pc = "uk.get", !.sid = i])
      BY <1>6 DEF BeginUpdateServer
    <2> DEFINE l == [Idle EXCEPT !.org = o, !.op = "UpdateServer",
                       !.pc = "uk.get", !.sid = i]
    <2>2. l \in Local /\ l.pc = "uk.get"
      BY <1>1 DEF Local
    <2> HIDE DEF l
    <2>3. Plain(l)
      BY <2>2 DEF Plain, Building, Unfinished
    <2> QED BY <1>2, <2>1, <2>2, <2>3 DEF l
  <1>7. CASE BeginRemoveServer(r)
    <2>1. PICK o \in Orgs, i \in SeenServers :
            Begin(r, [Idle EXCEPT !.org = o, !.op = "RemoveServer",
                        !.pc = "rk.get", !.sid = i])
      BY <1>7 DEF BeginRemoveServer
    <2> DEFINE l == [Idle EXCEPT !.org = o, !.op = "RemoveServer",
                       !.pc = "rk.get", !.sid = i]
    <2>2. l \in Local /\ l.pc = "rk.get"
      BY <1>1 DEF Local
    <2> HIDE DEF l
    <2>3. Plain(l)
      BY <2>2 DEF Plain, Building, Unfinished
    <2> QED BY <1>2, <2>1, <2>2, <2>3 DEF l
  <1>8. CASE BeginNewServer(r)
    <2>1. PICK o \in Orgs, s \in SeenSources, k \in BOOLEAN :
            Begin(r, [Idle EXCEPT !.org = o, !.op = "NewServer",
                        !.pc = "nk.src", !.src = s, !.activate = k,
                        !.rec = [org |-> o, src |-> s, kapacitor |-> k,
                                 active |-> TRUE]])
      BY <1>8 DEF BeginNewServer
    <2> DEFINE rec == [org |-> o, src |-> s, kapacitor |-> k, active |-> TRUE]
               l == [Idle EXCEPT !.org = o, !.op = "NewServer",
                       !.pc = "nk.src", !.src = s, !.activate = k, !.rec = rec]
    <2>2. rec \in Server /\ rec.src = s
      BY <1>1 DEF Server
    <2>3. Begin(r, l)
      BY <2>1
    <2> HIDE DEF rec
    <2>4. l \in Local /\ l.pc = "nk.src" /\ l.rec.src = l.src
      BY <1>1, <2>2 DEF Local
    <2> HIDE DEF l
    <2>5. sources' = sources /\ servers' = servers
      BY <2>3 DEF Begin, Reads, sourceVars, serverVars
    <2>6. Calm(l)
      BY <2>4 DEF Calm, CalmActive, CalmOrphans, Building
    <2> QED BY <2>3, <2>4, <2>5, <2>6, CalmKept DEF Begin, Settles
  <1> QED BY <1>3, <1>4, <1>5, <1>6, <1>7, <1>8 DEF BeginRequest

LEMMA StepBusy ==
  ASSUME NEW r \in Requests, Step(r)
  PROVE  ~At(r, "idle") /\ disturbed' = disturbed
  <1>1. ~At(r, "idle")
    BY DEF Step, SourcesStep, ServersStep, NewSourceAll, NewSourceAdd,
           UpdateSourceGet, UpdateSourcePut, RemoveSourceGet,
           RemoveSourceDelete, RemoveSourceList, RemoveSourceServerGet,
           RemoveSourceServerDelete, NewServerSource, ResetList, ResetOne,
           NewServerAdd, UpdateServerGet, FacadeUpdateGet, UpdateServerPut,
           DeactivateList, DeactivateOne, RemoveServerGet,
           RemoveServerFacadeGet, RemoveServerDelete, At
  <1>2. disturbed' = disturbed
    <2>1. \A l : Go(r, l) => disturbed' = disturbed
      BY DEF Go
    <2>2. Finish(r) => disturbed' = disturbed
      BY <2>1 DEF Finish
    <2>3. \A p : Goto(r, p) => disturbed' = disturbed
      BY <2>1 DEF Goto
    <2>4. SourcesStep(r) => disturbed' = disturbed
      BY <2>1, <2>2, <2>3
         DEF SourcesStep, NewSourceAll, NewSourceAdd, UpdateSourceGet,
             UpdateSourcePut, RemoveSourceGet, RemoveSourceDelete,
             RemoveSourceList, RemoveSourceServerGet, RemoveSourceServerDelete,
             DeleteServer
    <2>5. ServersStep(r) => disturbed' = disturbed
      BY <2>1, <2>2, <2>3
         DEF ServersStep, NewServerSource, ResetList, ResetOne, NewServerAdd,
             UpdateServerGet, FacadeUpdateGet, UpdateServerPut, DeactivateList,
             DeactivateOne, RemoveServerGet, RemoveServerFacadeGet,
             RemoveServerDelete, DeleteServer
    <2> QED BY <2>4, <2>5 DEF Step
  <1> QED BY <1>1, <1>2

LEMMA AloneNext == IInv /\ SourceSeqOK /\ AloneInv /\ [Next]_vars => AloneInv'
  <1> SUFFICES ASSUME IInv, SourceSeqOK, AloneInv, [Next]_vars, ~disturbed'
               PROVE  AloneInv'
    BY DEF AloneInv
  <1>1. CASE UNCHANGED vars
    BY <1>1 DEF vars, AloneInv, Calm, CalmActive, CalmOrphans, OneActiveIn,
                ActiveServersOf, ServersOf, StoredServers, Orphan, SourceFound,
                StoredSources, At
  <1>2. ~Crash
    BY DEF Crash
  <1>3. ASSUME NEW r \in Requests, Settles(r),
               \A q \in Requests \ {r} : At(q, "idle")
        PROVE  AloneInv'
    <2>1. PICK n \in Local : req' = [req EXCEPT ![r] = n] /\ Calm(n)'
      BY <1>3 DEF Settles
    <2>2. req'[r] = n /\ \A q \in Requests \ {r} : req'[q] = req[q]
      BY <2>1 DEF IInv, TypeOK
    <2>3. n.pc = "idle" => Calm(Idle)'
      BY <2>1, IdleFacts
         DEF Calm, CalmActive, CalmOrphans, Building
    <2> QED BY <1>3, <2>1, <2>2, <2>3 DEF AloneInv, At
  <1>4. ASSUME NEW r \in Requests, Step(r)
        PROVE  AloneInv'
    <2>1. ~At(r, "idle") /\ ~disturbed
      BY <1>4, StepBusy
    <2>2. Calm(req[r]) /\ \A q \in Requests \ {r} : At(q, "idle")
      BY <2>1 DEF AloneInv
    <2>3. Settles(r)
      BY <1>4, <2>2, SourcesSettle, ServersSettle DEF Step
    <2> QED BY <1>3, <2>2, <2>3
  <1>5. ASSUME NEW r \in Requests, BeginRequest(r)
        PROVE  AloneInv'
    <2>1. /\ At(r, "idle") /\ ~disturbed
          /\ \A q \in Requests \ {r} : At(q, "idle")
      BY <1>5 DEF BeginRequest, BeginNewSource, BeginUpdateSource,
             BeginRemoveSource, BeginNewServer, BeginUpdateServer,
             BeginRemoveServer, Begin
    <2>2. Calm(Idle)
      BY <2>1 DEF AloneInv
    <2> QED BY <1>3, <1>5, <2>1, <2>2, BeginSettles
  <1> QED BY <1>1, <1>2, <1>4, <1>5 DEF Next

LEMMA AloneInit == Init => AloneInv
  <1> SUFFICES ASSUME Init PROVE AloneInv
    OBVIOUS
  <1>1. StoredServers = {} /\ StoredSources = {}
    BY DEF Init, StoredServers, StoredSources
  <1>2. Calm(Idle)
    BY <1>1, IdleFacts DEF Calm, CalmActive, CalmOrphans, OneActiveIn,
           ActiveServersOf, ServersOf, Building
  <1> QED BY <1>2, IdleFacts DEF Init, AloneInv, At

THEOREM AloneInvariant == Spec => []AloneInv
  BY AloneInit, AloneNext, SourceSeqInv, Invariant, PTL DEF Spec

\* After handlers that ran one at a time and to the end, an organization has
\* one active server at most, whatever sequence of them it was.
THEOREM OneActiveServer == Spec => []OneActiveAlone
  <1>1. AloneInv => OneActiveAlone
    BY IdleFacts DEF AloneInv, OneActiveAlone, OneActive, Undisturbed, Calm,
           CalmActive, OneActiveIn
  <1> QED BY <1>1, AloneInvariant, PTL

\* After such handlers every server belongs to a source of its organization:
\* the removal of a source has found, and deleted, all that were attached.
THEOREM NoOrphanServer == Spec => []NoOrphanAlone
  <1>1. AloneInv => NoOrphanAlone
    BY IdleFacts DEF AloneInv, NoOrphanAlone, Undisturbed, Calm, CalmOrphans,
           Orphan
  <1> QED BY <1>1, AloneInvariant, PTL
==============================================================================
