----------------------------- MODULE EtcdProofs ------------------------------
(****************************************************************************)
(* Proofs for every number of transactions, sources and commits, every      *)
(* interleaving, conflicts and timeouts included.                           *)
(****************************************************************************)
EXTENDS EtcdSources, TLAPS

Listing == {"upd.list", "del.list", "del.other"}

\* What the locals of a transaction keep.
Carries(l) ==
    /\ l.pc \in {"add.all", "add.list"} => l.op = "NewSource"
    /\ l.pc \in {"upd.get", "upd.list"} => l.op = "UpdateSource"
    /\ l.pc \in {"del.get", "del.list", "del.other"} => l.op = "RemoveSource"
    /\ l.pc \in Listing \cup {"upd.get", "del.get", "commit"} => l.id \in SourceIds
    /\ l.op = "NewSource" => l.rset = {}
    /\ l.pc \in Listing \/ (l.pc = "commit" /\ l.op # "NewSource") =>
         l.id \in l.rset /\ l.base.val[l.id] # "none"
    /\ l.pc \in {"del.list", "del.other"} => l.base.val[l.id] = "default"
    /\ l.pc = "del.other" => l.other \in SourceIds /\ l.base.val[l.other] # "none"

\* What it is going to write.
Buffered(l) ==
    l.pc = "commit" =>
      \/ /\ l.op \in {"NewSource", "UpdateSource"} /\ l.wset[l.id] = Flag(l.default)
         /\ ~l.default => \A s \in SourceIds : s # l.id => l.wset[s] = "keep"
      \/ /\ l.op = "RemoveSource" /\ l.base.val[l.id] # "default"
         /\ l.wset = [NoWrites EXCEPT ![l.id] = "none"]
      \/ /\ l.op = "RemoveSource" /\ l.base.val[l.id] = "default"
         /\ l.wset[l.id] = "none"
         /\ l.other \in SourceIds
         /\ l.other # l.id => l.wset[l.other] = "default"
         /\ l.other = l.id =>
              \A s \in SourceIds : s # l.id => l.wset[s] \in {"keep", "plain"}

\* The snapshot b a transaction reads from: a key that was not written since
\* has the value it had.
Snapshot(b, d) ==
    /\ b.rev <= d.rev
    /\ \A s \in SourceIds :
         /\ b.mod[s] <= b.rev
         /\ b.mod[s] = 0 <=> b.val[s] = "none"
         /\ d.mod[s] # 0 /\ d.mod[s] <= b.rev =>
              d.mod[s] = b.mod[s] /\ d.val[s] = b.val[s]

\* A removal that found no other source to make the default ...
Alone(l) ==
    /\ l.op = "RemoveSource" /\ l.pc \in {"del.other", "commit"}
    /\ l.base.val[l.id] = "default" /\ l.other = l.id

\* ... has listed no other, so that those there are were written since.
Guarded(l, d) ==
    Alone(l) =>
      \A s \in SourceIds : s # l.id /\ d.val[s] # "none" => d.mod[s] > l.base.rev

\* The sources that a transaction knows of, besides the one it adds.
Touches(l) ==
    {s \in SourceIds : l.base.val[s] # "none" \/ (s # l.id /\ l.wset[s] # "keep")}

Adds(l) == l.op = "NewSource" /\ l.pc = "commit"

\* An id is handed out once: nobody knows a source that is about to be added.
FreshIds ==
    /\ \A s \in StoredIn(db) : s <= seq
    /\ \A q \in Requests : \A s \in Touches(req[q]) : s <= seq
    /\ \A r \in Requests : Adds(req[r]) =>
         /\ req[r].id <= seq /\ req[r].id \notin StoredIn(db)
         /\ \A q \in Requests :
              /\ req[r].id \notin Touches(req[q])
              /\ q # r /\ Adds(req[q]) => req[q].id # req[r].id

Good(l, d) == Carries(l) /\ Buffered(l) /\ Snapshot(l.base, d)

\* The inductive invariant.
IInv ==
    /\ TypeOK
    /\ \A r \in Requests : Good(req[r], db)
    /\ \A r \in Requests : Guarded(req[r], db)
    /\ FreshIds

----------------------------------------------------------------------------
(* The locals. *)

LEMMA LabelFacts ==
  /\ "idle" \in Labels /\ "add.all" \in Labels /\ "add.list" \in Labels
  /\ "upd.get" \in Labels /\ "upd.list" \in Labels /\ "del.get" \in Labels
  /\ "del.list" \in Labels /\ "del.other" \in Labels /\ "commit" \in Labels
  BY DEF Labels

LEMMA IdFacts == \A s \in SourceIds : s \in Nat /\ s # 0
  BY EtcdAssumption DEF SourceIds

LEMMA EmptyFacts ==
  /\ Empty \in Databases /\ NoWrites \in [SourceIds -> Values \cup {"keep"}]
  /\ \A d \in Databases : Snapshot(Empty, d)
  <1>1. Empty \in Databases
    BY DEF Empty, Databases, Values
  <1>2. NoWrites \in [SourceIds -> Values \cup {"keep"}]
    BY DEF NoWrites
  <1>3. ASSUME NEW d \in Databases PROVE Snapshot(Empty, d)
    BY <1>3 DEF Snapshot, Empty, Databases
  <1> QED BY <1>1, <1>2, <1>3

LEMMA IdleFacts ==
  /\ Idle \in Local /\ Idle.pc = "idle" /\ Idle.op = "none"
  /\ Idle.rset = {} /\ Idle.base = Empty /\ Idle.default = FALSE
  /\ Idle.wset = NoWrites /\ Touches(Idle) = {}
  /\ \A d \in Databases : Good(Idle, d) /\ ~Alone(Idle)
  <1>1. Idle \in Local
    BY LabelFacts, EmptyFacts DEF Idle, Local
  <1>2. Idle.pc = "idle" /\ Idle.op = "none" /\ Idle.rset = {}
        /\ Idle.base = Empty /\ Idle.default = FALSE /\ Idle.wset = NoWrites
    BY DEF Idle
  <1>3. Carries(Idle) /\ Buffered(Idle) /\ ~Alone(Idle)
    BY <1>2 DEF Carries, Buffered, Alone, Listing
  <1>4. Touches(Idle) = {}
    BY <1>2 DEF Touches, Empty, NoWrites
  <1> QED BY <1>1, <1>2, <1>3, <1>4, EmptyFacts DEF Good

LEMMA DbFacts ==
  ASSUME TypeOK
  PROVE  /\ db \in Databases /\ Snapshot(db, db) /\ seq \in Nat
         /\ \A r \in Requests : req[r] \in Local
  <1>1. db \in Databases /\ seq \in Nat /\ \A r \in Requests : req[r] \in Local
    BY EtcdAssumption DEF TypeOK
  <1>2. Snapshot(db, db)
    BY <1>1 DEF TypeOK, Snapshot, Databases
  <1> QED BY <1>1, <1>2

----------------------------------------------------------------------------
(* Steps that leave the database alone. *)

\* What the step of transaction r knows afterwards: what it knew, and what is
\* stored.  If it adds a source, its id is a new one.
Hands(n, l) ==
    /\ Touches(n) \subseteq Touches(l) \cup StoredIn(db)
    /\ \/ seq' = seq /\ ~Adds(n)
       \/ seq' = seq + 1 /\ Adds(n) /\ n.id = seq + 1

\* All that such a step does.
Effect(r) == \E n \in Local :
    /\ db' = db /\ seq' \in 0 .. MaxSources
    /\ req' = [req EXCEPT ![r] = n]
    /\ Good(n, db) /\ Guarded(n, db) /\ Hands(n, req[r])

LEMMA FreshStep ==
  ASSUME TypeOK, FreshIds, NEW r \in Requests, NEW n \in Local, db' = db,
         req' = [req EXCEPT ![r] = n], Hands(n, req[r])
  PROVE  FreshIds'
  <1>1. req \in [Requests -> Local] /\ seq \in Nat
    BY DbFacts DEF TypeOK
  <1>2. req'[r] = n /\ \A q \in Requests : q # r => req'[q] = req[q]
    BY <1>1
  <1>3. StoredIn(db') = StoredIn(db) /\ StoredIn(db) \subseteq Nat
    BY IdFacts DEF StoredIn
  <1>4. \A l : Touches(l) \subseteq Nat
    BY IdFacts DEF Touches
  <1>5. seq' \in Nat /\ seq <= seq'
    BY <1>1 DEF Hands
  <1>6. \A s \in StoredIn(db') : s <= seq'
    BY <1>1, <1>3, <1>5 DEF FreshIds
  <1>7. ASSUME NEW q \in Requests, NEW s \in Touches(req'[q]) PROVE s <= seq'
    <2>1. s <= seq
      <3>1. CASE q = r
        BY <1>2, <1>7, <3>1 DEF FreshIds, Hands
      <3>2. CASE q # r
        BY <1>2, <1>7, <3>2 DEF FreshIds
      <3> QED BY <3>1, <3>2
    <2> QED BY <1>1, <1>4, <1>5, <1>7, <2>1
  <1>8. ASSUME NEW p \in Requests, Adds(req'[p])
        PROVE  /\ req'[p].id <= seq' /\ req'[p].id \notin StoredIn(db')
               /\ \A q \in Requests :
                    /\ req'[p].id \notin Touches(req'[q])
                    /\ q # p /\ Adds(req'[q]) => req'[q].id # req'[p].id
    <2>1. CASE p = r
      <3>1. seq' = seq + 1 /\ n.id = seq + 1
        BY <1>2, <1>8, <2>1 DEF Hands
      <3>2. n.id \notin StoredIn(db')
        BY <1>1, <1>3, <3>1 DEF FreshIds
      <3>3. \A q \in Requests : n.id \notin Touches(req[q])
        BY <1>1, <1>4, <3>1 DEF FreshIds
      <3>4. n.id \notin Touches(n)
        BY <1>3, <3>2, <3>3 DEF Hands
      <3>5. \A q \in Requests : Adds(req[q]) => req[q].id # n.id
        <4>1. \A q \in Requests : req[q].id \in Nat
          BY <1>1, IdFacts DEF Local
        <4> QED BY <1>1, <3>1, <4>1 DEF FreshIds
      <3> QED BY <1>1, <1>2, <2>1, <3>1, <3>2, <3>3, <3>4, <3>5
    <2>2. CASE p # r
      <3>1. /\ req'[p] = req[p] /\ req[p].id <= seq
            /\ req[p].id \notin StoredIn(db)
            /\ \A q \in Requests :
                 /\ req[p].id \notin Touches(req[q])
                 /\ q # p /\ Adds(req[q]) => req[q].id # req[p].id
        BY <1>2, <1>8, <2>2 DEF FreshIds
      <3>2. req[p].id \in Nat
        BY <1>1, IdFacts DEF Local
      <3>3. req[p].id <= seq'
        BY <1>1, <1>5, <3>1, <3>2
      <3>4. \A q \in Requests : req[p].id \notin Touches(req'[q])
        BY <1>2, <3>1 DEF Hands
      <3>5. Adds(n) => n.id # req[p].id
        BY <1>1, <3>1, <3>2 DEF Hands
      <3> QED BY <1>2, <1>3, <3>1, <3>3, <3>4, <3>5
    <2> QED BY <2>1, <2>2
  <1> QED BY <1>6, <1>7, <1>8 DEF FreshIds

LEMMA EffectInv ==
  ASSUME IInv, NEW r \in Requests, Effect(r)
  PROVE  IInv'
  <1>1. PICK n \in Local :
          /\ db' = db /\ seq' \in 0 .. MaxSources
          /\ req' = [req EXCEPT ![r] = n]
          /\ Good(n, db) /\ Guarded(n, db) /\ Hands(n, req[r])
    BY DEF Effect
  <1>2. req \in [Requests -> Local]
    BY DEF IInv, TypeOK
  <1>3. req'[r] = n /\ \A q \in Requests : q # r => req'[q] = req[q]
    BY <1>1, <1>2
  <1>4. TypeOK'
    BY <1>1, <1>2 DEF IInv, TypeOK
  <1>5. \A q \in Requests : Good(req'[q], db') /\ Guarded(req'[q], db')
    BY <1>1, <1>3 DEF IInv
  <1>6. FreshIds'
    BY <1>1, FreshStep DEF IInv
  <1> QED BY <1>4, <1>5, <1>6 DEF IInv

\* A transaction that is no lone removal has nothing to guard.
LEMMA PlainEffect ==
  ASSUME NEW r \in Requests, NEW n \in Local, Good(n, db), ~Alone(n),
         Go(r, n), db' = db, seq' \in 0 .. MaxSources, Hands(n, req[r])
  PROVE  Effect(r)
  BY DEF Effect, Go, Guarded

LEMMA FinishEffect ==
  ASSUME TypeOK, NEW r \in Requests, Finish(r), UNCHANGED <<db, seq>>
  PROVE  Effect(r)
  <1>1. Hands(Idle, req[r])
    BY IdleFacts DEF Hands, Adds
  <1> QED BY <1>1, PlainEffect, IdleFacts, DbFacts DEF Finish, TypeOK

LEMMA BeginEffect ==
  ASSUME IInv, NEW r \in Requests, BeginRequest(r)
  PROVE  Effect(r)
  <1>1. PICK op \in {"NewSource", "UpdateSource", "RemoveSource"},
             label \in {"add.all", "upd.get", "del.get"},
             id \in SourceIds \cup {0} :
          /\ Begin(r, op, label, id)
          /\ \/ op = "NewSource" /\ label = "add.all"
             \/ op = "UpdateSource" /\ label = "upd.get" /\ id \in SourceIds
             \/ op = "RemoveSource" /\ label = "del.get" /\ id \in SourceIds
    <2>1. \A s \in 1 .. seq : s \in SourceIds
      BY EtcdAssumption DEF IInv, TypeOK, SourceIds
    <2> QED BY <2>1 DEF BeginRequest
  <1>2. PICK d \in Flags :
          Go(r, [Idle EXCEPT !.op = op, !.pc = label, !.id = id, !.default = d])
    BY <1>1 DEF Begin
  <1> DEFINE n == [Idle EXCEPT !.op = op, !.pc = label, !.id = id, !.default = d]
  <1>3. n \in Local
    BY <1>1, IdleFacts, LabelFacts, EtcdAssumption DEF Local
  <1>4. n.op = op /\ n.pc = label /\ n.id = id /\ n.default = d /\ n.rset = {}
        /\ n.base = Empty /\ n.wset = NoWrites
    BY IdleFacts DEF Local
  <1> HIDE DEF n
  <1>5. Carries(n) /\ Buffered(n) /\ ~Alone(n)
    BY <1>1, <1>4 DEF Carries, Buffered, Alone, Listing
  <1>6. Snapshot(n.base, db)
    BY <1>4, DbFacts, EmptyFacts DEF IInv
  <1>7. Go(r, n)
    BY <1>2 DEF n
  <1>8. db' = db /\ seq' \in 0 .. MaxSources
    BY <1>1 DEF Begin, IInv, TypeOK
  <1>9. Hands(n, req[r])
    BY <1>1, <1>4 DEF Hands, Touches, Adds, Empty, NoWrites, Begin
  <1> QED BY <1>3, <1>5, <1>6, <1>7, <1>8, <1>9, PlainEffect DEF Good

LEMMA AddAllEffect ==
  ASSUME IInv, NEW r \in Requests, AddAll(r)
  PROVE  Effect(r)
  <1> DEFINE l == req[r]
             d == l.default \/ StoredIn(db) = {}
             n == [l EXCEPT !.pc = "add.list", !.default = d]
  <1>1. l \in Local /\ Good(l, db) /\ l.pc = "add.all" /\ l.op = "NewSource"
    BY DbFacts DEF IInv, AddAll, At, Good, Carries
  <1>2. d \in BOOLEAN
    BY <1>1 DEF Local
  <1>3. n \in Local
    BY <1>1, <1>2, LabelFacts DEF Local
  <1>4. n.op = "NewSource" /\ n.pc = "add.list" /\ n.default = d
        /\ n.rset = l.rset /\ n.base = l.base /\ n.wset = l.wset /\ n.id = l.id
    BY <1>1 DEF Local
  <1>5. Go(r, n) /\ db' = db /\ seq' = seq
    BY DEF AddAll
  <1> HIDE DEF n
  <1>6. Carries(n) /\ Buffered(n) /\ ~Alone(n) /\ Snapshot(n.base, db)
    BY <1>1, <1>2, <1>4 DEF Carries, Buffered, Alone, Good, Listing
  <1>7. Hands(n, l)
    BY <1>4, <1>5 DEF Hands, Touches, Adds
  <1> QED BY <1>3, <1>5, <1>6, <1>7, PlainEffect DEF Good, IInv, TypeOK

LEMMA WritesFacts ==
  ASSUME NEW l, NEW d \in BOOLEAN, NEW s \in SourceIds
  PROVE  /\ Writes(l, d, s) \in [SourceIds -> Values \cup {"keep"}]
         /\ Writes(l, d, s)[s] = Flag(d)
         /\ \A x \in SourceIds : x # s =>
              /\ Writes(l, d, s)[x] \in {"keep", "plain"}
              /\ Writes(l, d, s)[x] # "keep" => d /\ x \in StoredIn(db)
  BY DEF Writes, Flag, Values, DefaultsIn, StoredIn

LEMMA AddListEffect ==
  ASSUME IInv, NEW r \in Requests, AddList(r)
  PROVE  Effect(r)
  <1> DEFINE l == req[r]
  <1>1. l \in Local /\ Good(l, db) /\ l.pc = "add.list" /\ l.op = "NewSource"
    BY DbFacts DEF IInv, AddList, At, Good, Carries
  <1>2. CASE seq = MaxSources /\ Finish(r) /\ UNCHANGED seq
    BY <1>2, FinishEffect DEF AddList, IInv
  <1>3. CASE /\ seq < MaxSources /\ seq' = seq + 1
             /\ Go(r, [l EXCEPT !.pc = "commit", !.id = seq + 1,
                                !.wset = Writes(l, l.default, seq + 1)])
    <2> DEFINE id == seq + 1
               w == Writes(l, l.default, id)
               n == [l EXCEPT !.pc = "commit", !.id = id, !.wset = w]
    <2>1. id \in SourceIds /\ seq' \in 0 .. MaxSources
      BY <1>3, EtcdAssumption DEF SourceIds, IInv, TypeOK
    <2>2. l.default \in BOOLEAN
      BY <1>1 DEF Local
    <2>3. Go(r, n) /\ db' = db
      BY <1>3 DEF AddList
    <2> HIDE DEF id
    <2>4. /\ w \in [SourceIds -> Values \cup {"keep"}] /\ w[id] = Flag(l.default)
          /\ \A x \in SourceIds : x # id /\ w[x] # "keep" =>
               l.default /\ x \in StoredIn(db)
      BY <2>1, <2>2, WritesFacts
    <2> HIDE DEF w
    <2>5. n \in Local
      BY <1>1, <2>1, <2>4, LabelFacts DEF Local
    <2>6. n.op = "NewSource" /\ n.pc = "commit" /\ n.default = l.default
          /\ n.id = id /\ n.rset = l.rset /\ n.base = l.base /\ n.wset = w
      BY <1>1 DEF Local
    <2> HIDE DEF n
    <2>7. Carries(n) /\ Buffered(n) /\ ~Alone(n) /\ Snapshot(n.base, db)
      BY <1>1, <2>1, <2>4, <2>6 DEF Carries, Buffered, Alone, Good, Listing
    <2>8. seq' = seq + 1 /\ n.id = seq + 1
      BY <1>3, <2>6 DEF id
    <2>9. Hands(n, l)
      BY <2>4, <2>6, <2>8 DEF Hands, Touches, Adds
    <2> QED BY <2>1, <2>3, <2>5, <2>7, <2>9, PlainEffect DEF Good
  <1> QED BY <1>2, <1>3 DEF AddList

----------------------------------------------------------------------------
(* Updates and removals. *)

LEMMA AfterGetFacts ==
  ASSUME TypeOK, NEW l \in Local, l.op \in {"UpdateSource", "RemoveSource"},
         l.id \in SourceIds
  PROVE  /\ AfterGet(l, db) \in Local /\ Good(AfterGet(l, db), db)
         /\ ~Alone(AfterGet(l, db)) /\ ~Adds(AfterGet(l, db))
         /\ Touches(AfterGet(l, db)) \subseteq StoredIn(db)
  <1> DEFINE got == [l EXCEPT !.base = db, !.rset = {l.id}, !.wset = NoWrites]
  <1>1. db \in Databases /\ Snapshot(db, db)
    BY DbFacts
  <1>2. got \in Local
    BY <1>1, EmptyFacts DEF Local
  <1>3. got.op = l.op /\ got.pc = l.pc /\ got.id = l.id /\ got.base = db
        /\ got.rset = {l.id} /\ got.wset = NoWrites
    BY DEF Local
  <1> HIDE DEF got
  <1>4. CASE db.val[l.id] = "none"
    BY <1>1, <1>4, IdleFacts DEF AfterGet, Adds
  <1>5. CASE db.val[l.id] # "none" /\ l.op = "UpdateSource"
    <2> DEFINE n == [got EXCEPT !.pc = "upd.list"]
    <2>1. n \in Local
      BY <1>2, LabelFacts DEF Local
    <2>2. n.op = l.op /\ n.pc = "upd.list" /\ n.id = l.id /\ n.base = db
          /\ n.rset = {l.id} /\ n.wset = NoWrites
      BY <1>2, <1>3 DEF Local
    <2>3. AfterGet(l, db) = n
      BY <1>5 DEF AfterGet, got
    <2> HIDE DEF n
    <2> QED BY <1>1, <1>5, <2>1, <2>2, <2>3
            DEF Good, Carries, Buffered, Alone, Listing, Adds, Touches,
                StoredIn, NoWrites
  <1>6. CASE l.op = "RemoveSource" /\ db.val[l.id] = "default"
    <2> DEFINE n == [got EXCEPT !.pc = "del.list"]
    <2>1. n \in Local
      BY <1>2, LabelFacts DEF Local
    <2>2. n.op = l.op /\ n.pc = "del.list" /\ n.id = l.id /\ n.base = db
          /\ n.rset = {l.id} /\ n.wset = NoWrites
      BY <1>2, <1>3 DEF Local
    <2>3. AfterGet(l, db) = n
      BY <1>6 DEF AfterGet, got
    <2> HIDE DEF n
    <2> QED BY <1>1, <1>6, <2>1, <2>2, <2>3
            DEF Good, Carries, Buffered, Alone, Listing, Adds, Touches,
                StoredIn, NoWrites
  <1>7. CASE /\ db.val[l.id] # "none" /\ l.op = "RemoveSource"
             /\ db.val[l.id] # "default"
    <2> DEFINE w == [NoWrites EXCEPT ![l.id] = "none"]
               n == [got EXCEPT !.pc = "commit", !.wset = w]
    <2>1. w \in [SourceIds -> Values \cup {"keep"}]
      BY EmptyFacts DEF Values
    <2>2. AfterGet(l, db) = n
      BY <1>7 DEF AfterGet, got
    <2>3. w = [NoWrites EXCEPT ![l.id] = "none"]
      OBVIOUS
    <2> HIDE DEF w
    <2>4. n \in Local
      BY <1>2, <2>1, LabelFacts DEF Local
    <2>5. n.op = l.op /\ n.pc = "commit" /\ n.id = l.id /\ n.base = db
          /\ n.rset = {l.id} /\ n.wset = w
      BY <1>2, <1>3 DEF Local
    <2> HIDE DEF n
    <2>6. Carries(n) /\ ~Alone(n)
      BY <1>7, <2>5 DEF Carries, Alone, Listing
    <2>7. Buffered(n)
      BY <1>7, <2>3, <2>5 DEF Buffered
    <2>8. ~Adds(n) /\ Touches(n) \subseteq StoredIn(db)
      BY <1>7, <2>3, <2>5 DEF Adds, Touches, StoredIn, NoWrites
    <2> QED BY <1>1, <2>2, <2>4, <2>5, <2>6, <2>7, <2>8 DEF Good
  <1> QED BY <1>4, <1>5, <1>6, <1>7

LEMMA FirstGetEffect ==
  ASSUME IInv, NEW r \in Requests, FirstGet(r)
  PROVE  Effect(r)
  <1> DEFINE l == req[r]
  <1>1. l \in Local /\ Good(l, db) /\ l.pc \in {"upd.get", "del.get"}
    BY DbFacts DEF IInv, FirstGet, At
  <1>2. l.op \in {"UpdateSource", "RemoveSource"} /\ l.id \in SourceIds

    BY <1>1 DEF Good, Carries
  <1>3. Go(r, AfterGet(l, db)) /\ db' = db /\ seq' = seq
    BY DEF FirstGet
  <1>4. Hands(AfterGet(l, db), l)
    BY <1>1, <1>2, <1>3, AfterGetFacts DEF Hands, IInv
  <1> QED BY <1>1, <1>2, <1>3, <1>4, AfterGetFacts, PlainEffect DEF IInv, TypeOK

LEMMA UpdateListEffect ==
  ASSUME IInv, NEW r \in Requests, UpdateList(r)
  PROVE  Effect(r)
  <1> DEFINE l == req[r]
             w == Writes(l, l.default, l.id)
             n == [l EXCEPT !.pc = "commit", !.wset = w]
  <1>1. l \in Local /\ Good(l, db) /\ l.pc = "upd.list"
    BY DbFacts DEF IInv, UpdateList, At
  <1>2. l.op = "UpdateSource" /\ l.id \in SourceIds /\ l.default \in BOOLEAN
    BY <1>1 DEF Good, Carries, Local, Listing
  <1>3. /\ w \in [SourceIds -> Values \cup {"keep"}] /\ w[l.id] = Flag(l.default)
        /\ \A x \in SourceIds : x # l.id /\ w[x] # "keep" =>
             l.default /\ x \in StoredIn(db)
    BY <1>2, WritesFacts
  <1>4. Go(r, n) /\ db' = db /\ seq' = seq
    BY DEF UpdateList
  <1> HIDE DEF w
  <1>5. n \in Local
    BY <1>1, <1>3, LabelFacts DEF Local
  <1>6. n.op = l.op /\ n.pc = "commit" /\ n.id = l.id /\ n.base = l.base
        /\ n.default = l.default /\ n.rset = l.rset /\ n.wset = w
    BY <1>1 DEF Local
  <1> HIDE DEF n
  <1>7. Carries(n) /\ Buffered(n) /\ ~Alone(n) /\ Snapshot(n.base, db)
    BY <1>1, <1>2, <1>3, <1>6 DEF Good, Carries, Buffered, Alone, Listing
  <1>8. Hands(n, l)
    BY <1>2, <1>3, <1>4, <1>6 DEF Hands, Touches, Adds
  <1> QED BY <1>4, <1>5, <1>7, <1>8, PlainEffect DEF Good, IInv, TypeOK

LEMMA FirstFacts ==
  ASSUME NEW S, NEW s \in First(S)
  PROVE  s \in S
  BY DEF First

\* A removal that lists its own source as the only one has nothing to guard yet.
LEMMA DeleteListEffect ==
  ASSUME IInv, NEW r \in Requests, DeleteList(r)
  PROVE  Effect(r)
  <1> DEFINE l == req[r]
             others == StoredIn(db) \ {l.id}
             next == IF others = {} THEN StoredIn(db) ELSE First(others)
  <1>1. l \in Local /\ Good(l, db) /\ l.pc = "del.list"
    BY DbFacts DEF IInv, DeleteList, At
  <1>2. CASE Finish(r)
    BY <1>2, FinishEffect DEF DeleteList, IInv
  <1>3. ASSUME NEW s \in next, l.base.val[s] # "none",
               Go(r, [l EXCEPT !.pc = "del.other", !.other = s,
                               !.rset = @ \cup {s}])
        PROVE  Effect(r)
    <2> DEFINE k == l.rset \cup {s}
               n == [l EXCEPT !.pc = "del.other", !.other = s, !.rset = k]
    <2>1. s \in StoredIn(db) /\ (s = l.id => others = {})
      BY <1>3, FirstFacts
    <2>2. s \in SourceIds /\ k \in SUBSET SourceIds
      BY <1>1, <2>1 DEF StoredIn, Local
    <2>3. l.op = "RemoveSource" /\ l.id \in l.rset /\ l.id \in SourceIds
          /\ l.base.val[l.id] = "default"
      BY <1>1 DEF Good, Carries, Listing
    <2>4. Go(r, n) /\ db' = db /\ seq' = seq /\ seq \in 0 .. MaxSources
      BY <1>3 DEF DeleteList, IInv, TypeOK
    <2>5. l.id \in k
      BY <2>3
    <2> HIDE DEF k
    <2>6. n \in Local
      BY <1>1, <2>2, LabelFacts DEF Local
    <2>7. n.op = l.op /\ n.pc = "del.other" /\ n.id = l.id /\ n.base = l.base
          /\ n.rset = k /\ n.other = s /\ n.wset = l.wset
      BY <1>1 DEF Local
    <2> HIDE DEF n
    <2>8. Good(n, db)
      BY <1>1, <1>3, <2>2, <2>3, <2>5, <2>7 DEF Good, Carries, Buffered, Listing
    <2>9. Hands(n, l)
      BY <2>4, <2>7 DEF Hands, Touches, Adds
    <2>10. Guarded(n, db)
      BY <2>1, <2>7 DEF Guarded, Alone, StoredIn
    <2> QED BY <2>4, <2>6, <2>8, <2>9, <2>10 DEF Effect, Go
  <1> QED BY <1>2, <1>3 DEF DeleteList

LEMMA DeleteOtherEffect ==
  ASSUME IInv, NEW r \in Requests, DeleteOther(r)
  PROVE  Effect(r)
  <1> DEFINE l == req[r]
             v == Writes(l, TRUE, l.other)
             w == [v EXCEPT ![l.id] = "none"]
             n == [l EXCEPT !.pc = "commit", !.wset = w]
  <1>1. l \in Local /\ Good(l, db) /\ l.pc = "del.other"
    BY DbFacts DEF IInv, DeleteOther, At
  <1>2. l.op = "RemoveSource" /\ l.id \in l.rset /\ l.id \in SourceIds
        /\ l.base.val[l.id] = "default"
        /\ l.other \in SourceIds /\ l.base.val[l.other] # "none"
    BY <1>1 DEF Good, Carries, Listing
  <1>3. /\ v \in [SourceIds -> Values \cup {"keep"}] /\ v[l.other] = "default"
        /\ \A x \in SourceIds : x # l.other =>
             v[x] \in {"keep", "plain"} /\ (v[x] # "keep" => x \in StoredIn(db))
    BY <1>2 DEF Writes, Flag, Values, DefaultsIn, StoredIn
  <1>4. Go(r, n) /\ db' = db /\ seq' = seq /\ seq \in 0 .. MaxSources
    BY DEF DeleteOther, IInv, TypeOK
  <1> HIDE DEF v
  <1>5. /\ w \in [SourceIds -> Values \cup {"keep"}] /\ w[l.id] = "none"
        /\ \A x \in SourceIds : x # l.id => w[x] = v[x]
    BY <1>2, <1>3 DEF Values
  <1> HIDE DEF w
  <1>6. n \in Local
    BY <1>1, <1>5, LabelFacts DEF Local
  <1>7. n.op = l.op /\ n.pc = "commit" /\ n.id = l.id /\ n.base = l.base
        /\ n.rset = l.rset /\ n.other = l.other /\ n.wset = w
    BY <1>1 DEF Local
  <1> HIDE DEF n
  <1>8. Carries(n) /\ Snapshot(n.base, db)
    BY <1>1, <1>2, <1>7 DEF Good, Carries, Listing
  <1>9. Buffered(n)
    <2>1. n.other # n.id => n.wset[n.other] = "default"
      BY <1>2, <1>3, <1>5, <1>7
    <2>2. n.other = n.id =>
            \A s \in SourceIds : s # n.id => n.wset[s] \in {"keep", "plain"}
      BY <1>3, <1>5, <1>7
    <2> QED BY <2>1, <2>2, <1>2, <1>5, <1>7 DEF Buffered
  <1>10. Hands(n, l)
    BY <1>2, <1>3, <1>4, <1>5, <1>7 DEF Hands, Touches, Adds
  <1>11. Guarded(n, db)
    <2>1. Guarded(l, db) /\ (Alone(n) => Alone(l))
      BY <1>1, <1>2, <1>7 DEF IInv, Alone
    <2> QED BY <1>7, <2>1 DEF Guarded
  <1> QED BY <1>4, <1>6, <1>8, <1>9, <1>10, <1>11 DEF Effect, Go, Good

----------------------------------------------------------------------------
(* The commit. *)

LEMMA ConflictEffect ==
  ASSUME IInv, NEW r \in Requests, At(r, "commit"), Conflict(req[r]),
         Go(r, AfterGet(req[r], db)), UNCHANGED <<db, seq>>
  PROVE  Effect(r)
  <1> DEFINE l == req[r]
  <1>1. l \in Local /\ Good(l, db) /\ l.pc = "commit" /\ l.rset # {}
    BY DbFacts DEF IInv, At, Conflict
  <1>2. l.op \in {"UpdateSource", "RemoveSource"} /\ l.id \in SourceIds

    BY <1>1 DEF Good, Carries, Buffered, Listing
  <1>3. Hands(AfterGet(l, db), l)
    BY <1>1, <1>2, AfterGetFacts DEF Hands, IInv
  <1> QED BY <1>1, <1>2, <1>3, AfterGetFacts, PlainEffect DEF IInv, TypeOK

LEMMA ApplyFacts ==
  ASSUME TypeOK, NEW w \in [SourceIds -> Values \cup {"keep"}], db' = Apply(w)
  PROVE  /\ db' \in Databases /\ db'.rev = db.rev + 1
         /\ \A s \in SourceIds :
              /\ db'.mod[s] <= db'.rev
              /\ db'.val[s] = "none" <=> db'.mod[s] = 0
              /\ w[s] = "keep" =>
                   db'.val[s] = db.val[s] /\ db'.mod[s] = db.mod[s]
              /\ w[s] # "keep" =>
                   /\ db'.val[s] = w[s]
                   /\ db'.mod[s] = IF w[s] = "none" THEN 0 ELSE db.rev + 1
  <1> DEFINE val == [s \in SourceIds |-> IF w[s] = "keep" THEN db.val[s] ELSE w[s]]
             mod == [s \in SourceIds |-> IF w[s] = "keep" THEN db.mod[s]
                                         ELSE IF val[s] = "none" THEN 0
                                         ELSE db.rev + 1]
  <1>1. db \in Databases /\ db.rev \in Nat
    BY DEF TypeOK, Databases
  <1>2. db' = [val |-> val, rev |-> db.rev + 1, mod |-> mod]
    BY DEF Apply
  <1>3. val \in [SourceIds -> Values] /\ mod \in [SourceIds -> Nat]
    BY <1>1 DEF Databases
  <1>4. \A s \in SourceIds :
          /\ w[s] = "keep" => val[s] = db.val[s] /\ mod[s] = db.mod[s]
          /\ w[s] # "keep" =>
               /\ val[s] = w[s]
               /\ mod[s] = IF w[s] = "none" THEN 0 ELSE db.rev + 1
    OBVIOUS
  <1>5. \A s \in SourceIds :
          mod[s] <= db.rev + 1 /\ (val[s] = "none" <=> mod[s] = 0)
    BY <1>1, <1>4 DEF TypeOK, Databases
  <1> HIDE DEF val, mod
  <1>6. db'.val = val /\ db'.mod = mod /\ db'.rev = db.rev + 1
    BY <1>2
  <1> QED BY <1>1, <1>2, <1>3, <1>4, <1>5, <1>6 DEF Databases

\* What a transaction read is still there when it commits.
LEMMA ReadFacts ==
  ASSUME TypeOK, NEW l \in Local, Good(l, db), ~Conflict(l), NEW s \in l.rset,
         l.base.val[s] # "none"
  PROVE  db.mod[s] = l.base.mod[s] /\ db.val[s] = l.base.val[s]
  <1>1. s \in SourceIds
    BY DEF Local
  <1>2. db.mod[s] = l.base.mod[s]
    BY DEF Conflict
  <1> QED BY <1>1, <1>2 DEF Good, Snapshot

LEMMA SnapshotStable ==
  ASSUME TypeOK, NEW b \in Databases, Snapshot(b, db),
         NEW w \in [SourceIds -> Values \cup {"keep"}], db' = Apply(w)
  PROVE  Snapshot(b, db')
  <1>1. b.rev \in Nat /\ db.rev \in Nat /\ b.rev <= db.rev
    BY DEF TypeOK, Databases, Snapshot
  <1>2. ASSUME NEW s \in SourceIds, db'.mod[s] # 0, db'.mod[s] <= b.rev
        PROVE  db'.mod[s] = b.mod[s] /\ db'.val[s] = b.val[s]
    <2>1. CASE w[s] = "keep"
      BY <1>2, <2>1, ApplyFacts DEF Snapshot
    <2>2. CASE w[s] # "keep"
      BY <1>1, <1>2, <2>2, ApplyFacts
    <2> QED BY <2>1, <2>2
  <1>3. b.rev <= db'.rev
    BY <1>1, ApplyFacts
  <1> QED BY <1>2, <1>3 DEF Snapshot

\* What a commit writes is written after every snapshot in flight.
LEMMA GuardedStable ==
  ASSUME TypeOK, NEW m \in Local, Good(m, db), Guarded(m, db),
         NEW w \in [SourceIds -> Values \cup {"keep"}], db' = Apply(w)
  PROVE  Guarded(m, db')
  <1>1. m.base.rev <= db.rev /\ m.base.rev \in Nat /\ db.rev \in Nat
    BY DEF Good, Snapshot, Local, Databases, TypeOK
  <1>2. ASSUME Alone(m), NEW s \in SourceIds, s # m.id, db'.val[s] # "none"
        PROVE  db'.mod[s] > m.base.rev
    <2>1. CASE w[s] = "keep"
      BY <1>2, <2>1, ApplyFacts DEF Guarded
    <2>2. CASE w[s] # "keep"
      <3>1. db'.mod[s] = db.rev + 1
        BY <1>2, <2>2, ApplyFacts
      <3> QED BY <1>1, <3>1
    <2> QED BY <2>1, <2>2
  <1> QED BY <1>2 DEF Guarded

\* A commit writes what its transaction touches, and the source it adds.
LEMMA CommitFresh ==
  ASSUME TypeOK, FreshIds, NEW r \in Requests, At(r, "commit"),
         Good(req[r], db), db' = Apply(req[r].wset),
         req' = [req EXCEPT ![r] = Idle], seq' = seq
  PROVE  FreshIds'
  <1> DEFINE l == req[r]
  <1>1. /\ req \in [Requests -> Local] /\ l \in Local /\ l.pc = "commit"
        /\ l.wset \in [SourceIds -> Values \cup {"keep"}]
        /\ req'[r] = Idle /\ \A q \in Requests : q # r => req'[q] = req[q]
    BY DEF TypeOK, Local, At
  <1>2. StoredIn(db') \subseteq StoredIn(db) \cup Touches(l) \cup {l.id}
    BY <1>1, ApplyFacts DEF StoredIn, Touches
  <1>3. ~Adds(l) => l.id \in Touches(l)
    <2>1. CASE l.op = "NewSource"
      BY <1>1, <2>1 DEF Adds
    <2>2. CASE l.op # "NewSource"
      BY <1>1, <2>2 DEF Good, Carries, Touches, Listing
    <2> QED BY <2>1, <2>2
  <1>4. \A s \in StoredIn(db') : s <= seq'
    BY <1>2, <1>3 DEF FreshIds
  <1>5. ~Adds(Idle) /\ Touches(Idle) = {}
    BY IdleFacts DEF Adds
  <1>6. \A q \in Requests : \A s \in Touches(req'[q]) : s <= seq'
    BY <1>1, <1>5 DEF FreshIds
  <1>7. ASSUME NEW p \in Requests, Adds(req'[p])
        PROVE  /\ req'[p].id <= seq' /\ req'[p].id \notin StoredIn(db')
               /\ \A q \in Requests :
                    /\ req'[p].id \notin Touches(req'[q])
                    /\ q # p /\ Adds(req'[q]) => req'[q].id # req'[p].id
    <2>1. p # r /\ req'[p] = req[p] /\ Adds(req[p])
      BY <1>1, <1>5, <1>7
    <2>2. req[p].id # l.id
      BY <1>3, <2>1 DEF FreshIds
    <2>3. req[p].id \notin StoredIn(db')
      BY <1>2, <2>1, <2>2 DEF FreshIds
    <2> QED BY <1>1, <1>5, <2>1, <2>3 DEF FreshIds
  <1> QED BY <1>4, <1>6, <1>7 DEF FreshIds

LEMMA CommitInv ==
  ASSUME IInv, NEW r \in Requests, At(r, "commit"), ~Conflict(req[r]),
         db' = Apply(req[r].wset), Finish(r), UNCHANGED seq
  PROVE  IInv'
  <1> DEFINE l == req[r]
  <1>1. TypeOK /\ req \in [Requests -> Local] /\ l \in Local
        /\ l.wset \in [SourceIds -> Values \cup {"keep"}]
    BY DEF IInv, TypeOK, Local
  <1>2. req'[r] = Idle /\ \A q \in Requests : q # r => req'[q] = req[q]
    BY <1>1 DEF Finish, Go
  <1>3. TypeOK'
    <2>1. req' \in [Requests -> Local]
      BY <1>1, IdleFacts DEF Finish, Go
    <2> QED BY <1>1, <2>1, ApplyFacts DEF TypeOK
  <1>4. ASSUME NEW q \in Requests PROVE Good(req'[q], db')
    <2>1. CASE q = r
      BY <1>2, <1>3, <2>1, IdleFacts DEF TypeOK
    <2>2. CASE q # r
      <3>1. req[q].base \in Databases /\ Good(req[q], db)
        BY <1>1 DEF IInv, Local
      <3> QED BY <1>1, <1>2, <2>2, <3>1, SnapshotStable DEF Good
    <2> QED BY <2>1, <2>2
  <1>5. ASSUME NEW q \in Requests PROVE Guarded(req'[q], db')
    <2>1. CASE q = r
      BY <1>2, <2>1, EmptyFacts, IdleFacts DEF Guarded
    <2>2. CASE q # r
      BY <1>1, <1>2, <2>2, GuardedStable DEF IInv
    <2> QED BY <2>1, <2>2
  <1>6. FreshIds'
    BY CommitFresh DEF IInv, Finish, Go
  <1> QED BY <1>3, <1>4, <1>5, <1>6 DEF IInv

----------------------------------------------------------------------------
(* The specification. *)

LEMMA InitInv == Init => IInv
  <1> SUFFICES ASSUME Init PROVE IInv
    OBVIOUS
  <1>1. PICK val \in [SourceIds -> Values] :
          db = [val |-> val, rev |-> 1,
                mod |-> [s \in SourceIds |-> IF val[s] = "none" THEN 0 ELSE 1]]
    BY DEF Init
  <1>2. TypeOK
    BY <1>1, IdleFacts DEF Init, TypeOK, Databases
  <1>3. \A r \in Requests : req[r] = Idle
    BY DEF Init
  <1>4. \A r \in Requests : Good(req[r], db) /\ ~Alone(req[r])
    BY <1>2, <1>3, DbFacts, IdleFacts
  <1>5. FreshIds
    <2>1. \A s \in StoredIn(db) : s <= seq
      BY EtcdAssumption DEF Init, StoredIn, SourceIds
    <2> QED BY <1>3, <2>1, IdleFacts DEF FreshIds, Adds
  <1> QED BY <1>2, <1>4, <1>5 DEF IInv, Guarded

LEMMA NextInv == IInv /\ [Next]_vars => IInv'
  <1> SUFFICES ASSUME IInv, [Next]_vars PROVE IInv'
    OBVIOUS
  <1>1. ASSUME NEW r \in Requests, BeginRequest(r) PROVE IInv'
    BY <1>1, BeginEffect, EffectInv
  <1>2. ASSUME NEW r \in Requests, AddAll(r) PROVE IInv'
    BY <1>2, AddAllEffect, EffectInv
  <1>3. ASSUME NEW r \in Requests, AddList(r) PROVE IInv'
    BY <1>3, AddListEffect, EffectInv
  <1>4. ASSUME NEW r \in Requests, FirstGet(r) PROVE IInv'
    BY <1>4, FirstGetEffect, EffectInv
  <1>5. ASSUME NEW r \in Requests, UpdateList(r) PROVE IInv'
    BY <1>5, UpdateListEffect, EffectInv
  <1>6. ASSUME NEW r \in Requests, DeleteList(r) PROVE IInv'
    BY <1>6, DeleteListEffect, EffectInv
  <1>7. ASSUME NEW r \in Requests, DeleteOther(r) PROVE IInv'
    BY <1>7, DeleteOtherEffect, EffectInv
  <1>8. ASSUME NEW r \in Requests, Commit(r) PROVE IInv'
    <2>1. CASE ~Conflict(req[r]) /\ db' = Apply(req[r].wset) /\ Finish(r)
      BY <1>8, <2>1, CommitInv DEF Commit
    <2>2. CASE Conflict(req[r]) /\ Go(r, AfterGet(req[r], db)) /\ UNCHANGED db
      BY <1>8, <2>2, ConflictEffect, EffectInv DEF Commit
    <2> QED BY <1>8, <2>1, <2>2 DEF Commit
  <1>9. ASSUME NEW r \in Requests, Timeout(r) PROVE IInv'
    BY <1>9, FinishEffect, EffectInv DEF Timeout, IInv
  <1>10. CASE UNCHANGED vars
    BY <1>10 DEF vars, IInv, TypeOK, FreshIds
  <1> QED BY <1>1, <1>2, <1>3, <1>4, <1>5, <1>6, <1>7, <1>8, <1>9, <1>10
          DEF Next, Step

\* The inductive invariant holds in every reachable state.
THEOREM Invariant == Spec => []IInv
  BY InitInv, NextInv, PTL DEF Spec

\* Values, revisions and transactions are well-typed, and a key has a
\* modification revision exactly while it holds a source.
THEOREM TypeCorrect == Spec => []TypeOK
  <1>1. IInv => TypeOK
    BY DEF IInv
  <1> QED BY <1>1, Invariant, PTL

\* An update never brings back a source that was removed under it.
THEOREM RemovedStaysRemoved == Spec => UpdateOfRemovedFails
  <1> DEFINE Found ==
        \A r \in Requests :
          At(r, "commit") /\ req[r].op = "UpdateSource" /\ db' # db
            /\ req'[r] # req[r] => db.val[req[r].id] # "none"
  <1>1. IInv /\ [Next]_vars => [Found]_vars
    <2> SUFFICES ASSUME IInv, Next, NEW r \in Requests, At(r, "commit"),
                        req[r].op = "UpdateSource", db' # db, req'[r] # req[r]
                 PROVE  db.val[req[r].id] # "none"
      OBVIOUS
    <2>1. PICK q \in Requests : Commit(q) /\ ~Conflict(req[q]) /\ Finish(q)
      BY DEF Next, Step, BeginRequest, Begin, AddAll, AddList, FirstGet,
             UpdateList, DeleteList, DeleteOther, Commit, Timeout
    <2>2. q = r
      BY <2>1 DEF IInv, TypeOK, Finish, Go
    <2>3. req[r] \in Local /\ Good(req[r], db) /\ TypeOK
      BY DEF IInv, TypeOK
    <2>4. req[r].id \in req[r].rset /\ req[r].base.val[req[r].id] # "none"
      BY <2>3 DEF Good, Carries, At
    <2> QED BY <2>1, <2>2, <2>3, <2>4, ReadFacts
  <1> QED BY <1>1, Invariant, PTL DEF Spec, UpdateOfRemovedFails

LEMMA CommitLosesDefault ==
  ASSUME IInv, NEW r \in Requests, At(r, "commit"), ~Conflict(req[r]),
         db' = Apply(req[r].wset), DefaultsIn(db) # {}, DefaultsIn(db') = {}
  PROVE  /\ DefaultsIn(db) = {req[r].id}
         /\ \/ req[r].op = "UpdateSource" /\ ~req[r].default
            \/ /\ req[r].op = "RemoveSource"
               /\ \A s \in StoredIn(db) \ {req[r].id} :
                    db.mod[s] > req[r].base.rev
  <1> DEFINE l == req[r]
  <1>1. /\ TypeOK /\ l \in Local /\ Good(l, db) /\ Guarded(l, db)
        /\ l.pc = "commit" /\ l.wset \in [SourceIds -> Values \cup {"keep"}]
        /\ l.id \in SourceIds /\ l.default \in BOOLEAN
    BY DbFacts DEF IInv, At, Local, Good, Carries
  <1>2. \A s \in SourceIds : l.wset[s] # "default"
    BY <1>1, ApplyFacts DEF DefaultsIn
  <1>3. \A s \in DefaultsIn(db) : l.wset[s] # "keep"
    BY <1>1, ApplyFacts DEF DefaultsIn
  <1>4. CASE l.op \in {"NewSource", "UpdateSource"}
    <2>1. /\ l.wset[l.id] = Flag(l.default)
          /\ ~l.default => \A s \in SourceIds : s # l.id => l.wset[s] = "keep"
      BY <1>1, <1>4 DEF Good, Buffered
    <2>2. ~l.default
      BY <1>1, <1>2, <2>1 DEF Flag
    <2>3. DefaultsIn(db) = {l.id}
      BY <1>3, <2>1, <2>2 DEF DefaultsIn
    <2>4. l.op # "NewSource"
      <3>1. CASE l.op = "NewSource"
        <4>1. Adds(l) /\ l.id \in StoredIn(db)
          BY <1>1, <2>3, <3>1 DEF Adds, DefaultsIn, StoredIn
        <4> QED BY <4>1 DEF IInv, FreshIds
      <3> QED BY <3>1
    <2> QED BY <1>4, <2>2, <2>3, <2>4
  <1>5. CASE l.op = "RemoveSource"
    <2>1. l.id \in l.rset /\ l.base.val[l.id] # "none"
      BY <1>1, <1>5 DEF Good, Carries
    <2>2. db.val[l.id] = l.base.val[l.id]
      BY <1>1, <2>1, ReadFacts
    <2>3. CASE /\ l.base.val[l.id] # "default"
               /\ l.wset = [NoWrites EXCEPT ![l.id] = "none"]
      <3>1. DefaultsIn(db) \subseteq {l.id}
        BY <1>1, <1>3, <2>3 DEF DefaultsIn, NoWrites
      <3> QED BY <2>2, <2>3, <3>1 DEF DefaultsIn
    <2>4. CASE /\ l.base.val[l.id] = "default" /\ l.wset[l.id] = "none"
               /\ l.other = l.id
      <3>1. Alone(l)
        BY <1>1, <1>5, <2>4 DEF Alone
      <3>2. \A s \in StoredIn(db) \ {l.id} : db.mod[s] > l.base.rev
        BY <1>1, <3>1 DEF Guarded, StoredIn
      <3>3. \A s \in StoredIn(db) \ {l.id} : l.wset[s] = "keep"
        BY <2>1, <3>2 DEF Conflict, StoredIn
      <3>4. DefaultsIn(db) = {l.id}
        BY <1>3, <3>3 DEF DefaultsIn, StoredIn
      <3> QED BY <1>5, <3>2, <3>4
    <2> QED BY <1>1, <1>2, <1>5, <2>3, <2>4 DEF Good, Buffered
  <1>6. l.op \in {"NewSource", "UpdateSource", "RemoveSource"}
    BY <1>1 DEF Good, Buffered
  <1> QED BY <1>4, <1>5, <1>6

\* A commit leaves sources without a default, where there was one, only if it
\* clears the flag of that source at a client's request, or removes it and every
\* other source has been written since the removal began.
THEOREM DefaultKept == Spec => DefaultLeaves
  <1> DEFINE Leaves ==
        DefaultsIn(db) # {} /\ DefaultsIn(db') = {} /\ StoredIn(db') # {} =>
          \E r \in Requests :
            /\ At(r, "commit") /\ DefaultsIn(db) = {req[r].id}
            /\ \/ req[r].op = "UpdateSource" /\ ~req[r].default
               \/ /\ req[r].op = "RemoveSource"
                  /\ \A s \in StoredIn(db) \ {req[r].id} :
                       db.mod[s] > req[r].base.rev
  <1>1. IInv /\ [Next]_vars => [Leaves]_vars
    <2> SUFFICES ASSUME IInv, Next, DefaultsIn(db) # {}, DefaultsIn(db') = {}
                 PROVE  Leaves
      OBVIOUS
    <2>1. db' # db
      OBVIOUS
    <2>2. PICK r \in Requests :
            /\ At(r, "commit") /\ ~Conflict(req[r])
            /\ db' = Apply(req[r].wset)
      BY <2>1 DEF Next, Step, BeginRequest, Begin, AddAll, AddList, FirstGet,
             UpdateList, DeleteList, DeleteOther, Commit, Timeout
    <2> QED BY <2>2, CommitLosesDefault
  <1> QED BY <1>1, Invariant, PTL DEF Spec, DefaultLeaves
==============================================================================
