----------------------------- MODULE EtcdSources -----------------------------
(****************************************************************************)
(* The sources store (backend/kv/sources.go) over the etcd client           *)
(* (backend/kv/etcd).  On bolt a read-write transaction is alone, which is  *)
(* how Resources models it.  On etcd it is a software transactional memory: *)
(* Get remembers the revision it read, Put and Delete are buffered, and the *)
(* commit fails, and the transaction runs again, if what it read or what it *)
(* is going to write has changed since.  ForEach is a plain range read on   *)
(* the side: it is neither remembered nor does it see the buffer.           *)
(*                                                                          *)
(* A source is its default flag.  The organization facade, which adds a Get *)
(* before each call, is left out.                                           *)
(****************************************************************************)
EXTENDS Naturals

CONSTANTS Requests,     \* slots for calls in flight
          MaxSources,   \* bound: ids handed out
          MaxRev,       \* bound: no call starts after that many commits
          Ops,          \* calls that are made
          Flags         \* default flags they bring along

SourceIds == 1 .. MaxSources
Values == {"none", "plain", "default"}

ASSUME EtcdAssumption ==
    /\ MaxSources \in Nat /\ MaxRev \in Nat
    /\ Flags \subseteq BOOLEAN

VARIABLES db,    \* etcd: values, the revision each was written at, the revision
          seq,   \* the id generator: ids up to seq are given out
          req    \* calls in flight

vars == <<db, seq, req>>

\* An absent key has modification revision 0.
Databases == [val : [SourceIds -> Values], mod : [SourceIds -> Nat], rev : Nat]
Empty == [val |-> [s \in SourceIds |-> "none"],
          mod |-> [s \in SourceIds |-> 0], rev |-> 0]

Labels == {"idle", "add.all", "add.list", "upd.get", "upd.list", "del.get",
           "del.list", "del.other", "commit"}

Local == [op : {"none", "NewSource", "UpdateSource", "RemoveSource"},
          pc : Labels, id : SourceIds \cup {0}, default : BOOLEAN,
          other : SourceIds \cup {0},                  \* the default to be
          base : Databases,                            \* at the first Get
          rset : SUBSET SourceIds,                     \* keys read
          wset : [SourceIds -> Values \cup {"keep"}]]  \* buffered writes

NoWrites == [s \in SourceIds |-> "keep"]
Idle == [op |-> "none", pc |-> "idle", id |-> 0, default |-> FALSE, other |-> 0,
         base |-> Empty, rset |-> {}, wset |-> NoWrites]

TypeOK ==
    /\ db \in Databases /\ seq \in 0 .. MaxSources
    /\ \A s \in SourceIds : /\ db.mod[s] <= db.rev
                            /\ db.val[s] = "none" <=> db.mod[s] = 0
    /\ req \in [Requests -> Local]

StoredIn(d) == {s \in SourceIds : d.val[s] # "none"}
DefaultsIn(d) == {s \in SourceIds : d.val[s] = "default"}
First(S) == {s \in S : \A x \in S : s <= x}
Flag(isDefault) == IF isDefault THEN "default" ELSE "plain"

----------------------------------------------------------------------------
At(r, label) == req[r].pc = label
Go(r, l) == req' = [req EXCEPT ![r] = l]
Finish(r) == Go(r, Idle)

Begin(r, op, label, id) ==
    /\ op \in Ops /\ db.rev < MaxRev
    /\ At(r, "idle")
    /\ \E d \in Flags : Go(r, [Idle EXCEPT !.op = op, !.pc = label, !.id = id,
                                           !.default = d])
    /\ UNCHANGED <<db, seq>>

BeginRequest(r) ==
    \/ Begin(r, "NewSource", "add.all", 0)
    \/ \E s \in 1 .. seq : \/ Begin(r, "UpdateSource", "upd.get", s)
                           \/ Begin(r, "RemoveSource", "del.get", s)

\* resetDefaultSource and the Put after it: what the transaction buffers.
Writes(l, isDefault, s) ==
    [x \in SourceIds |->
        IF x = s THEN Flag(isDefault)
        ELSE IF isDefault /\ x \in DefaultsIn(db) THEN "plain" ELSE "keep"]

----------------------------------------------------------------------------
(* Add. *)

AddAll(r) ==
    /\ At(r, "add.all")
    /\ Go(r, [req[r] EXCEPT !.pc = "add.list",
                            !.default = @ \/ StoredIn(db) = {}])
    /\ UNCHANGED <<db, seq>>

\* The id comes from the generator, not from etcd: nothing is read with Get.
AddList(r) ==
    LET l == req[r]
    IN  /\ At(r, "add.list")
        /\ \/ /\ seq < MaxSources
              /\ seq' = seq + 1
              /\ Go(r, [l EXCEPT !.pc = "commit", !.id = seq + 1,
                                 !.wset = Writes(l, l.default, seq + 1)])
           \/ seq = MaxSources /\ Finish(r) /\ UNCHANGED seq
        /\ UNCHANGED db

----------------------------------------------------------------------------
(* Update and Delete: what follows the first Get, which found d. *)

AfterGet(l, d) ==
    LET got == [l EXCEPT !.base = d, !.rset = {l.id}, !.wset = NoWrites]
    IN  IF d.val[l.id] = "none" THEN Idle
        ELSE IF l.op = "UpdateSource" THEN [got EXCEPT !.pc = "upd.list"]
        ELSE IF d.val[l.id] = "default" THEN [got EXCEPT !.pc = "del.list"]
        ELSE [got EXCEPT !.pc = "commit",
                         !.wset = [NoWrites EXCEPT ![l.id] = "none"]]

FirstGet(r) ==
    /\ At(r, "upd.get") \/ At(r, "del.get")
    /\ Go(r, AfterGet(req[r], db))
    /\ UNCHANGED <<db, seq>>

UpdateList(r) ==
    LET l == req[r]
    IN  /\ At(r, "upd.list")
        /\ Go(r, [l EXCEPT !.pc = "commit", !.wset = Writes(l, l.default, l.id)])
        /\ UNCHANGED <<db, seq>>

\* Mutant: the source about to be deleted is not avoided.
MutDeleteList(r) ==
    LET l == req[r]
    IN  /\ At(r, "del.list")
        /\ \/ \E s \in First(StoredIn(db)) :
                /\ l.base.val[s] # "none"
                /\ Go(r, [l EXCEPT !.pc = "del.other", !.other = s,
                                   !.rset = @ \cup {s}])
           \/ StoredIn(db) = {} /\ Finish(r)
        /\ UNCHANGED <<db, seq>>

\* setRandomDefault lists the sources.  An empty list leaves a nil pointer, and
\* recoverCallback turns the panic into an error.
DeleteList(r) ==
    LET l == req[r]
        others == StoredIn(db) \ {l.id}
        next == IF others = {} THEN StoredIn(db) ELSE First(others)
    IN  /\ At(r, "del.list")
        /\ \/ \E s \in next :
                /\ l.base.val[s] # "none"
                /\ Go(r, [l EXCEPT !.pc = "del.other", !.other = s,
                                   !.rset = @ \cup {s}])
           \/ (\A s \in next : l.base.val[s] = "none") /\ Finish(r)
        /\ UNCHANGED <<db, seq>>

\* ... and update lists them again.
DeleteOther(r) ==
    LET l == req[r]
    IN  /\ At(r, "del.other")
        /\ Go(r, [l EXCEPT !.pc = "commit",
                    !.wset = [Writes(l, TRUE, l.other) EXCEPT ![l.id] = "none"]])
        /\ UNCHANGED <<db, seq>>

----------------------------------------------------------------------------
(* concurrency.NewSTM, serializable snapshots. *)

\* Mutant: what was read may change, as long as nobody writes the same keys.
MutConflict(l) ==
    l.rset # {} /\ \E s \in SourceIds :
                     l.wset[s] # "keep" /\ db.mod[s] > l.base.rev

\* Without a Get there is no revision to compare with.
Conflict(l) ==
    \/ \E s \in l.rset : db.mod[s] # l.base.mod[s]
    \/ l.rset # {} /\ \E s \in SourceIds :
                        l.wset[s] # "keep" /\ db.mod[s] > l.base.rev

\* Mutant: a deleted key keeps a modification revision.
MutApply(wset) ==
    LET val == [s \in SourceIds |-> IF wset[s] = "keep" THEN db.val[s] ELSE wset[s]]
    IN  [val |-> val, rev |-> db.rev + 1,
         mod |-> [s \in SourceIds |-> IF wset[s] = "keep" THEN db.mod[s]
                                      ELSE db.rev + 1]]

\* The buffered writes get the next revision, all of them or none.
Apply(wset) ==
    LET val == [s \in SourceIds |-> IF wset[s] = "keep" THEN db.val[s] ELSE wset[s]]
    IN  [val |-> val, rev |-> db.rev + 1,
         mod |-> [s \in SourceIds |-> IF wset[s] = "keep" THEN db.mod[s]
                                      ELSE IF val[s] = "none" THEN 0
                                      ELSE db.rev + 1]]

\* Mutant: what a transaction has read survives into its next attempt.
MutCommit(r) ==
    LET l == req[r]
    IN  /\ At(r, "commit")
        /\ \/ ~Conflict(l) /\ db' = Apply(l.wset) /\ Finish(r)
           \/ Conflict(l) /\ UNCHANGED <<db, req>>
        /\ UNCHANGED seq

\* A failed commit answers with the keys read, and the transaction starts over
\* from them.
Commit(r) ==
    LET l == req[r]
    IN  /\ At(r, "commit")
        /\ \/ ~Conflict(l) /\ db' = Apply(l.wset) /\ Finish(r)
           \/ Conflict(l) /\ Go(r, AfterGet(l, db)) /\ UNCHANGED db
        /\ UNCHANGED seq

\* The request timeout runs out before the commit.
Timeout(r) ==
    /\ ~At(r, "idle") /\ "Timeout" \in Ops
    /\ Finish(r)
    /\ UNCHANGED <<db, seq>>

Step(r) == AddAll(r) \/ AddList(r) \/ FirstGet(r) \/ UpdateList(r)
           \/ DeleteList(r) \/ DeleteOther(r) \/ Commit(r)

\* A store that calls one after the other have left.
Init ==
    /\ seq \in 0 .. MaxSources
    /\ \E val \in [SourceIds -> Values] :
         /\ \A s \in SourceIds : s > seq => val[s] = "none"
         /\ db = [val |-> val, rev |-> 1,
                  mod |-> [s \in SourceIds |-> IF val[s] = "none" THEN 0 ELSE 1]]
    /\ \A s, t \in DefaultsIn(db) : s = t
    /\ req = [r \in Requests |-> Idle]

Next == \E r \in Requests : BeginRequest(r) \/ Step(r) \/ Timeout(r)

Spec == Init /\ [][Next]_vars

\* A goroutine runs on, and etcd answers.  Nothing is asked of clients or timeouts.
FairSpec == Spec /\ \A r \in Requests : WF_vars(Step(r))

----------------------------------------------------------------------------
(* What the store keeps on etcd too. *)

\* A commit leaves sources and no default, where there was one, in two ways only:
\* a client clears the flag of the default source, or that source is removed, and
\* every other one has been written since the removal began ("avoid selecting the
\* source we're about to delete", kv/sources.go:212).  An addition never does, and
\* a source that a removal could have chosen is never overlooked, however lists,
\* commits and retries interleave.
DefaultLeaves ==
    [][DefaultsIn(db) # {} /\ DefaultsIn(db') = {} /\ StoredIn(db') # {} =>
         \E r \in Requests :
           /\ At(r, "commit") /\ DefaultsIn(db) = {req[r].id}
           /\ \/ req[r].op = "UpdateSource" /\ ~req[r].default
              \/ /\ req[r].op = "RemoveSource"
                 /\ \A s \in StoredIn(db) \ {req[r].id} :
                      db.mod[s] > req[r].base.rev]_vars

\* An update overtaken by the removal of its source fails and does not bring it
\* back (kv/sources.go:153): the key it writes is free by then, so only the
\* revision it has read tells.
UpdateOfRemovedFails ==
    [][\A r \in Requests :
         At(r, "commit") /\ req[r].op = "UpdateSource" /\ db' # db
           /\ req'[r] # req[r] => db.val[req[r].id] # "none"]_vars

\* A transaction that conflicts starts over from what is stored then, and not from
\* what it read before, so that it conflicts again only if another one has
\* committed since: when clients make no more calls (MaxRev), every call that has
\* begun ends, though no timeout comes to its aid.
CallsEnd == \A r \in Requests : ~At(r, "idle") ~> At(r, "idle")

----------------------------------------------------------------------------
(* Claimed by the source, broken on etcd. *)

\* "two default sources when only one should be permitted"
\* (kv/sources_test.go:101).
AtMostOneDefault == \A s, t \in DefaultsIn(db) : s = t
==============================================================================
