------------------------------ MODULE Snowflake ------------------------------
(****************************************************************************)
(* The generator of record ids on etcd (backend/snowflake, used by          *)
(* Bucket.NextSequence of backend/kv/etcd): a word <<time, machine, seq>>   *)
(* that all goroutines of a server advance by compare-and-swap, and by an   *)
(* atomic add after too many failures.  Every CloudHub server that shares   *)
(* an etcd has a generator of its own, with a machine id drawn at start;    *)
(* a server that stops and starts again is another element of Servers.      *)
(* Clocks are not trusted: now() answers any time, in any order.            *)
(****************************************************************************)
EXTENDS Integers, Sequences

CONSTANTS Servers,     \* processes with a generator
          Goroutines,  \* goroutines that call Next
          ServerOf,    \* ServerOf[g]: the process g runs in
          Machine,     \* Machine[p]: rand.Intn(1023) of process p
          Machines,    \* 2 ^ serverBits: machine ids are 0 .. Machines - 1
          Seqs,        \* 2 ^ sequenceBits
          Or,          \* Or[a, b]: bitwise or of two machine ids
          Attempts,    \* 100: compare-and-swaps a call tries
          MaxTime,     \* bound: milliseconds the clocks show
          MaxCalls     \* bound: a process that took this many begins no more

Times == 1 .. MaxTime
MachineIds == 0 .. Machines - 1

ASSUME SnowflakeAssumption ==
    /\ ServerOf \in [Goroutines -> Servers]
    /\ Machines \in Nat \ {0} /\ Seqs \in Nat \ {0}
    /\ Machine \in [Servers -> MachineIds]
    /\ Attempts \in Nat \ {0} /\ MaxTime \in Nat /\ MaxCalls \in Nat

ASSUME OrAssumption ==
    /\ Or \in [MachineIds \X MachineIds -> MachineIds]
    /\ \A m \in MachineIds : Or[<<0, m>>] = m

\* A uint64 by its fields; the 42 bits of time do not overflow before 2156.
Word == [time : Nat, machine : MachineIds, seq : 0 .. Seqs - 1]
Zero == [time |-> 0, machine |-> 0, seq |-> 0]

Less(a, b) ==
    \/ a.time < b.time
    \/ a.time = b.time /\ a.machine < b.machine
    \/ a.time = b.time /\ a.machine = b.machine /\ a.seq < b.seq

VARIABLES state,  \* g.state of every server
          call,   \* what each goroutine's call of Next is doing
          taken   \* history: taken[p], the states calls of p took, in order

vars == <<state, call, taken>>

Idle == [pc |-> "idle", left |-> 0, t |-> 0, current |-> Zero, next |-> Zero]

Call == [pc : {"idle", "now", "load", "cas", "add"},
         left : 0 .. Attempts,   \* attempts left
         t : Nat,                \* t of this attempt
         current : Word,         \* what LoadUint64 read
         next : Word]            \* what the attempt will store

TypeOK ==
    /\ state \in [Servers -> Word]
    /\ call \in [Goroutines -> Call]
    /\ taken \in [Servers -> Seq(Word)]

----------------------------------------------------------------------------
\* Mutant: the sequence alone is incremented, without a carry.
MutAddOne(w) == [w EXCEPT !.seq = @ + 1]

\* AddUint64(&g.state, 1): the carry of a full sequence goes into the machine
\* bits, that of those into the time.
AddOne(w) ==
    IF w.seq + 1 < Seqs THEN [w EXCEPT !.seq = @ + 1]
    ELSE IF w.machine + 1 < Machines
         THEN [time |-> w.time, machine |-> w.machine + 1, seq |-> 0]
         ELSE [time |-> w.time + 1, machine |-> 0, seq |-> 0]

\* Mutant: a clock behind the state is believed.
MutAdvance(w, t) ==
    IF t # w.time THEN [time |-> t, machine |-> 0, seq |-> 0]
    ELSE IF w.seq = Seqs - 1 THEN [time |-> w.time + 1, machine |-> 0, seq |-> 0]
    ELSE AddOne(w)

\* The switch of Next: the state an attempt at time t makes of w.
Advance(w, t) ==
    IF t > w.time THEN [time |-> t, machine |-> 0, seq |-> 0]
    ELSE IF w.seq = Seqs - 1 THEN [time |-> w.time + 1, machine |-> 0, seq |-> 0]
    ELSE AddOne(w)

\* What a call of server p that took w returns.
Id(p, w) == [w EXCEPT !.machine = Or[<<w.machine, Machine[p]>>]]

Step(g, from, c) == call[g].pc = from /\ call' = [call EXCEPT ![g] = c]

Begin(g) ==
    /\ Len(taken[ServerOf[g]]) < MaxCalls
    /\ Step(g, "idle", [Idle EXCEPT !.pc = "now", !.left = Attempts])
    /\ UNCHANGED <<state, taken>>

Now(g) ==
    /\ \E t \in Times : Step(g, "now", [call[g] EXCEPT !.pc = "load", !.t = t])
    /\ UNCHANGED <<state, taken>>

Load(g) ==
    LET w == state[ServerOf[g]]
    IN  /\ Step(g, "load", [call[g] EXCEPT !.pc = "cas", !.current = w,
                                           !.next = Advance(w, call[g].t)])
        /\ UNCHANGED <<state, taken>>

\* The call of g takes effect: the state of its server becomes w.
Take(g, w) ==
    LET p == ServerOf[g]
    IN  /\ state' = [state EXCEPT ![p] = w]
        /\ taken' = [taken EXCEPT ![p] = Append(@, w)]

\* Mutant: the last state computed survives the attempt that failed to store it.
MutSwapFails(g) ==
    /\ state[ServerOf[g]] # call[g].current
    /\ \/ /\ call[g].left > 1
          /\ Step(g, "cas", [call[g] EXCEPT !.pc = "now", !.left = @ - 1])
          /\ UNCHANGED taken
       \/ /\ call[g].left = 1
          /\ Step(g, "cas", Idle)
          /\ taken' = [taken EXCEPT ![ServerOf[g]] = Append(@, call[g].next)]
    /\ UNCHANGED state

\* Another call came first: `state = 0`, and once more or on to the add.
SwapFails(g) ==
    /\ state[ServerOf[g]] # call[g].current
    /\ \/ /\ call[g].left > 1
          /\ Step(g, "cas", [call[g] EXCEPT !.pc = "now", !.left = @ - 1])
       \/ /\ call[g].left = 1
          /\ Step(g, "cas", [call[g] EXCEPT !.pc = "add", !.left = 0])
    /\ UNCHANGED <<state, taken>>

Swap(g) ==
    /\ state[ServerOf[g]] = call[g].current
    /\ Step(g, "cas", Idle)
    /\ Take(g, call[g].next)

Add(g) ==
    /\ Step(g, "add", Idle)
    /\ Take(g, AddOne(state[ServerOf[g]]))

Init ==
    /\ state = [p \in Servers |-> Zero]
    /\ call = [g \in Goroutines |-> Idle]
    /\ taken = [p \in Servers |-> <<>>]

NextStep(g) ==
    Begin(g) \/ Now(g) \/ Load(g) \/ SwapFails(g) \/ Swap(g) \/ Add(g)

Next == \E g \in Goroutines : NextStep(g)

Spec == Init /\ [][Next]_vars

----------------------------------------------------------------------------
(* What the generator promises. *)

\* "this sequence of conditionals ensures a monotonically increasing state"
\* (gen.go:67), whatever the clocks do and whoever wins the swaps: the calls
\* of a server, in the order they take effect, take ever greater states.
Ascending ==
    \A p \in Servers : \A i, j \in 1 .. Len(taken[p]) :
        i < j => Less(taken[p][i], taken[p][j])

\* Unless its add rolled over into the machine bits, an id is handed out once,
\* among all servers that drew different machine ids (client.go NextSequence).
Rolled(w) == w.machine # 0
Unique ==
    \A p, q \in Servers :
        p = q \/ Machine[p] # Machine[q] =>
            \A i \in 1 .. Len(taken[p]), j \in 1 .. Len(taken[q]) :
                /\ ~Rolled(taken[p][i]) /\ ~Rolled(taken[q][j])
                /\ <<p, i>> # <<q, j>>
                => Id(p, taken[p][i]) # Id(q, taken[q][j])
==============================================================================
