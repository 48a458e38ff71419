--------------------------- MODULE SnowflakeProofs ---------------------------
(****************************************************************************)
(* For any number of servers and goroutines, any widths of the fields and   *)
(* any clocks: the states a server's calls take ascend, and so no id is     *)
(* handed out twice unless an add rolled over.                              *)
(****************************************************************************)
EXTENDS Snowflake, TLAPS

AtMost(a, b) == a = b \/ Less(a, b)

\* An attempt stores more than it read; nothing taken exceeds the state.
AttemptsGrow ==
    \A g \in Goroutines :
        call[g].pc = "cas" => Less(call[g].current, call[g].next)

BelowState ==
    \A p \in Servers : \A i \in 1 .. Len(taken[p]) : AtMost(taken[p][i], state[p])

IInv == TypeOK /\ AttemptsGrow /\ BelowState /\ Ascending

LEMMA LessTrans ==
    ASSUME NEW a \in Word, NEW b \in Word, NEW c \in Word,
           AtMost(a, b), Less(b, c)
    PROVE  Less(a, c)
  BY SnowflakeAssumption DEF Word, MachineIds, Less, AtMost

LEMMA LessIrreflexive == ASSUME NEW a \in Word PROVE ~Less(a, a)
  BY SnowflakeAssumption DEF Word, MachineIds, Less

LEMMA ZeroWord == Zero \in Word
  BY SnowflakeAssumption DEF Word, MachineIds, Zero

LEMMA AddOneGrows ==
    ASSUME NEW w \in Word
    PROVE  AddOne(w) \in Word /\ Less(w, AddOne(w))
  BY SnowflakeAssumption DEF Word, MachineIds, Less, AddOne

\* The switch of Next never goes back, whatever time it is told.
LEMMA AdvanceGrows ==
    ASSUME NEW w \in Word, NEW t \in Nat
    PROVE  Advance(w, t) \in Word /\ Less(w, Advance(w, t))
<1>1. CASE t > w.time
  BY <1>1, SnowflakeAssumption DEF Word, MachineIds, Less, Advance
<1>2. CASE ~(t > w.time) /\ w.seq = Seqs - 1
  BY <1>2, SnowflakeAssumption DEF Word, MachineIds, Less, Advance
<1>3. CASE ~(t > w.time) /\ w.seq # Seqs - 1
  BY <1>3, AddOneGrows DEF Advance
<1> QED BY <1>1, <1>2, <1>3

LEMMA IdleCall == Idle \in Call
  BY ZeroWord, SnowflakeAssumption DEF Call, Idle

\* A step that changes one goroutine's call and no state.
LEMMA CallEffect ==
    ASSUME IInv, NEW g \in Goroutines, NEW c \in Call,
           call' = [call EXCEPT ![g] = c], UNCHANGED <<state, taken>>,
           c.pc = "cas" => Less(c.current, c.next)
    PROVE  IInv'
<1>1. TypeOK'
  BY DEF IInv, TypeOK
<1>2. AttemptsGrow'
  BY DEF IInv, TypeOK, AttemptsGrow
<1>3. BelowState' /\ Ascending'
  BY DEF IInv, BelowState, Ascending
<1> QED BY <1>1, <1>2, <1>3 DEF IInv

\* A call takes effect with a greater state than its server's.
LEMMA TakeEffect ==
    ASSUME IInv, NEW g \in Goroutines, NEW w \in Word,
           Less(state[ServerOf[g]], w), Take(g, w),
           call' = [call EXCEPT ![g] = Idle]
    PROVE  IInv'
<1> DEFINE p == ServerOf[g]
<1>1. p \in Servers /\ taken[p] \in Seq(Word) /\ state[p] \in Word
  BY SnowflakeAssumption DEF IInv, TypeOK
<1>2. TypeOK'
  BY <1>1, IdleCall DEF IInv, TypeOK, Take
<1>3. AttemptsGrow'
  BY DEF IInv, TypeOK, AttemptsGrow, Idle
<1>4. taken'[p] = Append(taken[p], w) /\ state'[p] = w
  BY <1>1 DEF IInv, TypeOK, Take
<1>5. \A q \in Servers \ {p} : taken'[q] = taken[q] /\ state'[q] = state[q]
  BY <1>1 DEF IInv, TypeOK, Take
<1>6. ASSUME NEW i \in 1 .. Len(taken[p])
      PROVE  taken[p][i] \in Word /\ Less(taken[p][i], w)
  BY <1>1, LessTrans DEF IInv, BelowState
<1>7. BelowState'
  <2> SUFFICES ASSUME NEW q \in Servers, NEW i \in 1 .. Len(taken'[q])
               PROVE  AtMost(taken'[q][i], state'[q])
    BY DEF BelowState, AtMost, Less
  <2>1. CASE q # p
    BY <2>1, <1>5 DEF IInv, BelowState
  <2>2. CASE q = p /\ i \in 1 .. Len(taken[p])
    BY <2>2, <1>1, <1>4, <1>6 DEF AtMost
  <2>3. CASE q = p /\ i = Len(taken[p]) + 1
    BY <2>3, <1>1, <1>4 DEF AtMost
  <2> QED BY <2>1, <2>2, <2>3, <1>1, <1>4
<1>8. Ascending'
  <2> SUFFICES ASSUME NEW q \in Servers, NEW i \in 1 .. Len(taken'[q]),
                      NEW j \in 1 .. Len(taken'[q]), i < j
               PROVE  Less(taken'[q][i], taken'[q][j])
    BY DEF Ascending, Less
  <2>1. CASE q # p
    BY <2>1, <1>5 DEF IInv, Ascending
  <2>2. CASE q = p /\ j \in 1 .. Len(taken[p])
    BY <2>2, <1>1, <1>4 DEF IInv, Ascending
  <2>3. CASE q = p /\ j = Len(taken[p]) + 1
    BY <2>3, <1>1, <1>4, <1>6
  <2> QED BY <2>1, <2>2, <2>3, <1>1, <1>4
<1> QED BY <1>2, <1>3, <1>7, <1>8 DEF IInv

LEMMA InitInvariant == Init => IInv
<1> SUFFICES ASSUME Init PROVE IInv
  OBVIOUS
<1>1. TypeOK
  BY ZeroWord, IdleCall DEF Init, TypeOK
<1>2. AttemptsGrow
  BY DEF Init, AttemptsGrow, Idle
<1>3. BelowState /\ Ascending
  BY DEF Init, BelowState, Ascending
<1> QED BY <1>1, <1>2, <1>3 DEF IInv

LEMMA NextInvariant == IInv /\ [Next]_vars => IInv'
<1> SUFFICES ASSUME IInv, [Next]_vars PROVE IInv'
  OBVIOUS
<1>1. CASE UNCHANGED vars
  BY <1>1 DEF vars, IInv, TypeOK, AttemptsGrow, BelowState, Ascending
<1>2. ASSUME NEW g \in Goroutines, NextStep(g) PROVE IInv'
  <2>1. call[g] \in Call /\ ServerOf[g] \in Servers
        /\ state[ServerOf[g]] \in Word
    BY SnowflakeAssumption DEF IInv, TypeOK
  <2>2. CASE Begin(g)
    <3> DEFINE c == [Idle EXCEPT !.pc = "now", !.left = Attempts]
    <3>1. Attempts \in 0 .. Attempts
      BY SnowflakeAssumption
    <3>2. c \in Call /\ c.pc # "cas"
      BY IdleCall, <3>1 DEF Call
    <3>3. call' = [call EXCEPT ![g] = c] /\ UNCHANGED <<state, taken>>
      BY <2>2 DEF Begin, Step
    <3> HIDE DEF c
    <3> QED BY <3>2, <3>3, CallEffect
  <2>3. CASE Now(g)
    <3>1. PICK t \in Times :
            /\ call' = [call EXCEPT ![g] = [call[g] EXCEPT !.pc = "load", !.t = t]]
            /\ UNCHANGED <<state, taken>>
      BY <2>3 DEF Now, Step
    <3> t \in Nat
      BY SnowflakeAssumption DEF Times
    <3>2. [call[g] EXCEPT !.pc = "load", !.t = t] \in Call
      BY <2>1 DEF Call
    <3>3. [call[g] EXCEPT !.pc = "load", !.t = t].pc # "cas"
      BY <2>1 DEF Call
    <3> QED BY <3>1, <3>2, <3>3, CallEffect
  <2>4. CASE Load(g)
    <3> DEFINE w == state[ServerOf[g]]
               n == Advance(w, call[g].t)
               c == [call[g] EXCEPT !.pc = "cas", !.current = w, !.next = n]
    <3>1. n \in Word /\ Less(w, n)
      BY <2>1, AdvanceGrows DEF Call
    <3>2. c \in Call /\ c.current = w /\ c.next = n
      <4> HIDE DEF n
      <4> QED BY <2>1, <3>1 DEF Call
    <3>3. call' = [call EXCEPT ![g] = c] /\ UNCHANGED <<state, taken>>
      BY <2>4 DEF Load, Step
    <3> HIDE DEF c
    <3> QED BY <3>1, <3>2, <3>3, CallEffect
  <2>5. CASE SwapFails(g)
    <3> DEFINE c(pc, left) == [call[g] EXCEPT !.pc = pc, !.left = left]
    <3>1. /\ call[g].left - 1 \in 0 .. Attempts \/ call[g].left = 0
          /\ 0 \in 0 .. Attempts
      BY <2>1, SnowflakeAssumption DEF Call
    <3>2. ASSUME NEW pc \in {"now", "add"}, NEW left \in 0 .. Attempts
          PROVE  c(pc, left) \in Call /\ c(pc, left).pc # "cas"
      BY <2>1 DEF Call
    <3>3. CASE call[g].left > 1
      <4>1. call' = [call EXCEPT ![g] = c("now", call[g].left - 1)]
        BY <2>5, <3>3 DEF SwapFails, Step
      <4>2. call[g].left - 1 \in 0 .. Attempts
        BY <3>1, <3>3
      <4>3. UNCHANGED <<state, taken>>
        BY <2>5 DEF SwapFails
      <4> HIDE DEF c
      <4> QED BY <4>1, <4>2, <4>3, <3>2, CallEffect
    <3>4. CASE call[g].left = 1
      <4>1. call' = [call EXCEPT ![g] = c("add", 0)]
        BY <2>5, <3>4 DEF SwapFails, Step
      <4>2. UNCHANGED <<state, taken>>
        BY <2>5 DEF SwapFails
      <4> HIDE DEF c
      <4> QED BY <4>1, <4>2, <3>1, <3>2, CallEffect
    <3> QED BY <2>5, <3>3, <3>4 DEF SwapFails
  <2>6. CASE Swap(g)
    <3>1. call[g].pc = "cas" /\ Less(state[ServerOf[g]], call[g].next)
          /\ call[g].next \in Word
      BY <2>6, <2>1 DEF Swap, Step, IInv, AttemptsGrow, Call
    <3> QED BY <2>6, <3>1, TakeEffect DEF Swap, Step
  <2>7. CASE Add(g)
    BY <2>7, <2>1, AddOneGrows, TakeEffect DEF Add, Step
  <2> QED BY <1>2, <2>2, <2>3, <2>4, <2>5, <2>6, <2>7 DEF NextStep
<1> QED BY <1>1, <1>2 DEF Next

THEOREM Invariant == Spec => []IInv
  BY InitInvariant, NextInvariant, PTL DEF Spec

\* The generator's words and the locals of its callers stay in their fields.
THEOREM TypeCorrect == Spec => []TypeOK
<1>1. IInv => TypeOK
  BY DEF IInv
<1> QED BY <1>1, Invariant, PTL

\* The calls of a server take ever greater states, whatever the clocks say.
THEOREM StatesAscend == Spec => []Ascending
<1>1. IInv => Ascending
  BY DEF IInv
<1> QED BY <1>1, Invariant, PTL

\* Two calls that did not roll over never return the same id.
LEMMA AscendingIsUnique == IInv => Unique
<1> SUFFICES ASSUME IInv, NEW p \in Servers, NEW q \in Servers,
                    p = q \/ Machine[p] # Machine[q],
                    NEW i \in 1 .. Len(taken[p]), NEW j \in 1 .. Len(taken[q]),
                    ~Rolled(taken[p][i]), ~Rolled(taken[q][j]),
                    <<p, i>> # <<q, j>>
             PROVE  Id(p, taken[p][i]) # Id(q, taken[q][j])
  BY DEF Unique
<1>1. taken[p][i] \in Word /\ taken[q][j] \in Word
  BY DEF IInv, TypeOK
<1>2. Or[<<taken[p][i].machine, Machine[p]>>] = Machine[p]
      /\ Or[<<taken[q][j].machine, Machine[q]>>] = Machine[q]
  <2>1. Machine[p] \in MachineIds /\ Machine[q] \in MachineIds
    BY SnowflakeAssumption
  <2> QED BY <2>1, OrAssumption DEF Rolled
<1>3. /\ Id(p, taken[p][i]).machine = Machine[p]
      /\ Id(p, taken[p][i]).time = taken[p][i].time
      /\ Id(p, taken[p][i]).seq = taken[p][i].seq
  BY <1>1, <1>2 DEF Id, Word
<1>4. /\ Id(q, taken[q][j]).machine = Machine[q]
      /\ Id(q, taken[q][j]).time = taken[q][j].time
      /\ Id(q, taken[q][j]).seq = taken[q][j].seq
  BY <1>1, <1>2 DEF Id, Word
<1>5. CASE Machine[p] # Machine[q]
  BY <1>3, <1>4, <1>5
<1>6. CASE p = q /\ i # j
  <2>1. Less(taken[p][i], taken[p][j]) \/ Less(taken[p][j], taken[p][i])
    <3>1. i < j \/ j < i
      BY <1>6
    <3> QED BY <3>1, <1>6 DEF IInv, Ascending
  <2>2. taken[p][i].machine = 0 /\ taken[p][j].machine = 0
    BY <1>6 DEF Rolled
  <2>3. taken[p][i].time # taken[p][j].time \/ taken[p][i].seq # taken[p][j].seq
    BY <2>1, <2>2, <1>1, <1>6 DEF Less, Word
  <2> QED BY <2>3, <1>3, <1>4, <1>6
<1> QED BY <1>5, <1>6

THEOREM IdsUnique == Spec => []Unique
  BY AscendingIsUnique, Invariant, PTL
==============================================================================
