------------------------- MODULE NetworkDevicesProofs -------------------------
(****************************************************************************)
(* Proofs for every number of handlers, organizations, devices, collectors  *)
(* and kapacitors, every interleaving, faults and crashes included.         *)
(****************************************************************************)
EXTENDS NetworkDevices, Induction

----------------------------------------------------------------------------
(* Removed devices. *)

SeqInv == deviceSeq \in Nat

NoRevival ==
    \A d \in DeviceIds :
        d <= deviceSeq /\ devices[d] = Absent => devices'[d] = Absent

\* What every action leaves alone, or does to the devices.
LEMMA DevicesKept ==
    ASSUME SeqInv, UNCHANGED deviceVars
    PROVE  SeqInv' /\ NoRevival
  BY DEF SeqInv, NoRevival, deviceVars

LEMMA PutKeepsAbsent ==
    ASSUME SeqInv, NEW d, NEW rec, PutDevice(d, rec)
    PROVE  SeqInv' /\ NoRevival
  BY DEF SeqInv, NoRevival, PutDevice

\* Every step: a device is made with a new id, put if it is there, or deleted.
LEMMA DevicesNext ==
    ASSUME SeqInv, [Next]_vars
    PROVE  SeqInv' /\ NoRevival
<1>1. CASE UNCHANGED vars
  BY <1>1, DevicesKept DEF vars, deviceVars
<1>2. CASE Crash
  BY <1>2, DevicesKept DEF Crash, deviceVars
<1>3. ASSUME NEW r \in Requests, BeginRequest(r)
      PROVE  UNCHANGED deviceVars
  <2>1. \A l : Begin(r, l) => UNCHANGED deviceVars
    BY DEF Begin, deviceVars
  <2>2. CASE BeginNewDevices(r) \/ BeginUpdateNetworkDevice(r)
    BY <2>1, <2>2 DEF BeginNewDevices, BeginUpdateNetworkDevice
  <2>3. CASE BeginManage(r)
    BY <2>1, <2>3 DEF BeginManage
  <2>4. CASE BeginAddOrg(r) \/ BeginRemoveOrg(r)
    BY <2>1, <2>4 DEF BeginAddOrg, BeginRemoveOrg
  <2>5. CASE BeginUpdateOrg(r)
    BY <2>1, <2>5, ZenonT(60) DEF BeginUpdateOrg
  <2> QED BY <1>3, <2>2, <2>3, <2>4, <2>5 DEF BeginRequest
<1>4. ASSUME NEW r \in Requests, DevicesStep(r)
      PROVE  SeqInv' /\ NoRevival
  <2>1. CASE KnownAddress(r) \/ UpdateDeviceGet(r) \/ UpdateDeviceCheck(r)
    BY <2>1, DevicesKept DEF KnownAddress, UpdateDeviceGet, UpdateDeviceCheck,
                             Reads, StoresKeep, deviceVars
  <2>2. CASE CreateDevice(r)
    BY <2>2 DEF CreateDevice, SeqInv, NoRevival, deviceVars
  <2>3. CASE UpdateDevicePut(r)
    BY <2>3, PutKeepsAbsent DEF UpdateDevicePut
  <2> QED BY <1>4, <2>1, <2>2, <2>3 DEF DevicesStep
<1>5. ASSUME NEW r \in Requests, ManageStep(r)
      PROVE  SeqInv' /\ NoRevival
  <2>1. CASE PutDevices(r)
    BY <2>1, PutKeepsAbsent DEF PutDevices
  <2>2. CASE DeleteDevice(r)
    BY <2>2 DEF DeleteDevice, SeqInv, NoRevival, deviceVars
  <2>3. CASE ManageGet(r) \/ CollectOrgs(r) \/ RemovePrevious(r) \/ ReadDevice(r)
             \/ HaveOrg(r)
    BY <2>3, DevicesKept DEF ManageGet, CollectOrgs, RemovePrevious, ReadDevice,
                             HaveOrg, Reads, StoresKeep, deviceVars
  <2>4. CASE WriteFile(r) \/ PutOrg(r) \/ RemovePut(r)
    BY <2>4, DevicesKept DEF WriteFile, PutOrg, RemovePut, deviceVars
  <2>5. ASSUME NEW o \in Orgs,
               RemoveCheck(r, o) \/ CollectGroup(r, o) \/ LearnGroup(r, o)
                 \/ RemoveGroup(r, o) \/ OpenOrg(r, o)
        PROVE  UNCHANGED deviceVars
    BY <2>5 DEF RemoveCheck, CollectGroup, LearnGroup, RemoveGroup, OpenOrg,
                Reads, StoresKeep, deviceVars
  <2> QED BY <1>5, <2>1, <2>2, <2>3, <2>4, <2>5, DevicesKept DEF ManageStep
<1>6. ASSUME NEW r \in Requests, OrgsStep(r)
      PROVE  UNCHANGED deviceVars
  BY <1>6 DEF OrgsStep, AddOrg, DropTask, TaskGet, TaskPut, UpdateOrgPut,
              RemoveOrg, deviceVars
<1> QED
  BY <1>1, <1>2, <1>3, <1>4, <1>5, <1>6, DevicesKept DEF Next, Step

\* On bolt a removed device stays removed, whatever copies of it handlers hold and
\* in whatever order they put them (UpdateDevice, PutDevices), and its id is not
\* handed out again: Update of kv/network_device.go looks for the record in a View
\* nested in its own transaction, and bolt writes nothing in between.
THEOREM RemovedForGood == Spec => RemovedStaysRemoved
<1>1. Init => SeqInv
  BY DEF Init, SeqInv
<1>2. SeqInv /\ [Next]_vars => SeqInv' /\ [NoRevival]_vars
  BY DevicesNext
<1> QED
  BY <1>1, <1>2, PTL DEF Spec, RemovedStaysRemoved, NoRevival
----------------------------------------------------------------------------
(* Lists of devices. *)

LEMMA KeepSteps ==
    ASSUME NEW A, NEW list \in Seq(A), NEW I
    PROVE  \E kept : /\ KeepAt(list, I) = kept[Len(list)]
                     /\ kept[0] = <<>>
                     /\ \A i \in 1 .. Len(list) :
                          kept[i] = IF i \in I THEN Append(kept[i - 1], list[i])
                                    ELSE kept[i - 1]
<1> DEFINE n == Len(list)
           Next1(f, i) == IF i = 0 THEN <<>>
                          ELSE IF i \in I THEN Append(f[i - 1], list[i])
                          ELSE f[i - 1]
           G == [p \in {<<i, x>> : i \in 1 .. n, x \in Seq(A)} |->
                   IF p[1] \in I THEN Append(p[2], list[p[1]]) ELSE p[2]]
           kept == CHOOSE f : f = [i \in 0 .. n |-> Next1(f, i)]
<1>1. n \in Nat
  OBVIOUS
<1>2. PICK g : Iterates(g, n, <<>>, G)
  <2> HIDE DEF G, n
  <2> QED BY <1>1, Iteration
<1> DEFINE f == [i \in 0 .. n |-> g[i]]
<1>3. \A i \in 0 .. n : f[i] = IF i = 0 THEN <<>> ELSE G[<<i, f[i - 1]>>]
  <2> HIDE DEF G, n
  <2> QED BY <1>1, <1>2 DEF Iterates
<1>12. f = [i \in 0 .. n |-> f[i]]
  OBVIOUS
<1> HIDE DEF f
<1>4. 0 .. n \subseteq {i \in 0 .. n : f[i] \in Seq(A)}
  <2> DEFINE L == {i \in 0 .. n : f[i] \in Seq(A)}
  <2>1. 0 \in L
    <3>1. 0 \in 0 .. n /\ <<>> \in Seq(A)
      BY <1>1
    <3> HIDE DEF n, G
    <3>2. f[0] = <<>>
      BY <1>3, <3>1
    <3> QED BY <3>1, <3>2
  <2>2. ASSUME NEW i \in 1 .. n, i - 1 \in L
        PROVE  i \in L
    <3>1. f[i] = G[<<i, f[i - 1]>>] /\ f[i - 1] \in Seq(A) /\ i \in 0 .. n
      <4> HIDE DEF G
      <4> QED BY <2>2, <1>3
    <3> HIDE DEF n
    <3>2. <<i, f[i - 1]>> \in DOMAIN G
      BY <3>1
    <3>3. G[<<i, f[i - 1]>>] = IF i \in I THEN Append(f[i - 1], list[i]) ELSE f[i - 1]
      BY <3>2
    <3>4. list[i] \in A
      BY DEF n
    <3>5. Append(f[i - 1], list[i]) \in Seq(A)
      BY <3>1, <3>4
    <3> HIDE DEF G
    <3> QED BY <3>1, <3>3, <3>5
  <2> HIDE DEF L, n
  <2>3. 0 .. n \subseteq L
    BY <1>1, <2>1, <2>2, IntervalInduction
  <2> QED BY <2>3 DEF L
<1>5. f = [i \in 0 .. n |-> Next1(f, i)]
  <2>1. ASSUME NEW i \in 0 .. n
        PROVE  f[i] = Next1(f, i)
    <3>1. CASE i = 0
      <4> HIDE DEF n, G
      <4>1. f[0] = <<>>
        BY <1>3, <3>1
      <4> QED BY <4>1, <3>1
    <3>2. CASE i # 0
      <4> HIDE DEF n
      <4>1. i \in 1 .. n /\ i - 1 \in 0 .. n /\ i > 0
        BY <1>1, <3>2
      <4>2. f[i - 1] \in Seq(A)
        BY <4>1, <1>4
      <4>3. <<i, f[i - 1]>> \in DOMAIN G
        BY <4>1, <4>2
      <4>4. G[<<i, f[i - 1]>>] = IF i \in I THEN Append(f[i - 1], list[i])
                                 ELSE f[i - 1]
        BY <4>3
      <4>5. f[i] = G[<<i, f[i - 1]>>]
        <5> HIDE DEF G
        <5> QED BY <1>3, <3>2
      <4> HIDE DEF G
      <4> QED BY <4>1, <4>4, <4>5
    <3> QED BY <3>1, <3>2
  <2> HIDE DEF Next1, G, n
  <2> QED BY <1>12, <2>1
<1>6. kept = [i \in 0 .. n |-> Next1(kept, i)]
  <2> HIDE DEF Next1, n
  <2> QED BY <1>5
<1>7. KeepAt(list, I) = kept[n]
  BY DEF KeepAt
<1>8. \A i \in 0 .. n : kept[i] = Next1(kept, i)
  <2> HIDE DEF Next1, n, kept
  <2> QED BY <1>6
<1>9. \A i \in 1 .. n : i \in 0 .. n /\ i # 0 /\ i > 0
  BY <1>1
<1> HIDE DEF kept, n
<1>10. kept[0] = <<>>
  BY <1>1, <1>8
<1>11. \A i \in 1 .. n : kept[i] = IF i \in I THEN Append(kept[i - 1], list[i])
                                   ELSE kept[i - 1]
  BY <1>8, <1>9
<1> QED BY <1>7, <1>10, <1>11 DEF n

\* What is kept of a list is a list of its members at those positions.
LEMMA KeepAtSeq ==
    ASSUME NEW A, NEW list \in Seq(A), NEW I
    PROVE  KeepAt(list, I) \in Seq({list[i] : i \in I \cap DOMAIN list})
<1> DEFINE n == Len(list)
           E == {list[i] : i \in I \cap DOMAIN list}
<1>1. PICK kept : /\ KeepAt(list, I) = kept[n]
                  /\ kept[0] = <<>>
                  /\ \A i \in 1 .. n :
                       kept[i] = IF i \in I THEN Append(kept[i - 1], list[i])
                                 ELSE kept[i - 1]
  BY KeepSteps
<1> DEFINE L == {i \in 0 .. n : kept[i] \in Seq(E)}
<1>2. n \in Nat /\ \A i \in 1 .. n : i \in I => list[i] \in E
  OBVIOUS
<1> HIDE DEF n, E
<1>3. 0 \in L
  <2>1. 0 \in 0 .. n
    BY <1>2
  <2>2. kept[0] \in Seq(E)
    BY <1>1
  <2> QED BY <2>1, <2>2
<1>4. ASSUME NEW i \in 1 .. n, i - 1 \in L
      PROVE  i \in L
  <2>1. kept[i - 1] \in Seq(E) /\ i \in 0 .. n
    BY <1>2, <1>4
  <2>2. i \in I => Append(kept[i - 1], list[i]) \in Seq(E)
    BY <1>2, <2>1
  <2>3. kept[i] \in Seq(E)
    BY <1>1, <2>1, <2>2
  <2> QED BY <2>1, <2>3
<1> HIDE DEF L
<1>5. 0 .. n \subseteq L
  BY <1>2, <1>3, <1>4, IntervalInduction
<1>6. n \in 0 .. n
  BY <1>2
<1> QED BY <1>1, <1>5, <1>6 DEF L, E

LEMMA KeepAtOf ==
    ASSUME NEW A, NEW list \in Seq(A), NEW I
    PROVE  /\ KeepAt(list, I) \in Seq(A)
           /\ Elements(KeepAt(list, I)) \subseteq {list[i] : i \in I \cap DOMAIN list}
           /\ Elements(KeepAt(list, I)) \subseteq Elements(list)
<1> DEFINE E == {list[i] : i \in I \cap DOMAIN list}
           s == KeepAt(list, I)
<1>1. s \in Seq(E)
  BY KeepAtSeq
<1>2. E \subseteq A /\ E \subseteq Elements(list)
  BY DEF Elements
<1> HIDE DEF E, s
<1>3. Elements(s) \subseteq E /\ s \in Seq(A)
  BY <1>1, <1>2 DEF Elements
<1> QED BY <1>2, <1>3 DEF E, s

LEMMA KeepOf ==
    ASSUME NEW A, NEW list \in Seq(A), NEW S
    PROVE  /\ Keep(list, S) \in Seq(A) /\ Drop(list, S) \in Seq(A)
           /\ DropFirst(list, S) \in Seq(A)
           /\ Elements(Keep(list, S)) \subseteq Elements(list) \cap S
           /\ Elements(Drop(list, S)) \subseteq Elements(list)
<1>1. Keep(list, S) \in Seq(A) /\ Drop(list, S) \in Seq(A)
      /\ DropFirst(list, S) \in Seq(A)
  BY KeepAtOf DEF Keep, Drop, DropFirst
<1>2. \A T : Elements(Keep(list, T)) \subseteq Elements(list)
  BY KeepAtOf DEF Keep
<1>3. Elements(Keep(list, S)) \subseteq {list[i] : i \in {k \in DOMAIN list : list[k] \in S}}
  <2> DEFINE I == {k \in DOMAIN list : list[k] \in S}
  <2>1. Elements(KeepAt(list, I)) \subseteq {list[i] : i \in I \cap DOMAIN list}
    BY KeepAtOf
  <2> QED BY <2>1 DEF Keep
<1> QED BY <1>1, <1>2, <1>3 DEF Drop

\* The devices of a group that are to be on a list are added, the others removed.
LEMMA WithGroupSeq ==
    ASSUME NEW A, NEW list \in Seq(A), NEW group \in Seq(A), NEW on
    PROVE  WithGroup(list, group, on) \in Seq(A)
<1> DEFINE s == DropFirst(list, Elements(group) \ on)
           t == Keep(group, on \ Elements(list))
<1>1. s \in Seq(A) /\ t \in Seq(A)
  BY KeepOf
<1> HIDE DEF s, t
<1>2. s \o t \in Seq(A)
  BY <1>1
<1> QED BY <1>2 DEF WithGroup, s, t

\* RangeRemove: an array of N members of E, and the length of the list in it.
Arrays(N, E) == [1 .. N -> E] \X (0 .. N)

\* One round of the loop: what is at i is removed, if it is to go.
Round(p, i, gone, N) ==
    LET a == p[1]
        n == p[2]
        at == {j \in 1 .. n : a[j] = a[i]}
    IN  IF a[i] \notin gone \/ at = {} THEN p
        ELSE <<[j \in 1 .. N |->
                  IF Min(at) <= j /\ j < n THEN a[j + 1] ELSE a[j]], n - 1>>

LEMMA RoundOf ==
    ASSUME NEW N \in Nat, NEW E, NEW p \in Arrays(N, E), NEW i \in 1 .. N, NEW gone
    PROVE  Round(p, i, gone, N) \in Arrays(N, E)
<1> DEFINE a == p[1]
           n == p[2]
           at == {j \in 1 .. n : a[j] = a[i]}
           b == [j \in 1 .. N |-> IF Min(at) <= j /\ j < n THEN a[j + 1] ELSE a[j]]
<1>1. a \in [1 .. N -> E] /\ n \in 0 .. N
  BY DEF Arrays
<1>2. CASE a[i] \notin gone \/ at = {}
  BY <1>2 DEF Round
<1>3. CASE a[i] \in gone /\ at # {}
  <2>1. Round(p, i, gone, N) = <<b, n - 1>>
    BY <1>3 DEF Round
  <2> DEFINE m == Min(at)
  <2>2. n \in 1 .. N
    BY <1>1, <1>3
  <2> HIDE DEF m, at, a, n
  <2>3. \A j \in 1 .. N : j < n => j + 1 \in 1 .. N
    BY <1>1
  <2>4. b \in [1 .. N -> E]
    BY <1>1, <2>3
  <2>5. n - 1 \in 0 .. N
    BY <2>2, <1>1
  <2> HIDE DEF b
  <2>6. <<b, n - 1>> \in [1 .. N -> E] \X (0 .. N)
    BY <2>4, <2>5
  <2> QED BY <2>1, <2>6 DEF Arrays
<1> QED BY <1>2, <1>3

\* Every round leaves such an array, so the list that is left names no device
\* that the list did not name.
LEMMA RangeRemoveSeq ==
    ASSUME NEW A, NEW list \in Seq(A), NEW gone
    PROVE  /\ RangeRemove(list, gone) \in Seq(A)
           /\ Elements(RangeRemove(list, gone)) \subseteq Elements(list)
<1> DEFINE N == Len(list)
           E == Elements(list)
           X == Arrays(N, E)
           x0 == <<list, N>>
           G == [q \in {<<i, p>> : i \in 1 .. N, p \in X} |-> Round(q[2], q[1], gone, N)]
           Next1(f, i) ==
               IF i = 0 THEN <<list, Len(list)>>
               ELSE LET a == f[i - 1][1]
                        n == f[i - 1][2]
                        at == {j \in 1 .. n : a[j] = a[i]}
                    IN  IF a[i] \notin gone \/ at = {} THEN f[i - 1]
                        ELSE <<[j \in 1 .. Len(list) |->
                                  IF Min(at) <= j /\ j < n THEN a[j + 1] ELSE a[j]],
                               n - 1>>
           step == CHOOSE f : f = [i \in 0 .. Len(list) |-> Next1(f, i)]
<1>1. N \in Nat /\ list \in [1 .. N -> E] /\ E \subseteq A
  BY DEF Elements
<1>2. x0 \in X
  <2> HIDE DEF N, E
  <2> QED BY <1>1 DEF Arrays
<1>3. PICK g : Iterates(g, N, x0, G)
  <2> HIDE DEF G, N, x0
  <2> QED BY <1>1, Iteration
<1> DEFINE f == [i \in 0 .. N |-> g[i]]
<1>4. \A i \in 0 .. N : f[i] = IF i = 0 THEN x0 ELSE G[<<i, f[i - 1]>>]
  <2> HIDE DEF G, N, x0
  <2> QED BY <1>1, <1>3 DEF Iterates
<1>5. f = [i \in 0 .. N |-> f[i]]
  OBVIOUS
<1> HIDE DEF f
<1>6. \A i \in 1 .. N, p \in X : G[<<i, p>>] = Round(p, i, gone, N)
  <2> HIDE DEF X, N
  <2> QED OBVIOUS
<1>7. \A i \in 0 .. N : f[i] \in X
  <2> DEFINE L == {i \in 0 .. N : f[i] \in X}
  <2> HIDE DEF G, N, E, X, x0
  <2>1. 0 \in L
    <3>1. 0 \in 0 .. N
      BY <1>1
    <3> QED BY <1>2, <1>4, <3>1
  <2>2. ASSUME NEW i \in 1 .. N, i - 1 \in L
        PROVE  i \in L
    <3>1. f[i - 1] \in X /\ i \in 0 .. N /\ i # 0
      BY <1>1, <2>2
    <3>2. f[i] = Round(f[i - 1], i, gone, N)
      BY <1>4, <1>6, <3>1
    <3>3. f[i] \in X
      BY <1>1, <3>1, <3>2, RoundOf DEF X
    <3> QED BY <3>1, <3>3
  <2> HIDE DEF L
  <2>3. 0 .. N \subseteq L
    BY <1>1, <2>1, <2>2, IntervalInduction
  <2> QED BY <2>3 DEF L
<1>8. \A i \in 0 .. N : f[i] = Next1(f, i)
  <2>1. SUFFICES ASSUME NEW i \in 0 .. N PROVE f[i] = Next1(f, i)
    OBVIOUS
  <2>2. CASE i = 0
    <3> HIDE DEF G, N
    <3>1. f[0] = x0
      BY <1>4, <2>2
    <3> QED BY <2>2, <3>1 DEF N
  <2>3. CASE i # 0
    <3>1. i \in 1 .. N /\ i - 1 \in 0 .. N
      <4> HIDE DEF N
      <4> QED BY <1>1, <2>3
    <3>2. f[i] = G[<<i, f[i - 1]>>]
      <4> HIDE DEF N, G
      <4> QED BY <1>4, <2>3
    <3>3. f[i] = Round(f[i - 1], i, gone, N)
      <4> HIDE DEF N, G, X
      <4> QED BY <3>1, <3>2, <1>6, <1>7
    <3> HIDE DEF G
    <3> QED BY <2>3, <3>3 DEF Round
  <2> QED BY <2>2, <2>3
<1>9. step = [i \in 0 .. N |-> Next1(step, i)]
  <2>1. f = [i \in 0 .. N |-> Next1(f, i)]
    <3> HIDE DEF Next1, N
    <3> QED BY <1>5, <1>8
  <2> HIDE DEF Next1
  <2> QED BY <2>1
<1>10. \A i \in 0 .. N : step[i] = Next1(step, i)
  <2> HIDE DEF Next1, N, step
  <2> QED BY <1>9
<1>11. RangeRemove(list, gone) = SubSeq(step[N][1], 1, step[N][2])
  BY DEF RangeRemove
<1> HIDE DEF step
<1>12. step[0] = x0
  <2>1. 0 \in 0 .. N
    BY <1>1
  <2> QED BY <1>10, <2>1
<1>13. \A i \in 1 .. N : step[i] = Round(step[i - 1], i, gone, N)
  <2>1. \A i \in 1 .. N : i \in 0 .. N /\ i # 0
    OBVIOUS
  <2> QED BY <1>10, <2>1 DEF Round
<1>14. step[N] \in X
  <2> DEFINE L == {i \in 0 .. N : step[i] \in X}
  <2> HIDE DEF N, E, X, x0
  <2>1. 0 \in L
    <3>1. 0 \in 0 .. N
      BY <1>1
    <3> QED BY <1>2, <1>12, <3>1
  <2>2. ASSUME NEW i \in 1 .. N, i - 1 \in L
        PROVE  i \in L
    <3>1. step[i - 1] \in X /\ i \in 0 .. N
      BY <1>1, <2>2
    <3>2. step[i] \in X
      BY <1>1, <1>13, <3>1, RoundOf DEF X
    <3> QED BY <3>1, <3>2
  <2> HIDE DEF L
  <2>3. 0 .. N \subseteq L
    BY <1>1, <2>1, <2>2, IntervalInduction
  <2>4. N \in 0 .. N
    BY <1>1
  <2> QED BY <2>3, <2>4 DEF L
<1> DEFINE a == step[N][1]
           n == step[N][2]
           s == SubSeq(a, 1, n)
<1>15. a \in [1 .. N -> E] /\ n \in 0 .. N
  <2> HIDE DEF N, E
  <2> QED BY <1>14 DEF Arrays
<1> HIDE DEF a, n, N, E
<1>16. a \in Seq(E) /\ Len(a) = N
  BY <1>1, <1>15
<1>17. s \in Seq(E) /\ Len(s) = n /\ \A j \in 1 .. n : s[j] = a[j] /\ s[j] \in E
  BY <1>1, <1>15, <1>16
<1> HIDE DEF s
<1>18. s \in Seq(A)
  BY <1>1, <1>17
<1>19. Elements(s) \subseteq E
  BY <1>15, <1>17, <1>18 DEF Elements
<1> QED BY <1>11, <1>18, <1>19 DEF s, a, n, E, N

----------------------------------------------------------------------------
(* Types, those of the handlers' locals included. *)

\* Absent is a value of its own: no kapacitor, no record of an organization.
Record(t, fields) == t = [x \in fields |-> t[x]]
IsOrg(t) == Record(t, {"collected", "learned", "collector", "kapa", "cron"})
AbsentApart == Absent \notin Kapas /\ \A t : IsOrg(t) => t # Absent

DeviceLocal(l) ==
    /\ l.op \in {"NewDevice", "NewDevices", "UpdateNetworkDevice"}
    /\ l.pc \in {"new.entry", "ud.get", "ud.check", "ud.put"}
    /\ Record(l, {"op", "pc", "alone", "asked", "known", "id", "copy"})
    /\ l.asked \in Seq(Device) /\ l.asked # <<>>
    /\ l.pc \in {"ud.check", "ud.put"} => l.copy \in Device

\* What MonitoringConfigManagement, LearningDeviceManagement and RemoveDevices
\* carry, wherever they are.
ManageData(l) ==
    /\ l.op \in {"Collect", "Learn", "Remove"}
    /\ Record(l, {"op", "pc", "alone", "asked", "on", "rest", "copies", "failed",
                  "keys", "home", "todo", "left", "org", "entries", "restarted",
                  "found"})
    /\ l.asked \in Seq(DeviceIds) /\ l.asked # <<>> /\ l.rest \in Seq(DeviceIds)
    /\ \A d \in DOMAIN l.copies : l.copies[d] \in Device
    /\ DOMAIN l.todo \subseteq Orgs /\ \A o \in DOMAIN l.todo : l.todo[o] \in DeviceOrg
    /\ \A o \in DOMAIN l.home : l.home[o] \in Collectors
    /\ l.entries \subseteq DeviceIds \X IPs /\ l.left \subseteq Orgs

ManageLocal(l) ==
    /\ ManageData(l)
    /\ l.pc \in {"get", "orgs", "rm.check", "prev", "group", "org", "read", "have",
                 "put", "devices", "rm.put", "rm.device"}
    /\ l.pc = "org" => l.left \subseteq DOMAIN l.todo
    /\ l.pc \in {"read", "have", "put", "rm.put"} => l.org \in DOMAIN l.todo
    /\ l.pc \in {"get", "devices", "rm.device"} => l.rest # <<>>
    /\ l.pc = "devices" => Elements(l.rest) \subseteq DOMAIN l.copies

OrgLocal(l) ==
    /\ l.op \in {"AddOrg", "UpdateOrg"}
    /\ l.pc \in {"ao.add", "uo.drop", "task.get", "task.put", "uo.put"}
    /\ Record(l, {"op", "pc", "alone", "org", "rec", "old", "found"})
    /\ l.org \in Orgs /\ l.rec \in DeviceOrg
    /\ l.pc = "uo.drop" => l.old \in Kapas

RemoveOrgLocal(l) ==
    /\ l.op = "RemoveOrg" /\ l.pc = "ro.delete"
    /\ Record(l, {"op", "pc", "alone", "org"}) /\ l.org \in Orgs

TypedLocal(l) ==
    l = Idle \/ DeviceLocal(l) \/ ManageLocal(l) \/ OrgLocal(l) \/ RemoveOrgLocal(l)

\* TypeOK, made inductive.
TypeInv ==
    /\ TypeOK
    /\ req = [r \in Requests |-> req[r]]
    /\ \A r \in Requests : TypedLocal(req[r])

\* A step of one handler.
LEMMA TypeStep ==
    ASSUME TypeInv, NEW r \in Requests, NEW m, Go(r, m), TypeOK', TypedLocal(m)
    PROVE  TypeInv'
<1>1. \A q \in Requests : req'[q] = IF q = r THEN m ELSE req[q]
  BY DEF TypeInv, Go
<1>2. req' = [q \in Requests |-> req'[q]]
  BY DEF TypeInv, Go
<1> QED BY <1>1, <1>2 DEF TypeInv

\* One that changes no store.
LEMMA TypeRead ==
    ASSUME TypeInv, NEW r \in Requests, NEW m, Go(r, m), Reads,
           TypedLocal(m)
    PROVE  TypeInv'
<1>1. TypeOK'
  BY DEF TypeInv, TypeOK, Reads, StoresKeep, history, Works
<1> QED BY <1>1, TypeStep

\* One that may fail, and changes nothing else.
LEMMA TypeCall ==
    ASSUME TypeInv, NEW r \in Requests, NEW m, Go(r, m), StoresKeep,
           Works \/ (\E kind : Fails(kind)), TypedLocal(m)
    PROVE  TypeInv'
<1>1. faults' \in 0 .. MaxFaults
  BY NetworkDevicesAssumption DEF TypeInv, TypeOK, Works, Fails
<1>2. TypeOK'
  BY <1>1 DEF TypeInv, TypeOK, StoresKeep, history
<1> QED BY <1>2, TypeStep

LEMMA IdleTyped == TypedLocal(Idle)
BY DEF TypedLocal

\* The turns of the loops.
Turns(m) == m = Idle \/ ManageLocal(m)

LEMMA TurnsTyped ==
    ASSUME NEW m, Turns(m)
    PROVE  TypedLocal(m)
BY DEF Turns, TypedLocal

LEMMA ToOrgsTyped ==
    ASSUME NEW l, ManageData(l)
    PROVE  Turns(ToOrgs(l))
<1>1. CASE l.todo # <<>>
  <2> DEFINE m == [l EXCEPT !.pc = "org", !.left = DOMAIN l.todo, !.on = {},
                            !.keys = {}, !.home = <<>>]
  <2>1. /\ m.pc = "org" /\ m.left = DOMAIN m.todo /\ m.home = <<>>
        /\ m.op = l.op /\ m.asked = l.asked /\ m.rest = l.rest /\ m.copies = l.copies
        /\ m.todo = l.todo /\ m.entries = l.entries
        /\ Record(m, {"op", "pc", "alone", "asked", "on", "rest", "copies", "failed",
                  "keys", "home", "todo", "left", "org", "entries", "restarted",
                  "found"})
    BY DEF ManageData, Record
  <2>2. ToOrgs(l) = m
    BY <1>1 DEF ToOrgs
  <2> HIDE DEF m
  <2>3. DOMAIN m.home = {}
    BY <2>1
  <2>4. ManageData(m)
    BY <2>1, <2>3 DEF ManageData
  <2>5. ManageLocal(m)
    BY <2>1, <2>4 DEF ManageLocal
  <2> QED BY <2>2, <2>5 DEF Turns
<1>2. CASE l.todo = <<>> /\ l.op = "Remove"
  <2> DEFINE m == [l EXCEPT !.pc = "rm.device", !.rest = l.asked, !.copies = <<>>]
  <2>1. /\ m.pc = "rm.device" /\ m.rest = l.asked /\ m.copies = <<>>
        /\ m.op = l.op /\ m.asked = l.asked /\ m.home = l.home /\ m.left = l.left
        /\ m.todo = l.todo /\ m.entries = l.entries
        /\ Record(m, {"op", "pc", "alone", "asked", "on", "rest", "copies", "failed",
                  "keys", "home", "todo", "left", "org", "entries", "restarted",
                  "found"})
    BY DEF ManageData, Record
  <2>2. ToOrgs(l) = m
    BY <1>2 DEF ToOrgs
  <2>3. m.asked \in Seq(DeviceIds)
    BY <2>1 DEF ManageData
  <2> HIDE DEF m
  <2>4. DOMAIN m.copies = {}
    BY <2>1
  <2>5. ManageData(m)
    BY <2>1, <2>3, <2>4 DEF ManageData
  <2>6. ManageLocal(m)
    BY <2>1, <2>5 DEF ManageLocal, ManageData
  <2> QED BY <2>2, <2>6 DEF Turns
<1>3. CASE l.todo = <<>> /\ l.op # "Remove"
  BY <1>3 DEF ToOrgs, Turns
<1> QED
  BY <1>1, <1>2, <1>3

LEMMA NextOrgTyped ==
    ASSUME NEW l, ManageData(l)
    PROVE  Turns(NextOrg(l))
<1> DEFINE m == [l EXCEPT !.todo = [p \in DOMAIN @ \ {l.org} |-> @[p]],
                          !.entries = {}, !.rest = <<>>]
<1>1. m.rest = <<>> /\ <<>> \in Seq(DeviceIds) /\ m.entries = {}
  BY DEF ManageData, Record
<1>2. /\ DOMAIN m.todo \subseteq DOMAIN l.todo
      /\ \A p \in DOMAIN m.todo : m.todo[p] = l.todo[p]
  BY DEF ManageData, Record
<1>3. /\ m.op = l.op /\ m.asked = l.asked /\ m.home = l.home /\ m.left = l.left
      /\ m.copies = l.copies
      /\ Record(m, {"op", "pc", "alone", "asked", "on", "rest", "copies", "failed",
                  "keys", "home", "todo", "left", "org", "entries", "restarted",
                  "found"})
  BY DEF ManageData, Record
<1> HIDE DEF m
<1>4. ManageData(m)
  BY <1>1, <1>2, <1>3 DEF ManageData
<1> QED
  BY <1>4, ToOrgsTyped DEF NextOrg, m

LEMMA SkipOrgTyped ==
    ASSUME NEW l, ManageData(l)
    PROVE  Turns(SkipOrg(l))
<1>1. ManageData([l EXCEPT !.failed = DOMAIN l.copies])
  BY DEF ManageData, Record
<1> QED
  BY <1>1, NextOrgTyped DEF SkipOrg

LEMMA GroupOrgsTyped ==
    ASSUME NEW l, ManageData(l)
    PROVE  GroupOrgs(l) \subseteq Orgs
BY DEF ManageData, GroupOrgs, Device

LEMMA ToGroupsTyped ==
    ASSUME NEW l, ManageData(l)
    PROVE  /\ Turns(ToGroups(l))
           /\ \A o : l.pc = "group" => Turns(NextGroup(l, o))
<1>1. ManageLocal([l EXCEPT !.pc = "group", !.left = GroupOrgs(l)])
  BY GroupOrgsTyped DEF ManageLocal, ManageData, Record
<1>2. \A o : l.pc = "group" => ManageLocal([l EXCEPT !.left = @ \ {o}])
  BY DEF ManageLocal, ManageData, Record
<1> QED
  BY <1>1, <1>2, ToOrgsTyped DEF ToGroups, NextGroup, Turns

\* A group of devices is a list.
LEMMA GroupTyped ==
    ASSUME NEW l, ManageData(l), NEW o
    PROVE  /\ Group(l, o) \in Seq(DeviceIds)
           /\ Elements(Group(l, o)) \subseteq DOMAIN l.copies
<1> DEFINE S == {d \in DOMAIN l.copies : l.copies[d].org = o}
<1>1. l.asked \in Seq(DeviceIds)
  BY DEF ManageData
<1> HIDE DEF S
<1>2. Keep(l.asked, S) \in Seq(DeviceIds) /\ Elements(Keep(l.asked, S)) \subseteq S
  BY <1>1, KeepOf
<1> QED BY <1>2 DEF Group, S

\* Records of organizations, changed.
LEMMA RecordsChange ==
    ASSUME NEW rec \in DeviceOrg
    PROVE  /\ \A s \in Seq(DeviceIds) : [rec EXCEPT !.learned = s] \in DeviceOrg
           /\ \A s \in Seq(DeviceIds), c \in Collectors :
                [rec EXCEPT !.collector = c, !.collected = s] \in DeviceOrg
           /\ \A s, t \in Seq(DeviceIds) :
                [rec EXCEPT !.collected = s, !.learned = t] \in DeviceOrg
           /\ \A k \in Kapas \cup {Absent}, c \in Crons \cup {Absent} :
                [rec EXCEPT !.kapa = k, !.cron = c] \in DeviceOrg
BY DEF DeviceOrg

LEMMA NewOrgTyped ==
    ASSUME NEW c \in Collectors \cup {Absent}
    PROVE  NewDeviceOrg(c) \in DeviceOrg
<1>1. <<>> \in Seq(DeviceIds)
  OBVIOUS
<1> QED BY <1>1 DEF NewDeviceOrg, DeviceOrg

LEMMA PreviousTyped ==
    ASSUME TypeInv, NEW l
    PROVE  /\ DOMAIN Previous(l) \subseteq Orgs
           /\ \A o \in DOMAIN Previous(l) : Previous(l)[o] \in DeviceOrg
<1>1. DOMAIN Previous(l) \subseteq StoredOrgs
  BY DEF Previous
<1>2. ASSUME NEW o \in DOMAIN Previous(l)
      PROVE  Previous(l)[o] \in DeviceOrg
  <2>1. devOrgs[o] \in DeviceOrg
    BY <1>1, <1>2 DEF TypeInv, TypeOK, StoredOrgs
  <2> DEFINE gone == {d \in DOMAIN l.copies : l.copies[d].org # o}
  <2>2. Previous(l)[o] = [devOrgs[o] EXCEPT !.collected = RangeRemove(@, gone),
                                            !.learned = RangeRemove(@, gone)]
    BY <1>2 DEF Previous
  <2>3. devOrgs[o].collected \in Seq(DeviceIds) /\ devOrgs[o].learned \in Seq(DeviceIds)
    BY <2>1 DEF DeviceOrg
  <2> HIDE DEF gone
  <2> DEFINE s == RangeRemove(devOrgs[o].collected, gone)
             t == RangeRemove(devOrgs[o].learned, gone)
  <2>4. s \in Seq(DeviceIds) /\ t \in Seq(DeviceIds)
    BY <2>3, RangeRemoveSeq
  <2>5. Previous(l)[o] = [devOrgs[o] EXCEPT !.collected = s, !.learned = t]
    BY <2>2
  <2> HIDE DEF s, t
  <2> QED BY <2>1, <2>4, <2>5 DEF DeviceOrg
<1> QED BY <1>1, <1>2 DEF StoredOrgs

LEMMA BaseTyped ==
    ASSUME TypeInv, NEW l, ManageData(l), NEW o \in Orgs,
           l.op = "Collect" => o \in DOMAIN l.home
    PROVE  Base(l, o) \in DeviceOrg
<1>1. CASE o \in DOMAIN l.todo
  BY <1>1 DEF Base, ManageData
<1>2. CASE o \notin DOMAIN l.todo /\ devOrgs[o] # Absent
  BY <1>2 DEF Base, TypeInv, TypeOK
<1>3. CASE o \notin DOMAIN l.todo /\ devOrgs[o] = Absent
  <2>1. Base(l, o) = NewDeviceOrg(IF l.op = "Collect" THEN l.home[o] ELSE Absent)
    BY <1>3 DEF Base
  <2>2. l.op = "Collect" => l.home[o] \in Collectors
    BY DEF ManageData
  <2> QED BY <2>1, <2>2, NewOrgTyped
<1> QED
  BY <1>1, <1>2, <1>3

\* A record is added to those to be put.
LEMMA ExtendTyped ==
    ASSUME NEW l, ManageLocal(l), l.pc = "group", NEW o \in Orgs,
           NEW rec \in DeviceOrg
    PROVE  Turns(NextGroup([l EXCEPT !.todo = Extend(@, o, rec)], o))
<1> DEFINE m == [l EXCEPT !.todo = Extend(@, o, rec)]
<1>1. /\ DOMAIN m.todo = DOMAIN l.todo \cup {o}
      /\ \A p \in DOMAIN m.todo : m.todo[p] = IF p = o THEN rec ELSE l.todo[p]
  BY DEF ManageLocal, ManageData, Record, Extend
<1>2. /\ m.op = l.op /\ m.asked = l.asked /\ m.home = l.home /\ m.left = l.left
      /\ m.copies = l.copies /\ m.rest = l.rest /\ m.entries = l.entries /\ m.pc = l.pc
      /\ Record(m, {"op", "pc", "alone", "asked", "on", "rest", "copies", "failed",
                  "keys", "home", "todo", "left", "org", "entries", "restarted",
                  "found"})
  BY DEF ManageLocal, ManageData, Record
<1> HIDE DEF m
<1>3. ManageData(m)
  BY <1>1, <1>2 DEF ManageLocal, ManageData
<1> QED
  BY <1>2, <1>3, ToGroupsTyped DEF m

\* A sequence that is not over has a head, and a tail if it is longer than one.
LEMMA TailLeft ==
    ASSUME NEW A, NEW s \in Seq(A), s # <<>>
    PROVE  /\ Len(s) >= 1 /\ Head(s) \in A /\ Tail(s) \in Seq(A)
           /\ Elements(Tail(s)) \subseteq Elements(s) /\ Head(s) \in Elements(s)
           /\ Len(s) # 1 => Tail(s) # <<>>
<1>1. Len(s) # 0 /\ Len(s) \in Nat
  <2>1. SUFFICES ASSUME Len(s) = 0 PROVE s = <<>>
    OBVIOUS
  <2> QED BY <2>1
<1>2. /\ Tail(s) \in Seq(A) /\ Len(Tail(s)) = Len(s) - 1
      /\ \A i \in 1 .. Len(s) - 1 : Tail(s)[i] = s[i + 1]
      /\ Head(s) = s[1] /\ 1 \in 1 .. Len(s)
  BY <1>1
<1>3. Elements(Tail(s)) \subseteq Elements(s) /\ Head(s) \in Elements(s)
  BY <1>1, <1>2 DEF Elements
<1>4. Len(s) # 1 => Tail(s) # <<>>
  <2> DEFINE t == Tail(s)
  <2>1. Len(t) = Len(s) - 1
    BY <1>2
  <2> HIDE DEF t
  <2>2. t = <<>> => Len(t) = 0
    OBVIOUS
  <2>3. Len(s) # 1 => t # <<>>
    BY <1>1, <2>1, <2>2
  <2> QED BY <2>3 DEF t
<1> QED BY <1>1, <1>2, <1>3, <1>4

\* Handlers of devices.
LEMMA NextEntryTyped ==
    ASSUME NEW r \in Requests, NextEntry(r), DeviceLocal(req[r])
    PROVE  \E m : Go(r, m) /\ TypedLocal(m)
<1>1. CASE Finish(r)
  BY <1>1, IdleTyped DEF Finish
<1>2. CASE Len(req[r].asked) # 1
  <2> DEFINE l == req[r]
             m == [l EXCEPT !.pc = "new.entry", !.asked = Tail(@),
                            !.id = 0, !.copy = Absent]
  <2>1. Go(r, m)
    BY <1>2 DEF NextEntry
  <2>2. Tail(l.asked) \in Seq(Device) /\ Tail(l.asked) # <<>>
    <3> DEFINE s == l.asked
    <3>1. s \in Seq(Device) /\ s # <<>> /\ Len(s) # 1
      BY <1>2 DEF DeviceLocal
    <3> HIDE DEF s
    <3> QED BY <3>1, TailLeft DEF s
  <2>3. DeviceLocal(m)
    BY <2>2 DEF DeviceLocal, Record
  <2> QED BY <2>1, <2>3 DEF TypedLocal
<1> QED
  BY <1>1, <1>2 DEF NextEntry

LEMMA DevicesTyped ==
    ASSUME TypeInv, NEW r \in Requests, DevicesStep(r)
    PROVE  TypeInv'
<1> DEFINE l == req[r]
<1>1. DeviceLocal(l) /\ Head(l.asked) \in Device
  <2>1. l.pc \in {"new.entry", "ud.get", "ud.check", "ud.put"}
    BY DEF DevicesStep, KnownAddress, CreateDevice, UpdateDeviceGet,
           UpdateDeviceCheck, UpdateDevicePut, At
  <2>2. DeviceLocal(l)
    BY <2>1 DEF TypeInv, TypedLocal, ManageLocal, OrgLocal, RemoveOrgLocal, Idle
  <2> QED BY <2>2 DEF DeviceLocal
<1>2. CASE NextEntry(r) /\ Reads
  BY <1>1, <1>2, NextEntryTyped, TypeRead
<1>3. ASSUME NEW pc \in {"ud.check", "ud.put"}, NEW copy \in Device,
             Go(r, [l EXCEPT !.copy = copy, !.pc = pc]), Reads
      PROVE  TypeInv'
  <2>1. DeviceLocal([l EXCEPT !.copy = copy, !.pc = pc])
    BY <1>1 DEF DeviceLocal, Record
  <2> QED BY <1>3, <2>1, TypeRead DEF TypedLocal
<1>4. CASE KnownAddress(r)
  <2>1. ASSUME NEW id, Go(r, [l EXCEPT !.pc = "ud.get", !.id = id]), Reads
        PROVE  TypeInv'
    <3>1. DeviceLocal([l EXCEPT !.pc = "ud.get", !.id = id])
      BY <1>1 DEF DeviceLocal, Record
    <3> QED BY <2>1, <3>1, TypeRead DEF TypedLocal
  <2> QED BY <1>2, <1>4, <2>1 DEF KnownAddress
<1>5. CASE UpdateDeviceGet(r)
  <2>1. CASE NextEntry(r)
    BY <1>2, <1>5, <2>1 DEF UpdateDeviceGet
  <2>2. CASE devices[l.id] # Absent
    BY <1>1, <1>3, <1>5, <2>2 DEF UpdateDeviceGet
  <2> QED BY <1>5, <2>1, <2>2 DEF UpdateDeviceGet
<1>6. CASE UpdateDeviceCheck(r)
  <2>1. Go(r, [l EXCEPT !.pc = "ud.put"]) => TypeInv'
    <3>1. DeviceLocal([l EXCEPT !.pc = "ud.put"])
      BY <1>1, <1>6 DEF UpdateDeviceCheck, At, DeviceLocal, Record
    <3> QED BY <1>6, <3>1, TypeRead DEF UpdateDeviceCheck, TypedLocal
  <2> QED BY <1>2, <1>6, <2>1 DEF UpdateDeviceCheck
<1>7. CASE CreateDevice(r)
  <2>1. PICK m : Go(r, m) /\ TypedLocal(m)
    BY <1>1, <1>7, NextEntryTyped DEF CreateDevice
  <2>2. UNCHANGED <<devOrgs, files, tasks, faults, fileExtra, taskDoubt, stray>>
    BY <1>7 DEF CreateDevice
  <2>3. fileDoubt' \subseteq Orgs
    BY <1>7 DEF CreateDevice, TypeInv, TypeOK, StoredOrgs
  <2>4. deviceSeq' \in 0 .. MaxDevices /\ devices' \in [DeviceIds -> Device \cup {Absent}]
    <3>1. CASE UNCHANGED deviceVars
      BY <3>1 DEF TypeInv, TypeOK, deviceVars
    <3>2. CASE ~UNCHANGED deviceVars
      <4>1. /\ deviceSeq # MaxDevices /\ deviceSeq' = deviceSeq + 1
            /\ devices' = [x \in DeviceIds |->
                             IF x = deviceSeq + 1 THEN Head(l.asked) ELSE devices[x]]
        BY <1>7, <3>2 DEF CreateDevice
      <4>2. deviceSeq' \in 0 .. MaxDevices
        BY <4>1, NetworkDevicesAssumption DEF TypeInv, TypeOK
      <4>3. devices' \in [DeviceIds -> Device \cup {Absent}]
        BY <1>1, <4>1 DEF TypeInv, TypeOK
      <4> QED BY <4>2, <4>3
    <3> QED BY <3>1, <3>2
  <2>5. TypeOK'
    BY <2>2, <2>3, <2>4 DEF TypeInv, TypeOK
  <2> QED BY <2>1, <2>5, TypeStep
<1>8. CASE UpdateDevicePut(r)
  <2>1. PICK m : Go(r, m) /\ TypedLocal(m)
    BY <1>1, <1>8, NextEntryTyped DEF UpdateDevicePut
  <2>2. l.copy \in Device
    BY <1>1, <1>8 DEF UpdateDevicePut, At, DeviceLocal
  <2>3. TypeOK'
    BY <1>8, <2>2 DEF UpdateDevicePut, PutDevice, history, TypeInv, TypeOK
  <2> QED BY <2>1, <2>3, TypeStep
<1> QED
  BY <1>4, <1>5, <1>6, <1>7, <1>8 DEF DevicesStep

ManagePCs == {"get", "orgs", "rm.check", "prev", "group", "org", "read", "have", "put",
              "devices", "rm.put", "rm.device"}

LEMMA ManageTypedLocal ==
    ASSUME TypeInv, NEW r \in Requests, req[r].pc \in ManagePCs
    PROVE  ManageLocal(req[r]) /\ ManageData(req[r])
BY DEF TypeInv, TypedLocal, ManageLocal, DeviceLocal, OrgLocal, RemoveOrgLocal, Idle,
       ManagePCs

LEMMA ManageGetTyped ==
    ASSUME TypeInv, NEW r \in Requests, ManageGet(r)
    PROVE  TypeInv'
<1> DEFINE l == req[r]
           d == Head(l.rest)
           m == IF devices[d] # Absent
                THEN [l EXCEPT !.copies = Extend(@, d, devices[d]), !.rest = Tail(@)]
                ELSE [l EXCEPT !.rest = Tail(@)]
           n == [m EXCEPT !.pc = AfterGet[l.op], !.left = GroupOrgs(m)]
<1>1. ManageData(l) /\ l.pc = "get" /\ l.rest # <<>> /\ l.rest \in Seq(DeviceIds)
  BY ManageTypedLocal DEF ManageGet, At, ManagePCs, ManageLocal, ManageData
<1>2. d \in DeviceIds /\ Tail(l.rest) \in Seq(DeviceIds)
  BY <1>1, TailLeft
<1>3. devices[d] # Absent => devices[d] \in Device
  BY <1>2 DEF TypeInv, TypeOK
<1> HIDE DEF d
<1>4. ManageData(m) /\ m.pc = "get" /\ m.op = l.op /\ m.rest = Tail(l.rest)
  <2>1. CASE devices[d] # Absent
    BY <2>1, <1>1, <1>2, <1>3 DEF ManageData, Record, Extend
  <2>2. CASE devices[d] = Absent
    BY <2>2, <1>1, <1>2 DEF ManageData, Record
  <2> QED BY <2>1, <2>2
<1>5. Finish(r) \/ (Go(r, m) /\ m.rest # <<>>) \/ Go(r, n)
  BY DEF ManageGet, d
<1> HIDE DEF m
<1>6. AfterGet[l.op] \in {"orgs", "prev", "rm.check"}
  BY <1>1 DEF ManageData, AfterGet
<1>7. GroupOrgs(m) \subseteq Orgs
  BY <1>4, GroupOrgsTyped
<1>8. ManageLocal(n)
  BY <1>4, <1>6, <1>7 DEF ManageLocal, ManageData, Record
<1>9. m.rest # <<>> => ManageLocal(m)
  BY <1>4 DEF ManageLocal
<1>10. Reads
  BY DEF ManageGet
<1> HIDE DEF n
<1> QED BY <1>5, <1>8, <1>9, <1>10, IdleTyped, TypeRead DEF Finish, TypedLocal

LEMMA CollectOrgsTyped ==
    ASSUME TypeInv, NEW r \in Requests, CollectOrgs(r)
    PROVE  TypeInv'
<1> DEFINE l == req[r]
<1>1. ManageData(l) /\ l.pc = "orgs"
  BY ManageTypedLocal DEF CollectOrgs, At, ManagePCs
<1>2. CASE Fails("SaltFails") /\ Finish(r)
  BY <1>2, IdleTyped, TypeCall DEF CollectOrgs, Finish
<1>3. ASSUME NEW keys \in SUBSET Collectors, NEW pick \in Assignments(l, keys),
             Go(r, [l EXCEPT !.pc = "prev",
                             !.home = [o \in {p \in DOMAIN pick : pick[p] \in keys}
                                         |-> pick[o]]]),
             Works
      PROVE  TypeInv'
  <2> DEFINE h == [o \in {p \in DOMAIN pick : pick[p] \in keys} |-> pick[o]]
             m == [l EXCEPT !.pc = "prev", !.home = h]
  <2>1. \A o \in DOMAIN h : h[o] \in Collectors
    OBVIOUS
  <2> HIDE DEF h
  <2>2. ManageLocal(m)
    BY <1>1, <2>1 DEF ManageLocal, ManageData, Record
  <2>3. Go(r, m)
    BY <1>3 DEF h
  <2> HIDE DEF m
  <2> QED BY <1>3, <2>2, <2>3, TypeCall DEF CollectOrgs, TypedLocal
<1> QED
  BY <1>2, <1>3 DEF CollectOrgs

LEMMA RemoveCheckTyped ==
    ASSUME TypeInv, NEW r \in Requests, NEW o, RemoveCheck(r, o)
    PROVE  TypeInv'
<1> DEFINE l == req[r]
           next == [l EXCEPT !.left = @ \ {o},
                             !.pc = IF l.left = {o} THEN "prev" ELSE "rm.check"]
<1>1. ManageData(l)
  BY ManageTypedLocal DEF RemoveCheck, At, ManagePCs
<1>2. ManageLocal(next)
  BY <1>1 DEF ManageLocal, ManageData, Record
<1>3. \A keys : ManageLocal([next EXCEPT !.keys = keys])
  <2> HIDE DEF next
  <2> TAKE keys
  <2>1. ManageData([next EXCEPT !.keys = keys])
    BY <1>2 DEF ManageLocal, ManageData, Record
  <2> QED BY <1>2, <2>1 DEF ManageLocal, ManageData, Record
<1>4. StoresKeep /\ (Works \/ Fails("SaltFails"))
  BY DEF RemoveCheck
<1>5. Finish(r) \/ Go(r, next) \/ \E keys : Go(r, [next EXCEPT !.keys = keys])
  BY DEF RemoveCheck
<1> HIDE DEF next
<1> QED
  BY <1>2, <1>3, <1>4, <1>5, IdleTyped, TypeCall DEF Finish, TypedLocal

LEMMA GroupsTyped ==
    ASSUME TypeInv, NEW r \in Requests,
           RemovePrevious(r) \/ \E o : CollectGroup(r, o) \/ LearnGroup(r, o)
                                         \/ RemoveGroup(r, o)
    PROVE  TypeInv'
<1> DEFINE l == req[r]
<1>1. ManageLocal(l) /\ ManageData(l)
  BY ManageTypedLocal DEF RemovePrevious, CollectGroup, LearnGroup, RemoveGroup, At,
                          ManagePCs
<1>2. CASE RemovePrevious(r)
  <2> DEFINE m == [l EXCEPT !.todo = Previous(l)]
  <2>1. ManageData(m)
    BY <1>1, PreviousTyped DEF ManageData, Record
  <2>2. Go(r, ToGroups(m)) /\ Reads
    BY <1>2 DEF RemovePrevious
  <2> HIDE DEF m
  <2> QED BY <2>1, <2>2, ToGroupsTyped, TurnsTyped, TypeRead
<1>3. ASSUME NEW o, CollectGroup(r, o)
      PROVE  TypeInv'
  <2>1. l.pc = "group" /\ l.op = "Collect" /\ o \in Orgs
    BY <1>1, <1>3 DEF CollectGroup, At, ManageData
  <2>2. CASE o \notin DOMAIN l.home
    <3>1. Go(r, NextGroup(l, o)) /\ Reads
      BY <1>3, <2>2 DEF CollectGroup
    <3> QED BY <1>1, <2>1, <3>1, ToGroupsTyped, TurnsTyped, TypeRead
  <2>3. CASE o \in DOMAIN l.home
    <3> DEFINE s == WithGroup(Base(l, o).collected, Group(l, o), l.on)
               rec == [Base(l, o) EXCEPT !.collector = l.home[o], !.collected = s]
    <3>1. Base(l, o) \in DeviceOrg
      BY <1>1, <2>1, <2>3, BaseTyped
    <3>2. s \in Seq(DeviceIds)
      BY <1>1, <3>1, GroupTyped, WithGroupSeq DEF DeviceOrg
    <3> HIDE DEF s
    <3>3. rec \in DeviceOrg
      BY <1>1, <2>3, <3>1, <3>2, RecordsChange DEF ManageData
    <3>4. Go(r, NextGroup([l EXCEPT !.todo = Extend(@, o, rec)], o)) /\ Reads
      BY <1>3, <2>3 DEF CollectGroup, s
    <3> HIDE DEF rec
    <3> QED BY <1>1, <2>1, <3>3, <3>4, ExtendTyped, TurnsTyped, TypeRead
  <2> QED BY <2>2, <2>3
<1>4. ASSUME NEW o, LearnGroup(r, o)
      PROVE  TypeInv'
  <2>1. l.pc = "group" /\ l.op = "Learn" /\ o \in Orgs
    BY <1>1, <1>4 DEF LearnGroup, At, ManageData
  <2> DEFINE s == WithGroup(Base(l, o).learned, Group(l, o), l.on)
             rec == [Base(l, o) EXCEPT !.learned = s]
  <2>2. Base(l, o) \in DeviceOrg
    BY <1>1, <2>1, BaseTyped
  <2>3. s \in Seq(DeviceIds)
    BY <1>1, <2>2, GroupTyped, WithGroupSeq DEF DeviceOrg
  <2> HIDE DEF s
  <2>4. rec \in DeviceOrg
    BY <2>2, <2>3, RecordsChange
  <2>5. Go(r, NextGroup([l EXCEPT !.todo = Extend(@, o, rec)], o)) /\ Reads
    BY <1>4 DEF LearnGroup, s
  <2> HIDE DEF rec
  <2> QED BY <1>1, <2>1, <2>4, <2>5, ExtendTyped, TurnsTyped, TypeRead
<1>5. ASSUME NEW o, RemoveGroup(r, o)
      PROVE  TypeInv'
  <2>1. l.pc = "group" /\ o \in Orgs /\ Reads
    BY <1>1, <1>5 DEF RemoveGroup, At, ManageData
  <2> DEFINE s == Drop(devOrgs[o].collected, Elements(Group(l, o)))
             t == Drop(devOrgs[o].learned, Elements(Group(l, o)))
             rec == [devOrgs[o] EXCEPT !.collected = s, !.learned = t]
             skip == [l EXCEPT !.failed = @ \cup Elements(Group(l, o))]
  <2>2. \/ Go(r, NextGroup(l, o)) \/ Go(r, NextGroup(skip, o))
        \/ devOrgs[o] # Absent /\ Go(r, NextGroup([l EXCEPT !.todo = Extend(@, o, rec)], o))
    BY <1>5 DEF RemoveGroup
  <2>3. Turns(NextGroup(l, o))
    BY <1>1, <2>1, ToGroupsTyped
  <2>4. Turns(NextGroup(skip, o))
    <3>1. ManageData(skip) /\ skip.pc = "group"
      BY <1>1, <2>1 DEF ManageData, Record
    <3> HIDE DEF skip
    <3> QED BY <3>1, ToGroupsTyped
  <2>5. ASSUME devOrgs[o] # Absent
        PROVE  Turns(NextGroup([l EXCEPT !.todo = Extend(@, o, rec)], o))
    <3>1. devOrgs[o] \in DeviceOrg
      BY <2>1, <2>5 DEF TypeInv, TypeOK
    <3>2. devOrgs[o].collected \in Seq(DeviceIds) /\ devOrgs[o].learned \in Seq(DeviceIds)
      BY <3>1 DEF DeviceOrg
    <3>3. s \in Seq(DeviceIds) /\ t \in Seq(DeviceIds)
      BY <3>2, KeepOf
    <3> HIDE DEF s, t
    <3>4. rec \in DeviceOrg
      BY <3>1, <3>3 DEF DeviceOrg
    <3> HIDE DEF rec
    <3> QED BY <1>1, <2>1, <3>4, ExtendTyped
  <2> HIDE DEF rec, skip
  <2> QED BY <2>1, <2>2, <2>3, <2>4, <2>5, TurnsTyped, TypeRead
<1> QED
  BY <1>2, <1>3, <1>4, <1>5

LEMMA OpenTyped ==
    ASSUME TypeInv, NEW r \in Requests, NEW o, OpenOrg(r, o)
    PROVE  TypeInv'
<1> DEFINE l == req[r]
           m == [l EXCEPT !.org = o, !.entries = {}, !.rest = l.todo[o].collected]
<1>1. ManageLocal(l) /\ ManageData(l) /\ l.pc = "org"
  BY ManageTypedLocal DEF OpenOrg, At, ManagePCs
<1>2. o \in DOMAIN l.todo /\ l.todo[o] \in DeviceOrg
  BY <1>1 DEF OpenOrg, ManageLocal, ManageData
<1>3. l.todo[o].collected \in Seq(DeviceIds)
  BY <1>2 DEF DeviceOrg
<1>4. /\ ManageData(m) /\ o \in DOMAIN m.todo /\ m.org = o
      /\ \A pc \in {"have", "read", "rm.put"} : ManageLocal([m EXCEPT !.pc = pc])
  <2>1. ManageData(m) /\ o \in DOMAIN m.todo /\ m.org = o
    BY <1>1, <1>2, <1>3 DEF ManageData, Record
  <2> HIDE DEF m
  <2>2. ASSUME NEW pc \in {"have", "read", "rm.put"}
        PROVE  ManageLocal([m EXCEPT !.pc = pc])
    <3>1. ManageData([m EXCEPT !.pc = pc])
      BY <2>1 DEF ManageData, Record
    <3> QED BY <2>1, <3>1 DEF ManageLocal, ManageData, Record
  <2> QED BY <2>1, <2>2
<1>5. Turns(NextOrg(m))
  <2> HIDE DEF m
  <2> QED BY <1>4, NextOrgTyped
<1>6. \/ Go(r, NextOrg(m))
      \/ \E pc \in {"have", "read", "rm.put"} : Go(r, [m EXCEPT !.pc = pc])
  BY <1>1 DEF OpenOrg, ManageData
<1>7. Reads
  BY DEF OpenOrg
<1> HIDE DEF m
<1> QED
  BY <1>4, <1>5, <1>6, <1>7, TurnsTyped, TypeRead DEF TypedLocal

LEMMA FileTyped ==
    ASSUME TypeInv, NEW r \in Requests, ReadDevice(r) \/ WriteFile(r) \/ HaveOrg(r)
    PROVE  TypeInv'
<1> DEFINE l == req[r]
<1>1. ManageLocal(l) /\ ManageData(l) /\ l.pc \in {"read", "have"}
  BY ManageTypedLocal DEF ReadDevice, WriteFile, HaveOrg, At, ManagePCs
<1>2. CASE ReadDevice(r)
  <2> DEFINE d == Head(l.rest)
             e == IF devices[d] = Absent THEN l.entries
                  ELSE l.entries \cup {<<d, devices[d].ip>>}
             m == [l EXCEPT !.rest = Tail(@), !.entries = e]
  <2>1. l.rest # <<>> /\ l.rest \in Seq(DeviceIds) /\ l.pc = "read"
    BY <1>1, <1>2 DEF ReadDevice, ManageData, At
  <2>2. d \in DeviceIds /\ Tail(l.rest) \in Seq(DeviceIds)
    BY <2>1, TailLeft
  <2>3. devices[d] # Absent => devices[d].ip \in IPs
    BY <2>2 DEF TypeInv, TypeOK, Device
  <2> HIDE DEF d
  <2>4. e \subseteq DeviceIds \X IPs
    BY <1>1, <2>2, <2>3 DEF ManageData
  <2> HIDE DEF e
  <2>5. ManageLocal(m)
    BY <1>1, <2>1, <2>2, <2>4 DEF ManageLocal, ManageData, Record
  <2>6. Go(r, m) /\ Reads
    BY <1>2 DEF ReadDevice, e, d
  <2> HIDE DEF m
  <2> QED BY <2>5, <2>6, TypeRead DEF TypedLocal
<1>3. CASE HaveOrg(r)
  <2> DEFINE m == [l EXCEPT !.pc = "put", !.found = devOrgs[l.org] # Absent]
  <2>1. ManageLocal(m)
    BY <1>1, <1>3 DEF HaveOrg, At, ManageLocal, ManageData, Record
  <2>2. Go(r, m) /\ Reads
    BY <1>3 DEF HaveOrg
  <2> HIDE DEF m
  <2> QED BY <2>1, <2>2, TypeRead DEF TypedLocal
<1>4. CASE WriteFile(r)
  <2> DEFINE c == l.todo[l.org].collector
             written == IF c \in Collectors
                        THEN [files EXCEPT ![c] = [@ EXCEPT ![l.org] = l.entries]]
                        ELSE files
             done == [l EXCEPT !.restarted = @ \cup {c}]
             next == [done EXCEPT !.pc = IF l.op = "Remove" THEN "rm.put" ELSE "have"]
  <2>1. l.pc = "read" /\ l.org \in Orgs
    BY <1>1, <1>4 DEF WriteFile, At, ManageLocal, ManageData
  <2>2. l.entries \subseteq DeviceIds \X IPs
    BY <1>1 DEF ManageData
  <2> HIDE DEF c
  <2>3. written \in [Collectors -> [Orgs -> SUBSET (DeviceIds \X IPs)]]
    BY <2>1, <2>2 DEF TypeInv, TypeOK
  <2>4. ManageData(done) /\ ManageLocal(next)
    BY <1>1, <2>1 DEF ManageLocal, ManageData, Record
  <2>5. Go(r, next) \/ Go(r, SkipOrg(l)) \/ Go(r, SkipOrg(done))
    BY <1>4 DEF WriteFile, c
  <2>6. \E m : Go(r, m) /\ TypedLocal(m)
    <3> HIDE DEF done, next
    <3> QED BY <1>1, <2>4, <2>5, SkipOrgTyped, TurnsTyped DEF TypedLocal
  <2>7. /\ files' \in {files, written} /\ (Works \/ Fails("SaltFails"))
        /\ fileDoubt' \subseteq fileDoubt \cup {l.org} /\ fileExtra' \subseteq fileExtra
        /\ UNCHANGED <<devices, deviceSeq, devOrgs, tasks, taskDoubt, stray>>
    BY <1>4 DEF WriteFile, c
  <2>8. faults' \in 0 .. MaxFaults
    BY <2>7, NetworkDevicesAssumption DEF TypeInv, TypeOK, Works, Fails
  <2>9. files' \in [Collectors -> [Orgs -> SUBSET (DeviceIds \X IPs)]]
        /\ fileDoubt' \subseteq Orgs /\ fileExtra' \subseteq Orgs
    BY <2>1, <2>3, <2>7 DEF TypeInv, TypeOK
  <2> HIDE DEF written, done, next
  <2>10. TypeOK'
    BY <2>7, <2>8, <2>9 DEF TypeInv, TypeOK
  <2> QED BY <2>6, <2>10, TypeStep
<1> QED
  BY <1>2, <1>3, <1>4

\* The history variables.
Histories ==
    /\ fileDoubt \subseteq Orgs /\ fileExtra \subseteq Orgs
    /\ taskDoubt \subseteq Orgs /\ stray \subseteq Kapas \X Orgs

\* A step that puts records of organizations.
LEMMA TypePut ==
    ASSUME TypeInv, NEW r \in Requests, NEW m, Go(r, m), TypedLocal(m),
           UNCHANGED <<devices, deviceSeq, files, faults>>,
           devOrgs' \in [Orgs -> DeviceOrg \cup {Absent}],
           tasks' \in [Kapas -> [Orgs -> Crons \cup {Absent}]],
           Histories'
    PROVE  TypeInv'
<1>1. TypeOK'
  BY DEF TypeInv, TypeOK, Histories
<1> QED BY <1>1, TypeStep

\* A step that changes devices, and makes none.
LEMMA TypeDevices ==
    ASSUME TypeInv, NEW r \in Requests, NEW m, Go(r, m), TypedLocal(m),
           NEW d, NEW rec \in Device \cup {Absent},
           \/ UNCHANGED devices
           \/ devices' = [x \in DeviceIds |-> IF x = d THEN rec ELSE devices[x]],
           UNCHANGED <<deviceSeq, devOrgs, files, tasks, faults, history>>
    PROVE  TypeInv'
<1>1. devices' \in [DeviceIds -> Device \cup {Absent}]
  BY DEF TypeInv, TypeOK
<1>2. TypeOK'
  BY <1>1 DEF TypeInv, TypeOK, history
<1> QED BY <1>2, TypeStep

LEMMA PutsTyped ==
    ASSUME TypeInv, NEW r \in Requests,
           PutOrg(r) \/ PutDevices(r) \/ RemovePut(r) \/ DeleteDevice(r)
    PROVE  TypeInv'
<1> DEFINE l == req[r]
           o == l.org
<1>1. /\ ManageLocal(l) /\ ManageData(l)
      /\ l.pc \in {"put", "devices", "rm.put", "rm.device"}
  BY ManageTypedLocal DEF PutOrg, PutDevices, RemovePut, DeleteDevice, At, ManagePCs
<1>2. l.pc \in {"put", "rm.put"} => o \in Orgs /\ l.todo[o] \in DeviceOrg
  BY <1>1 DEF ManageLocal, ManageData
<1>3. l.pc \in {"devices", "rm.device"} =>
        /\ l.rest # <<>> /\ l.rest \in Seq(DeviceIds) /\ Tail(l.rest) \in Seq(DeviceIds)
        /\ Len(l.rest) # 1 => Tail(l.rest) # <<>>
        /\ Elements(Tail(l.rest)) \subseteq Elements(l.rest)
        /\ Head(l.rest) \in Elements(l.rest)
  BY <1>1, TailLeft DEF ManageLocal, ManageData
<1>4. CASE PutOrg(r)
  <2> DEFINE m == [l EXCEPT !.pc = "devices", !.rest = Group(l, o)]
  <2>1. l.pc = "put"
    BY <1>4 DEF PutOrg, At
  <2>2. m.rest # <<>> => ManageLocal(m)
    <3>1. Group(l, o) \in Seq(DeviceIds) /\ Elements(Group(l, o)) \subseteq DOMAIN l.copies
      BY <1>1, GroupTyped
    <3> QED BY <1>1, <3>1 DEF ManageLocal, ManageData, Record
  <2>3. Turns(NextOrg(l))
    BY <1>1, NextOrgTyped
  <2>4. Go(r, IF m.rest = <<>> THEN NextOrg(l) ELSE m)
    BY <1>4 DEF PutOrg
  <2> HIDE DEF m
  <2>5. \E n : Go(r, n) /\ TypedLocal(n)
    BY <2>2, <2>3, <2>4, TurnsTyped DEF TypedLocal
  <2>6. devOrgs' \in {devOrgs, [devOrgs EXCEPT ![o] = l.todo[o]]}
    BY <1>4 DEF PutOrg, UpdateOrg
  <2>7. devOrgs' \in [Orgs -> DeviceOrg \cup {Absent}]
    BY <1>2, <2>1, <2>6 DEF TypeInv, TypeOK
  <2>8. /\ fileExtra' \subseteq fileExtra \cup {o}
        /\ UNCHANGED <<devices, deviceSeq, files, tasks, faults, fileDoubt, taskDoubt, stray>>
    BY <1>4 DEF PutOrg
  <2>9. /\ Histories'
        /\ tasks' \in [Kapas -> [Orgs -> Crons \cup {Absent}]]
    BY <1>2, <2>1, <2>8 DEF TypeInv, TypeOK, Histories
  <2> QED BY <2>5, <2>7, <2>8, <2>9, TypePut
<1>5. CASE RemovePut(r)
  <2>1. l.pc = "rm.put"
    BY <1>5 DEF RemovePut, At
  <2>2. \E n : Go(r, n) /\ TypedLocal(n)
    BY <1>1, <1>5, NextOrgTyped, SkipOrgTyped, TurnsTyped DEF RemovePut
  <2>3. devOrgs' \in {devOrgs, [devOrgs EXCEPT ![o] = l.todo[o]]}
    BY <1>5 DEF RemovePut, UpdateOrg
  <2>4. devOrgs' \in [Orgs -> DeviceOrg \cup {Absent}]
    BY <1>2, <2>1, <2>3 DEF TypeInv, TypeOK
  <2>5. /\ UNCHANGED <<devices, deviceSeq, files, tasks, faults>>
        /\ Histories'
        /\ tasks' \in [Kapas -> [Orgs -> Crons \cup {Absent}]]
    BY <1>5 DEF Histories, RemovePut, history, TypeInv, TypeOK
  <2> QED BY <2>2, <2>4, <2>5, TypePut
<1>6. CASE PutDevices(r)
  <2> DEFINE d == Head(l.rest)
             m == [l EXCEPT !.rest = Tail(@)]
  <2>1. l.pc = "devices"
    BY <1>6 DEF PutDevices, At
  <2>2. l.copies[d] \in Device
    BY <1>1, <1>3, <2>1 DEF ManageLocal, ManageData
  <2>3. Len(l.rest) # 1 => ManageLocal(m)
    BY <1>1, <1>3, <2>1 DEF ManageLocal, ManageData, Record
  <2>4. Go(r, IF Len(l.rest) = 1 THEN NextOrg(l) ELSE m)
    BY <1>6 DEF PutDevices
  <2> HIDE DEF m
  <2>5. \E n : Go(r, n) /\ TypedLocal(n)
    BY <1>1, <2>3, <2>4, NextOrgTyped, TurnsTyped DEF TypedLocal
  <2>6. /\ PutDevice(d, l.copies[d])
        /\ UNCHANGED <<devOrgs, files, tasks, faults, history>>
    BY <1>6 DEF PutDevices
  <2> HIDE DEF d
  <2>7. \/ UNCHANGED devices
        \/ devices' = [x \in DeviceIds |-> IF x = d THEN l.copies[d] ELSE devices[x]]
    <3>1. CASE devices[d] = Absent
      BY <2>6, <3>1 DEF PutDevice, TypeInv, TypeOK
    <3>2. CASE devices[d] # Absent
      BY <2>6, <3>2 DEF PutDevice
    <3> QED BY <3>1, <3>2
  <2> QED BY <2>2, <2>5, <2>6, <2>7, TypeDevices DEF PutDevice
<1>7. CASE DeleteDevice(r)
  <2> DEFINE d == Head(l.rest)
             m == [l EXCEPT !.rest = Tail(@)]
  <2>1. l.pc = "rm.device"
    BY <1>7 DEF DeleteDevice, At
  <2>2. Len(l.rest) # 1 => ManageLocal(m)
    BY <1>1, <1>3, <2>1 DEF ManageLocal, ManageData, Record
  <2>3. Finish(r) \/ Go(r, Idle) \/ (Len(l.rest) # 1 /\ Go(r, m))
    BY <1>7 DEF DeleteDevice
  <2> HIDE DEF m
  <2>4. \E n : Go(r, n) /\ TypedLocal(n)
    BY <2>2, <2>3, IdleTyped DEF TypedLocal, Finish
  <2>5. /\ \/ UNCHANGED devices
           \/ devices' = [x \in DeviceIds |-> IF x = d THEN Absent ELSE devices[x]]
        /\ UNCHANGED <<deviceSeq, devOrgs, files, tasks, faults, history>>
    BY <1>7 DEF DeleteDevice, deviceVars
  <2> QED BY <2>4, <2>5, TypeDevices
<1> QED
  BY <1>4, <1>5, <1>6, <1>7

\* A call of Kapacitor.
LEMMA TypeTasks ==
    ASSUME TypeInv, NEW r \in Requests, NEW m, Go(r, m), TypedLocal(m),
           UNCHANGED <<devices, deviceSeq, devOrgs, files, fileDoubt, fileExtra>>,
           Works \/ \E kind : Fails(kind),
           UNCHANGED tasks
             \/ \E k, o : \E v \in Crons \cup {Absent} : tasks' = TasksWith(k, o, v),
           taskDoubt' \subseteq Orgs, stray' \subseteq Kapas \X Orgs
    PROVE  TypeInv'
<1>1. faults' \in 0 .. MaxFaults
  BY NetworkDevicesAssumption DEF TypeInv, TypeOK, Works, Fails
<1>2. tasks' \in [Kapas -> [Orgs -> Crons \cup {Absent}]]
  <2>1. tasks \in [Kapas -> [Orgs -> Crons \cup {Absent}]]
    BY DEF TypeInv, TypeOK
  <2>2. ASSUME NEW k, NEW o, NEW v \in Crons \cup {Absent}
        PROVE  TasksWith(k, o, v) \in [Kapas -> [Orgs -> Crons \cup {Absent}]]
    BY <2>1 DEF TasksWith
  <2> QED BY <2>1, <2>2
<1>3. TypeOK'
  BY <1>1, <1>2 DEF TypeInv, TypeOK
<1> QED BY <1>3, TypeStep

LEMMA OrgsTyped ==
    ASSUME TypeInv, NEW r \in Requests, OrgsStep(r)
    PROVE  TypeInv'
<1> DEFINE l == req[r]
<1>1. CASE RemoveOrg(r)
  <2>1. l.org \in Orgs
    BY <1>1 DEF RemoveOrg, At, TypeInv, TypedLocal, DeviceLocal, ManageLocal,
                OrgLocal, RemoveOrgLocal, Idle
  <2>2. /\ devOrgs' \in [Orgs -> DeviceOrg \cup {Absent}]
        /\ tasks' \in [Kapas -> [Orgs -> Crons \cup {Absent}]]
        /\ Histories'
    BY <1>1, <2>1 DEF RemoveOrg, Histories, TypeInv, TypeOK
  <2>3. Go(r, Idle) /\ UNCHANGED <<devices, deviceSeq, files, faults>>
    BY <1>1 DEF RemoveOrg, Finish
  <2> QED BY <2>2, <2>3, IdleTyped, TypePut
<1> DEFINE Here == /\ OrgLocal(l) /\ l.org \in Orgs /\ l.rec \in DeviceOrg
                   /\ \A pc \in {"task.get", "task.put", "uo.put"} : \A b :
                        /\ TypedLocal([l EXCEPT !.pc = pc])
                        /\ TypedLocal([l EXCEPT !.pc = pc, !.found = b])
<1>2. l.pc \in {"ao.add", "uo.drop", "task.get", "task.put", "uo.put"} => Here
  <2>1. SUFFICES ASSUME l.pc \in {"ao.add", "uo.drop", "task.get", "task.put", "uo.put"}
                 PROVE  Here
    OBVIOUS
  <2>2. OrgLocal(l)
    BY <2>1 DEF TypeInv, TypedLocal, DeviceLocal, ManageLocal, RemoveOrgLocal, Idle
  <2>3. \A pc \in {"task.get", "task.put", "uo.put"} : \A b :
          /\ OrgLocal([l EXCEPT !.pc = pc])
          /\ OrgLocal([l EXCEPT !.pc = pc, !.found = b])
    <3> TAKE pc \in {"task.get", "task.put", "uo.put"}
    <3> TAKE b
    <3>1. OrgLocal([l EXCEPT !.pc = pc])
      BY <2>2 DEF OrgLocal, Record
    <3>2. OrgLocal([l EXCEPT !.pc = pc, !.found = b])
      BY <2>2 DEF OrgLocal, Record
    <3> QED BY <3>1, <3>2
  <2>4. \A m : OrgLocal(m) => TypedLocal(m)
    BY DEF TypedLocal
  <2>5. l.org \in Orgs /\ l.rec \in DeviceOrg
    BY <2>2 DEF OrgLocal
  <2> QED BY <2>2, <2>3, <2>4, <2>5
<1>3. CASE AddOrg(r)
  <2>1. Here
    BY <1>2, <1>3 DEF AddOrg, At
  <2>2. /\ devOrgs' \in [Orgs -> DeviceOrg \cup {Absent}]
        /\ tasks' \in [Kapas -> [Orgs -> Crons \cup {Absent}]]
        /\ Histories'
    BY <1>3, <2>1 DEF AddOrg, Histories, TypeInv, TypeOK, history
  <2>3. Go(r, [l EXCEPT !.pc = "task.get"])
        /\ UNCHANGED <<devices, deviceSeq, files, faults>>
    BY <1>3 DEF AddOrg, history
  <2> QED BY <2>1, <2>2, <2>3, TypePut
<1>4. CASE UpdateOrgPut(r)
  <2>1. Here
    BY <1>2, <1>4 DEF UpdateOrgPut, At
  <2>2. devOrgs' \in {devOrgs, [devOrgs EXCEPT ![l.org] = l.rec]}
    BY <1>4 DEF UpdateOrgPut, UpdateOrg
  <2>3. /\ devOrgs' \in [Orgs -> DeviceOrg \cup {Absent}]
        /\ tasks' \in [Kapas -> [Orgs -> Crons \cup {Absent}]]
        /\ Histories'
    BY <1>4, <2>1, <2>2 DEF UpdateOrgPut, Histories, TypeInv, TypeOK, history
  <2>4. Go(r, Idle) /\ UNCHANGED <<devices, deviceSeq, files, faults>>
    BY <1>4 DEF UpdateOrgPut, Finish, history
  <2> QED BY <2>3, <2>4, IdleTyped, TypePut
<1>5. CASE DropTask(r)
  <2>1. Here
    BY <1>2, <1>5 DEF DropTask, At
  <2>2. /\ Go(r, [l EXCEPT !.pc = "task.get"])
        /\ UNCHANGED <<devices, deviceSeq, devOrgs, files, fileDoubt, fileExtra, taskDoubt>>
        /\ Works \/ Fails("KapacitorFails")
        /\ UNCHANGED tasks \/ tasks' = TasksWith(l.old, l.org, Absent)
        /\ stray' \subseteq stray \cup {<<l.old, l.org>>}
    BY <1>5 DEF DropTask
  <2>3. taskDoubt' \subseteq Orgs /\ stray' \subseteq Kapas \X Orgs
    <3>1. l.old \in Kapas
      BY <1>5, <2>1 DEF DropTask, At, OrgLocal
    <3>2. taskDoubt \subseteq Orgs /\ stray \subseteq Kapas \X Orgs
      BY DEF TypeInv, TypeOK
    <3>3. l.org \in Orgs
      BY <2>1
    <3> HIDE DEF l, Here
    <3>4. <<l.old, l.org>> \in Kapas \X Orgs
      BY <3>1, <3>3
    <3>5. stray' \subseteq stray \cup {<<l.old, l.org>>}
      BY <2>2
    <3>6. taskDoubt' = taskDoubt
      BY <2>2
    <3> QED BY <3>2, <3>4, <3>5, <3>6
  <2>4. \E m : Go(r, m) /\ TypedLocal(m)
    BY <2>1, <2>2
  <2>5. Absent \in Crons \cup {Absent}
    OBVIOUS
  <2> QED BY <2>2, <2>3, <2>4, <2>5, TypeTasks
<1>6. CASE TaskGet(r)
  <2>1. Here
    BY <1>2, <1>6 DEF TaskGet, At
  <2>2. /\ Go(r, Idle) \/ \E b : Go(r, [l EXCEPT !.pc = "task.put", !.found = b])
        /\ UNCHANGED <<devices, deviceSeq, devOrgs, files, tasks, fileDoubt, fileExtra>>
        /\ Works \/ Fails("KapacitorFails")
        /\ UNCHANGED <<taskDoubt, stray>> \/ TaskInDoubt(l)
    BY <1>6 DEF TaskGet, Finish
  <2>3. taskDoubt' \subseteq Orgs /\ stray' \subseteq Kapas \X Orgs
    BY <2>1, <2>2 DEF TypeInv, TypeOK, TaskInDoubt
  <2>4. \E m : Go(r, m) /\ TypedLocal(m)
    BY <2>1, <2>2, IdleTyped
  <2> QED BY <2>2, <2>3, <2>4, TypeTasks
<1>7. CASE TaskPut(r)
  <2>1. Here
    BY <1>2, <1>7 DEF TaskPut, At
  <2>2. /\ Go(r, Idle) \/ Go(r, [l EXCEPT !.pc = "uo.put"])
        /\ UNCHANGED <<devices, deviceSeq, devOrgs, files, fileDoubt, fileExtra>>
        /\ Works \/ Fails("KapacitorFails")
        /\ UNCHANGED tasks \/ tasks' = TasksWith(l.rec.kapa, l.org, l.rec.cron)
        /\ (taskDoubt' \subseteq taskDoubt /\ UNCHANGED stray) \/ TaskInDoubt(l)
    BY <1>7 DEF TaskPut, TaskDone, Finish
  <2>3. taskDoubt' \subseteq Orgs /\ stray' \subseteq Kapas \X Orgs
    BY <2>1, <2>2 DEF TypeInv, TypeOK, TaskInDoubt
  <2>4. l.rec.cron \in Crons \cup {Absent}
    BY <2>1 DEF DeviceOrg
  <2>5. \E m : Go(r, m) /\ TypedLocal(m)
    BY <2>1, <2>2, IdleTyped
  <2> QED BY <2>2, <2>3, <2>4, <2>5, TypeTasks
<1> QED
  BY <1>1, <1>3, <1>4, <1>5, <1>6, <1>7 DEF OrgsStep

\* A handler starts, and those in flight are no longer alone.
LEMMA AloneTyped ==
    ASSUME NEW l, TypedLocal(l), l.pc # "idle", NEW b
    PROVE  TypedLocal([l EXCEPT !.alone = b])
<1>1. CASE DeviceLocal(l)
  <2>1. DeviceLocal([l EXCEPT !.alone = b])
    BY <1>1 DEF DeviceLocal, Record
  <2> QED BY <2>1 DEF TypedLocal
<1>2. CASE ManageLocal(l)
  <2>1. ManageLocal([l EXCEPT !.alone = b])
    BY <1>2 DEF ManageLocal, ManageData, Record
  <2> QED BY <2>1 DEF TypedLocal
<1>3. CASE OrgLocal(l)
  <2>1. OrgLocal([l EXCEPT !.alone = b])
    BY <1>3 DEF OrgLocal, Record
  <2> QED BY <2>1 DEF TypedLocal
<1>4. CASE RemoveOrgLocal(l)
  BY <1>4 DEF RemoveOrgLocal, Record, TypedLocal
<1> QED
  BY <1>1, <1>2, <1>3, <1>4 DEF TypedLocal, Idle

LEMMA TypeBegin ==
    ASSUME TypeInv, NEW r \in Requests, NEW l, Begin(r, l), TypedLocal(l),
           l.pc # "idle"
    PROVE  TypeInv'
<1>1. UNCHANGED <<devices, deviceSeq, devOrgs, files, tasks, faults>>
  BY DEF Begin
<1>2. Histories'
  BY DEF Begin, AllInDoubt, history, Histories, TypeInv, TypeOK
<1>3. TypeOK'
  BY <1>1, <1>2 DEF TypeInv, TypeOK, Histories
<1>4. req' = [q \in Requests |-> req'[q]]
  BY DEF Begin
<1>5. ASSUME NEW q \in Requests
      PROVE  TypedLocal(req'[q])
  <2>1. \/ req'[q] = Idle
        \/ \E b : req'[q] = [l EXCEPT !.alone = b]
        \/ ~At(q, "idle") /\ req'[q] = [req[q] EXCEPT !.alone = FALSE]
    BY DEF Begin
  <2>2. ~At(q, "idle") => TypedLocal([req[q] EXCEPT !.alone = FALSE])
    BY AloneTyped DEF TypeInv, At
  <2>3. \A b : TypedLocal([l EXCEPT !.alone = b])
    BY AloneTyped
  <2> QED BY <2>1, <2>2, <2>3, IdleTyped
<1> QED BY <1>3, <1>4, <1>5 DEF TypeInv

----------------------------------------------------------------------------
(* What handlers know that are alone. *)

\* What decides whether a file and a task are right.
Now == [devices |-> devices, orgs |-> devOrgs, files |-> files, tasks |-> tasks,
        doubt |-> fileDoubt, extra |-> fileExtra, taskDoubt |-> taskDoubt,
        stray |-> stray]

Matches(file, list, o, w) ==
    /\ o \notin w.extra => {e[1] : e \in file} \subseteq list
    /\ \A d \in list : w.devices[d] # Absent =>
         \E e \in file :
            e[1] = d /\ (w.devices[d].org = o => e[2] = w.devices[d].ip)
Filed(rec, o, w) ==
    rec.collector # Absent =>
        Matches(w.files[rec.collector][o], Elements(rec.collected), o, w)

\* A handler has written o's file, and not the record yet.
Writing(l, o) ==
    /\ l.op \in {"Collect", "Remove"} /\ l.pc \in {"have", "put", "rm.put"}
    /\ o = l.org

\* Apart from what l is writing, files follow the records.
FiledBut(l, w) ==
    \A o \in Orgs : w.orgs[o] # Absent /\ o \notin w.doubt =>
        Filed(w.orgs[o], o, w) \/ Writing(l, o)

\* The kapacitor that has o's task, if one has: the others have what was left
\* behind.
Apart(kapa, o, w) ==
    \A k \in Kapas \ {kapa} : w.tasks[k][o] # Absent => <<k, o>> \in w.stray
Own(rec, o, w) ==
    o \notin w.taskDoubt /\ rec.kapa # Absent => w.tasks[rec.kapa][o] = rec.cron
KapaOf(rec) == IF rec = Absent THEN Absent ELSE rec.kapa
Settled(o, w) ==
    /\ Apart(KapaOf(w.orgs[o]), o, w)
    /\ w.orgs[o] # Absent => Own(w.orgs[o], o, w)

\* A handler has made o's task, and not the record, or the other way round.
Changing(l, o) ==
    /\ l.op \in {"AddOrg", "UpdateOrg"} /\ l.org = o
    /\ l.pc \in {"task.get", "task.put", "uo.put"}

\* Apart from what l is changing, tasks follow the records.
SettledBut(l, w) == \A o \in Orgs : Settled(o, w) \/ Changing(l, o)

\* A record to be put in the place of old: the task stays what it should be; a
\* Learn or Remove moves no organization to another collector, and a Learn puts
\* no device on the list of those collected.
SameTask(rec, old) ==
    IF old = Absent THEN rec.kapa = Absent
    ELSE rec.kapa = old.kapa /\ rec.cron = old.cron
Carries(rec, op, old) ==
    /\ SameTask(rec, old)
    /\ op \in {"Learn", "Remove"} =>
         rec.collector = IF old = Absent THEN Absent ELSE old.collector
    /\ op = "Learn" /\ old # Absent =>
         Elements(rec.collected) \subseteq Elements(old.collected)

\* What a handler that is alone knows: its copies of devices are as they are
\* stored, and its records follow from the stored ones.
Remembers(l, w) ==
    /\ \A d \in DOMAIN l.copies : l.copies[d] = w.devices[d]
    /\ \A o \in DOMAIN l.todo : Carries(l.todo[o], l.op, w.orgs[o])

\* The entries read so far, and the devices still to be read, cover the list.
Reading(l, w) ==
    LET list == Elements(l.todo[l.org].collected)
    IN  /\ {e[1] : e \in l.entries} \subseteq list /\ Elements(l.rest) \subseteq list
        /\ \A d \in list : w.devices[d] # Absent =>
             d \in Elements(l.rest) \/ <<d, w.devices[d].ip>> \in l.entries

KnowsManage(l, w) ==
    /\ l.pc # "rm.device" => Remembers(l, w)
    /\ l.pc = "read" => l.op # "Learn" /\ Reading(l, w)
    /\ l.pc \in {"have", "put"} =>
         /\ l.op # "Remove"
         /\ l.op = "Collect" /\ l.org \notin w.doubt => Filed(l.todo[l.org], l.org, w)
    /\ l.pc = "rm.put" =>
         /\ l.op = "Remove"
         /\ l.org \notin w.doubt /\ w.orgs[l.org] # Absent =>
              Filed(l.todo[l.org], l.org, w)

\* A task that was found is there; if nothing is in doubt, one that was not is not.
KnowsTask(l, w) ==
    LET exists == l.rec.kapa # Absent /\ w.tasks[l.rec.kapa][l.org] # Absent
    IN  (l.found => exists) /\ (l.org \notin w.taskDoubt => exists = l.found)

KnowsOrg(l, w) ==
    /\ l.pc = "ao.add" =>
         l.op = "AddOrg" /\ l.rec.collector = Absent /\ w.orgs[l.org] = Absent
    /\ l.pc = "uo.drop" =>
         l.op = "UpdateOrg" /\ w.orgs[l.org] # Absent /\ l.old = w.orgs[l.org].kapa
    /\ l.pc \in {"task.get", "task.put", "uo.put"} =>
         /\ IF l.op = "AddOrg" THEN w.orgs[l.org] = l.rec ELSE w.orgs[l.org] # Absent
         /\ Apart(l.rec.kapa, l.org, w)
    /\ l.pc = "task.put" => KnowsTask(l, w)
    /\ l.pc = "uo.put" => l.op = "UpdateOrg" /\ Own(l.rec, l.org, w)

\* The device it will put is as it was, or not on the list of its organization.
KnowsDevice(l, w) ==
    l.pc = "ud.put" =>
        \/ l.copy = w.devices[l.id]
        \/ LET rec == w.orgs[l.copy.org]
           IN  rec # Absent => l.id \notin Elements(rec.collected)

Knows(l, w) ==
    /\ l.op \in {"NewDevice", "NewDevices", "UpdateNetworkDevice"} => KnowsDevice(l, w)
    /\ l.op \in {"Collect", "Learn", "Remove"} => KnowsManage(l, w)
    /\ l.op \in {"AddOrg", "UpdateOrg"} => KnowsOrg(l, w)

\* What a handler is and knows when it starts.
LEMMA Begun ==
    ASSUME TypeInv, NEW r \in Requests, BeginRequest(r)
    PROVE  \E l : /\ Begin(r, l) /\ TypedLocal(l) /\ l.pc # "idle"
                  /\ AbsentApart /\ (\A o \in Orgs : Settled(o, Now)) => Knows(l, Now)
<1>1. CASE BeginNewDevices(r)
  <2> DEFINE known == [ip \in {devices[d].ip : d \in Stored} |->
                         Max({d \in Stored : devices[d].ip = ip})]
             l(op, asked) == [op |-> op, pc |-> "new.entry", alone |-> TRUE,
                              asked |-> asked, known |-> known, id |-> 0,
                              copy |-> Absent]
  <2>1. PICK op \in {"NewDevice", "NewDevices"},
             asked \in UNION {[1 .. n -> Device] : n \in 1 .. MaxEntries} :
          Begin(r, l(op, asked))
    BY <1>1 DEF BeginNewDevices
  <2> HIDE DEF known
  <2>2. asked \in Seq(Device) /\ asked # <<>>
    <3>1. PICK n \in 1 .. MaxEntries : asked \in [1 .. n -> Device]
      BY <2>1
    <3>2. asked \in Seq(Device) /\ Len(asked) = n /\ n # 0
      BY <3>1, NetworkDevicesAssumption
    <3> QED BY <3>2
  <2>3. DeviceLocal(l(op, asked))
    BY <2>1, <2>2 DEF DeviceLocal, Record
  <2>4. TypedLocal(l(op, asked)) /\ l(op, asked).pc # "idle"
    BY <2>3 DEF TypedLocal
  <2>5. Knows(l(op, asked), Now)
    BY <2>1 DEF Knows, KnowsDevice
  <2> QED BY <2>1, <2>4, <2>5
<1>2. CASE BeginUpdateNetworkDevice(r)
  <2> DEFINE l(d, copy) ==
               [op |-> "UpdateNetworkDevice", alone |-> TRUE,
                pc |-> IF copy = devices[d] THEN "ud.put" ELSE "ud.check",
                asked |-> <<copy>>, known |-> <<>>, id |-> d, copy |-> copy]
  <2>1. PICK d \in Stored, copy \in Device : Begin(r, l(d, copy))
    BY <1>2 DEF BeginUpdateNetworkDevice
  <2>2. <<copy>> \in Seq(Device) /\ <<copy>> # <<>>
    OBVIOUS
  <2>3. DeviceLocal(l(d, copy))
    BY <2>2 DEF DeviceLocal, Record
  <2>4. TypedLocal(l(d, copy)) /\ l(d, copy).pc # "idle"
    BY <2>3 DEF TypedLocal
  <2>5. Knows(l(d, copy), Now)
    BY DEF Knows, KnowsDevice, Now
  <2> QED BY <2>1, <2>4, <2>5
<1>3. CASE BeginManage(r)
  <2> DEFINE l(op, asked, on) ==
               [op |-> op, pc |-> "get", alone |-> TRUE, asked |-> asked,
                on |-> on, rest |-> asked, copies |-> <<>>, failed |-> {},
                keys |-> {}, home |-> <<>>, todo |-> <<>>,
                left |-> {}, org |-> Absent, entries |-> {},
                restarted |-> {}, found |-> FALSE]
             Known == {d \in DeviceIds : d <= deviceSeq}
  <2>1. PICK op \in {"Collect", "Learn", "Remove"}, asked \in ListsOf(Known, MaxAsked) :
          asked # <<>> /\ \E on : Begin(r, l(op, asked, on))
    BY <1>3 DEF BeginManage
  <2>2. PICK on : Begin(r, l(op, asked, on))
    BY <2>1
  <2>3. Known \subseteq DeviceIds
    OBVIOUS
  <2> HIDE DEF Known
  <2>4. asked \in Seq(DeviceIds)
    <3>1. PICK n \in 0 .. MaxAsked : asked \in [1 .. n -> Known]
      BY <2>1 DEF ListsOf
    <3>2. n \in Nat
      BY NetworkDevicesAssumption
    <3> QED BY <2>3, <3>1, <3>2
  <2>5. DOMAIN <<>> = {}
    OBVIOUS
  <2> DEFINE m == l(op, asked, on)
  <2>6. /\ m.op = op /\ m.pc = "get" /\ m.asked = asked /\ m.rest = asked
        /\ m.copies = <<>> /\ m.home = <<>> /\ m.todo = <<>> /\ m.entries = {}
        /\ m.left = {}
        /\ Record(m, {"op", "pc", "alone", "asked", "on", "rest", "copies", "failed",
                      "keys", "home", "todo", "left", "org", "entries", "restarted",
                      "found"})
    BY DEF Record
  <2>7. Begin(r, m)
    BY <2>2
  <2> HIDE DEF m
  <2>8. ManageLocal(m)
    BY <2>1, <2>4, <2>5, <2>6 DEF ManageLocal, ManageData
  <2>9. TypedLocal(m) /\ m.pc # "idle"
    BY <2>6, <2>8 DEF TypedLocal
  <2>10. Knows(m, Now)
    BY <2>1, <2>5, <2>6 DEF Knows, KnowsManage, Remembers
  <2> QED BY <2>7, <2>9, <2>10
<1>4. CASE BeginAddOrg(r)
  <2> DEFINE rec(k, cron) == [NewDeviceOrg(Absent) EXCEPT !.kapa = k, !.cron = cron]
             l(o, k, cron) == [op |-> "AddOrg", pc |-> "ao.add", alone |-> TRUE,
                               org |-> o, rec |-> rec(k, cron),
                               old |-> Absent, found |-> FALSE]
  <2>1. PICK o \in Orgs, k \in Kapas, cron \in Crons :
          devOrgs[o] = Absent /\ Begin(r, l(o, k, cron))
    BY <1>4 DEF BeginAddOrg
  <2>2. rec(k, cron) \in DeviceOrg /\ rec(k, cron).collector = Absent
    BY NewOrgTyped, RecordsChange DEF NewDeviceOrg
  <2> HIDE DEF rec
  <2>3. OrgLocal(l(o, k, cron))
    BY <2>2 DEF OrgLocal, Record
  <2>4. TypedLocal(l(o, k, cron)) /\ l(o, k, cron).pc # "idle"
    BY <2>3 DEF TypedLocal
  <2>5. Knows(l(o, k, cron), Now)
    BY <2>1, <2>2 DEF Knows, KnowsOrg, Now
  <2> QED BY <2>1, <2>4, <2>5
<1>5. CASE BeginUpdateOrg(r)
  <2> DEFINE kapa(o, k) == IF k = Absent THEN devOrgs[o].kapa ELSE k
             pc(o, k) == IF kapa(o, k) # devOrgs[o].kapa /\ devOrgs[o].kapa # Absent
                         THEN "uo.drop" ELSE "task.get"
             rec(o, k, cron, s, t, c) ==
                [collected |-> s, learned |-> t, collector |-> c, kapa |-> kapa(o, k),
                 cron |-> cron]
             l(o, k, cron, s, t, c) ==
                [op |-> "UpdateOrg", alone |-> TRUE, org |-> o, pc |-> pc(o, k),
                 rec |-> rec(o, k, cron, s, t, c), old |-> devOrgs[o].kapa,
                 found |-> FALSE]
  <2> PICK o \in StoredOrgs, k \in Kapas \cup {Absent}, cron \in Crons :
        \E s \in GivenLists \cup {devOrgs[o].collected},
           t \in GivenLists \cup {devOrgs[o].learned},
           c \in GivenCollectors \cup {devOrgs[o].collector} :
          Begin(r, l(o, k, cron, s, t, c))
    BY <1>5 DEF BeginUpdateOrg
  <2>1. PICK s \in GivenLists \cup {devOrgs[o].collected},
             t \in GivenLists \cup {devOrgs[o].learned},
             c \in GivenCollectors \cup {devOrgs[o].collector} :
          Begin(r, l(o, k, cron, s, t, c))
    OBVIOUS
  <2>2. o \in Orgs /\ devOrgs[o] # Absent /\ devOrgs[o] \in DeviceOrg
    BY DEF StoredOrgs, TypeInv, TypeOK
  <2>3. /\ s \in Seq(DeviceIds) /\ t \in Seq(DeviceIds)
        /\ c \in Collectors \cup {Absent} /\ devOrgs[o].kapa \in Kapas \cup {Absent}
    BY <2>2, NetworkDevicesAssumption DEF DeviceOrg
  <2> DEFINE m == l(o, k, cron, s, t, c)
             q == rec(o, k, cron, s, t, c)
  <2>4. kapa(o, k) \in Kapas \cup {Absent}
    BY <2>3
  <2>5. q \in DeviceOrg /\ q.kapa = kapa(o, k)
    BY <2>3, <2>4 DEF DeviceOrg
  <2>6. /\ m.op = "UpdateOrg" /\ m.org = o /\ m.pc = pc(o, k) /\ m.rec = q
        /\ m.old = devOrgs[o].kapa
        /\ Record(m, {"op", "pc", "alone", "org", "rec", "old", "found"})
    BY DEF Record
  <2>7. \/ pc(o, k) = "uo.drop" /\ devOrgs[o].kapa # Absent
        \/ pc(o, k) = "task.get" /\ devOrgs[o].kapa \in {Absent, kapa(o, k)}
    OBVIOUS
  <2>8. Begin(r, m)
    BY <2>1
  <2> HIDE DEF m, q, pc, kapa
  <2>9. OrgLocal(m)
    BY <2>2, <2>3, <2>5, <2>6, <2>7 DEF OrgLocal
  <2>10. ASSUME AbsentApart, Settled(o, Now)
         PROVE  Knows(m, Now)
    <3>1. Apart(devOrgs[o].kapa, o, Now)
      BY <2>2, <2>10 DEF Settled, KapaOf, Now
    <3>2. m.pc = "task.get" => Apart(q.kapa, o, Now)
      <4>1. SUFFICES ASSUME devOrgs[o].kapa \in {Absent, q.kapa}
                     PROVE  Apart(q.kapa, o, Now)
        BY <2>5, <2>6, <2>7
      <4> QED BY <2>10, <3>1, <4>1 DEF Apart, AbsentApart
    <3>3. KnowsOrg(m, Now)
      BY <2>2, <2>6, <2>7, <3>2 DEF KnowsOrg, Now
    <3> QED BY <2>6, <3>3 DEF Knows
  <2>11. TypedLocal(m) /\ m.pc # "idle"
    BY <2>6, <2>7, <2>9 DEF TypedLocal
  <2> QED BY <2>2, <2>8, <2>10, <2>11
<1>6. CASE BeginRemoveOrg(r)
  <2> DEFINE l(o) == [op |-> "RemoveOrg", pc |-> "ro.delete", alone |-> TRUE, org |-> o]
  <2>1. PICK o \in StoredOrgs : Begin(r, l(o))
    BY <1>6 DEF BeginRemoveOrg
  <2>2. TypedLocal(l(o)) /\ l(o).pc # "idle"
    BY DEF TypedLocal, RemoveOrgLocal, Record, StoredOrgs
  <2>3. Knows(l(o), Now)
    BY DEF Knows
  <2> QED BY <2>1, <2>2, <2>3
<1> QED
  BY <1>1, <1>2, <1>3, <1>4, <1>5, <1>6 DEF BeginRequest

LEMMA TypeNext == TypeInv /\ [Next]_vars => TypeInv'
<1> SUFFICES ASSUME TypeInv, [Next]_vars PROVE TypeInv'
  OBVIOUS
<1>1. CASE UNCHANGED vars
  BY <1>1 DEF TypeInv, TypeOK, vars
<1>2. CASE Crash
  <2>1. /\ UNCHANGED <<devices, deviceSeq, devOrgs, files, tasks>>
        /\ req' = [r \in Requests |-> Idle]
        /\ AllInDoubt
    BY <1>2 DEF Crash
  <2>2. faults' \in 0 .. MaxFaults
    BY <1>2, NetworkDevicesAssumption DEF Crash, Fails, TypeInv, TypeOK
  <2>3. TypeOK'
    BY <2>1, <2>2 DEF AllInDoubt, TypeInv, TypeOK
  <2>4. req' = [r \in Requests |-> req'[r]] /\ \A r \in Requests : req'[r] = Idle
    BY <2>1
  <2> QED BY <2>3, <2>4, IdleTyped DEF TypeInv
<1>3. ASSUME NEW r \in Requests, ManageStep(r)
      PROVE  TypeInv'
  BY <1>3, ManageGetTyped, CollectOrgsTyped, RemoveCheckTyped, GroupsTyped, OpenTyped,
     FileTyped, PutsTyped DEF ManageStep
<1> QED
  BY <1>1, <1>2, <1>3, DevicesTyped, OrgsTyped, Begun, TypeBegin DEF Next, Step

LEMMA TypeInit == Init => TypeInv
<1> SUFFICES ASSUME Init PROVE TypeInv
  OBVIOUS
<1>1. TypeOK
  BY NetworkDevicesAssumption DEF Init, TypeOK
<1> QED BY <1>1, IdleTyped DEF Init, TypeInv

\* However handlers interleave, fail and crash, and whatever lists and collectors
\* clients set, the stores keep their types: a list is one of ids that the devices
\* bucket can hand out, the loop of removeDeviceIDsFromPreviousOrg over a list it is
\* shifting never leaves the array, and a file names such ids with addresses.
THEOREM TypeCorrect == Spec => []TypeOK
<1>1. TypeInv => TypeOK
  BY DEF TypeInv
<1> QED
  BY <1>1, TypeInit, TypeNext, PTL DEF Spec

\* Whatever is in doubt, nothing is said of it.
Loose(w) ==
    w.doubt = Orgs /\ w.taskDoubt = Orgs /\ w.stray = Kapas \X Orgs

Sound(l, w) == Knows(l, w) /\ FiledBut(l, w) /\ SettledBut(l, w)

\* The inductive invariant: either nothing is said of any file or task, or at most
\* one handler is in flight, which is alone, and what it has not yet written is
\* sound; and without one, everything is.
AloneInv ==
    /\ \A q, r \in Requests :
         /\ ~At(q, "idle") /\ ~At(r, "idle")
         /\ req[q].alone \/ ~Loose(Now)
         => q = r /\ req[q].alone
    /\ \A r \in Requests : ~At(r, "idle") /\ req[r].alone => Sound(req[r], Now)
    /\ Quiet => Sound(Idle, Now)

LEMMA FiledKept ==
    ASSUME NEW rec, NEW o, NEW w, NEW v, Filed(rec, o, w),
           o \in w.extra => o \in v.extra,
           rec.collector # Absent =>
             v.files[rec.collector][o] = w.files[rec.collector][o],
           \A d \in Elements(rec.collected) :
             \/ v.devices[d] = Absent
             \/ v.devices[d] = w.devices[d]
             \/ w.devices[d] # Absent /\ v.devices[d].org # o
    PROVE  Filed(rec, o, v)
BY DEF Filed, Matches

\* The same tasks, and no less in doubt.
LEMMA SettledKept ==
    ASSUME NEW o, NEW w, NEW v, Settled(o, w),
           \/ v.orgs[o] = w.orgs[o]
           \/ v.orgs[o] # Absent /\ SameTask(v.orgs[o], w.orgs[o]),
           \A k \in Kapas : v.tasks[k][o] = w.tasks[k][o],
           \A k \in Kapas : <<k, o>> \in w.stray => <<k, o>> \in v.stray,
           o \in w.taskDoubt => o \in v.taskDoubt,
           v.orgs[o] # Absent => v.orgs[o].kapa \in Kapas \cup {Absent}
    PROVE  Settled(o, v)
<1>1. KapaOf(v.orgs[o]) = KapaOf(w.orgs[o])
  BY DEF SameTask, KapaOf
<1>2. Apart(KapaOf(v.orgs[o]), o, v)
  BY <1>1 DEF Settled, Apart
<1>3. ASSUME v.orgs[o] # Absent, o \notin v.taskDoubt, v.orgs[o].kapa # Absent
      PROVE  v.tasks[v.orgs[o].kapa][o] = v.orgs[o].cron
  <2>1. /\ w.orgs[o] # Absent
        /\ v.orgs[o].kapa = w.orgs[o].kapa /\ v.orgs[o].cron = w.orgs[o].cron
    BY <1>3 DEF SameTask
  <2> QED BY <1>3, <2>1 DEF Settled, Own
<1> QED BY <1>2, <1>3 DEF Settled, Own

LEMMA IdleKnows ==
    \A w : Knows(Idle, w) /\ \A o : ~Writing(Idle, o) /\ ~Changing(Idle, o)
BY DEF Knows, Writing, Changing, Idle

LEMMA LooseSound == \A w : Loose(w) => Sound(Idle, w)
<1> SUFFICES ASSUME NEW w, Loose(w) PROVE Sound(Idle, w)
  OBVIOUS
<1>1. FiledBut(Idle, w)
  BY DEF Loose, FiledBut
<1>2. SettledBut(Idle, w)
  BY DEF Loose, SettledBut, Settled, Apart, Own
<1> QED BY <1>1, <1>2, IdleKnows DEF Sound

\* A step keeps the invariant if its handler does, when it is alone, and takes
\* nothing out of doubt when it is not.
LEMMA AloneStep ==
    ASSUME TypeInv, TypeInv', AloneInv, NEW r \in Requests, ~At(r, "idle"),
           NEW m, Go(r, m), m = Idle \/ m.alone = req[r].alone,
           req[r].alone \/ /\ fileDoubt \subseteq fileDoubt'
                           /\ taskDoubt \subseteq taskDoubt'
                           /\ stray \subseteq stray',
           req[r].alone /\ Sound(req[r], Now) => Sound(m, Now')
    PROVE  AloneInv'
<1>1. \A q \in Requests : req'[q] = IF q = r THEN m ELSE req[q]
  BY DEF TypeInv, Go
<1>2. \A q \in Requests : ~At(q, "idle")' => ~At(q, "idle")
  BY <1>1 DEF At
<1>3. CASE req[r].alone
  <2>1. \A q \in Requests \ {r} : At(q, "idle")
    BY <1>3 DEF AloneInv
  <2>2. Sound(m, Now')
    BY <1>3 DEF AloneInv
  <2>3. \A q \in Requests : ~At(q, "idle")' => q = r /\ req'[q] = m
    BY <1>1, <1>2, <2>1
  <2>4. ASSUME NEW q \in Requests, ~At(q, "idle")'
        PROVE  q = r /\ req'[q].alone
    <3>1. q = r /\ req'[q] = m /\ m.pc # "idle"
      BY <2>3, <2>4 DEF At
    <3>2. m.alone = req[r].alone
      BY <3>1 DEF Idle
    <3>3. req'[q].alone = req[r].alone
      BY <3>1, <3>2
    <3> QED BY <1>3, <3>1, <3>3
  <2>5. \A q \in Requests : ~At(q, "idle")' => Sound(req[q], Now)'
    BY <2>2, <2>3
  <2>6. ASSUME Quiet' PROVE Sound(Idle, Now')
    <3>1. req'[r] = m /\ m.pc = "idle"
      BY <1>1, <2>6 DEF Quiet, At
    <3>2. m = Idle
      <4>1. TypedLocal(m)
        BY <3>1 DEF TypeInv
      <4> QED BY <3>1, <4>1 DEF TypedLocal, DeviceLocal, ManageLocal, OrgLocal,
                               RemoveOrgLocal, Idle
    <3> QED BY <2>2, <3>2
  <2> QED BY <2>4, <2>5, <2>6 DEF AloneInv
<1>4. CASE ~req[r].alone
  <2>1. Loose(Now)
    BY <1>4 DEF AloneInv
  <2>2. Loose(Now')
    BY <1>4, <2>1 DEF Loose, Now, TypeInv, TypeOK
  <2>3. \A q \in Requests : ~At(q, "idle")' => ~req'[q].alone
    BY <1>1, <1>2, <1>4 DEF AloneInv, At, Idle
  <2>4. Sound(Idle, Now')
    BY <2>2, LooseSound
  <2>5. Loose(Now)'
    BY <2>2
  <2> QED BY <2>3, <2>4, <2>5 DEF AloneInv
<1> QED BY <1>3, <1>4

\* One that has nothing to do with tasks.
LEMMA FilesStep ==
    ASSUME TypeInv, TypeInv', AloneInv, NEW r \in Requests, ~At(r, "idle"),
           NEW m, Go(r, m), m = Idle \/ m.alone = req[r].alone,
           UNCHANGED <<tasks, taskDoubt, stray>>, \A o \in Orgs : ~Changing(req[r], o),
           req[r].alone \/ fileDoubt \subseteq fileDoubt',
           req[r].alone /\ Knows(req[r], Now) /\ FiledBut(req[r], Now) =>
             /\ Knows(m, Now') /\ FiledBut(m, Now')
             /\ \A o \in Orgs :
                  \/ devOrgs'[o] = devOrgs[o]
                  \/ devOrgs'[o] # Absent /\ SameTask(devOrgs'[o], devOrgs[o])
    PROVE  AloneInv'
<1>1. ASSUME req[r].alone, Sound(req[r], Now)
      PROVE  Sound(m, Now')
  <2>1. /\ Knows(m, Now') /\ FiledBut(m, Now')
        /\ \A o \in Orgs :
             \/ devOrgs'[o] = devOrgs[o]
             \/ devOrgs'[o] # Absent /\ SameTask(devOrgs'[o], devOrgs[o])
    BY <1>1 DEF Sound
  <2>2. ASSUME NEW o \in Orgs
        PROVE  Settled(o, Now')
    <3>1. Settled(o, Now)
      BY <1>1 DEF Sound, SettledBut
    <3>2. devOrgs'[o] # Absent => devOrgs'[o].kapa \in Kapas \cup {Absent}
      BY DEF TypeInv, TypeOK, DeviceOrg
    <3> QED BY <2>1, <3>1, <3>2, SettledKept DEF Now
  <2> QED BY <2>1, <2>2 DEF Sound, SettledBut
<1> QED BY <1>1, AloneStep

\* One that changes no store.
LEMMA FilesRead ==
    ASSUME TypeInv, TypeInv', AloneInv, NEW r \in Requests, ~At(r, "idle"),
           NEW m, Go(r, m), StoresKeep, m = Idle \/ m.alone = req[r].alone,
           \A o \in Orgs : ~Changing(req[r], o),
           req[r].alone /\ Knows(req[r], Now) /\ FiledBut(req[r], Now) =>
             Knows(m, Now) /\ \A o \in Orgs : Writing(req[r], o) => Writing(m, o)
    PROVE  AloneInv'
<1>1. Now' = Now /\ UNCHANGED <<tasks, fileDoubt, taskDoubt, stray, devOrgs>>
  BY DEF StoresKeep, Now, history
<1>2. req[r].alone /\ Knows(req[r], Now) /\ FiledBut(req[r], Now) =>
        Knows(m, Now') /\ FiledBut(m, Now')
  BY <1>1 DEF FiledBut
<1> QED BY <1>1, <1>2, FilesStep

\* The turns of the loops: the handler that goes on is the same, and remembers.
Onward(m, l, w) ==
    (m = Idle \/ m.alone = l.alone) /\ (Remembers(l, w) => Knows(m, w))

LEMMA ToOrgsKnows ==
    ASSUME NEW l, ManageData(l), NEW w
    PROVE  Onward(ToOrgs(l), l, w)
<1>1. CASE l.todo # <<>>
  <2> DEFINE m == [l EXCEPT !.pc = "org", !.left = DOMAIN l.todo, !.on = {},
                            !.keys = {}, !.home = <<>>]
  <2>1. /\ m.pc = "org" /\ m.op = l.op /\ m.copies = l.copies /\ m.todo = l.todo
        /\ m.alone = l.alone
    BY DEF ManageData, Record
  <2>2. ToOrgs(l) = m
    BY <1>1 DEF ToOrgs
  <2> HIDE DEF m
  <2>3. Remembers(l, w) => Knows(m, w)
    BY <2>1 DEF ManageData, Knows, KnowsManage, Remembers
  <2> QED BY <2>1, <2>2, <2>3 DEF Onward
<1>2. CASE l.todo = <<>> /\ l.op = "Remove"
  <2> DEFINE m == [l EXCEPT !.pc = "rm.device", !.rest = l.asked, !.copies = <<>>]
  <2>1. m.pc = "rm.device" /\ m.op = l.op /\ m.alone = l.alone
    BY DEF ManageData, Record
  <2>2. ToOrgs(l) = m
    BY <1>2 DEF ToOrgs
  <2> HIDE DEF m
  <2>3. Remembers(l, w) => Knows(m, w)
    BY <2>1 DEF ManageData, Knows, KnowsManage
  <2> QED BY <2>1, <2>2, <2>3 DEF Onward
<1>3. CASE l.todo = <<>> /\ l.op # "Remove"
  BY <1>3, IdleKnows DEF ToOrgs, Onward
<1> QED
  BY <1>1, <1>2, <1>3

LEMMA NextOrgKnows ==
    ASSUME NEW l, ManageData(l), NEW w
    PROVE  Onward(NextOrg(l), l, w) /\ Onward(SkipOrg(l), l, w)
<1> DEFINE Next1(k) == [k EXCEPT !.todo = [p \in DOMAIN @ \ {k.org} |-> @[p]],
                                 !.entries = {}, !.rest = <<>>]
<1>1. ASSUME NEW k, ManageData(k), k.alone = l.alone,
             Remembers(l, w) => Remembers(k, w)
      PROVE  Onward(NextOrg(k), l, w)
  <2> DEFINE m == Next1(k)
  <2>1. m.rest = <<>> /\ <<>> \in Seq(DeviceIds) /\ m.entries = {}
    BY <1>1 DEF ManageData, Record
  <2>2. /\ DOMAIN m.todo \subseteq DOMAIN k.todo
        /\ \A p \in DOMAIN m.todo : m.todo[p] = k.todo[p]
    BY <1>1 DEF ManageData, Record
  <2>3. /\ m.op = k.op /\ m.asked = k.asked /\ m.home = k.home /\ m.left = k.left
        /\ m.copies = k.copies /\ m.alone = k.alone
        /\ Record(m, {"op", "pc", "alone", "asked", "on", "rest", "copies", "failed",
                    "keys", "home", "todo", "left", "org", "entries", "restarted",
                    "found"})
    BY <1>1 DEF ManageData, Record
  <2> HIDE DEF m
  <2>4. ManageData(m) /\ (Remembers(k, w) => Remembers(m, w))
    BY <1>1, <2>1, <2>2, <2>3 DEF ManageData, Remembers
  <2>5. Onward(ToOrgs(m), l, w)
    BY <1>1, <2>3, <2>4, ToOrgsKnows DEF Onward
  <2> QED
    BY <2>5 DEF NextOrg, m
<1>2. Onward(NextOrg(l), l, w)
  BY <1>1
<1> DEFINE f == [l EXCEPT !.failed = DOMAIN l.copies]
<1>3. ManageData(f) /\ f.alone = l.alone /\ (Remembers(l, w) => Remembers(f, w))
  BY DEF ManageData, Record, Remembers
<1>4. SkipOrg(l) = NextOrg(f) \/ SkipOrg(l) = NextOrg(l)
  BY DEF SkipOrg
<1> HIDE DEF f
<1>5. Onward(NextOrg(f), l, w)
  BY <1>1, <1>3
<1> QED
  BY <1>2, <1>4, <1>5

LEMMA ToGroupsKnows ==
    ASSUME NEW l, ManageData(l), NEW w
    PROVE  /\ Onward(ToGroups(l), l, w)
           /\ \A o : l.pc = "group" => Onward(NextGroup(l, o), l, w)
<1>1. Onward([l EXCEPT !.pc = "group", !.left = GroupOrgs(l)], l, w)
  BY DEF ManageData, Record, Onward, Knows, KnowsManage, Remembers
<1>2. \A o : l.pc = "group" => Onward([l EXCEPT !.left = @ \ {o}], l, w)
  BY DEF ManageData, Record, Onward, Knows, KnowsManage, Remembers
<1> QED
  BY <1>1, <1>2, ToOrgsKnows DEF ToGroups, NextGroup

----------------------------------------------------------------------------
(* Handlers of devices. *)
LEMMA NextEntryKnows ==
    ASSUME NEW r \in Requests, NextEntry(r), DeviceLocal(req[r])
    PROVE  \E m : /\ Go(r, m) /\ (m = Idle \/ m.alone = req[r].alone)
                  /\ \A w : Knows(m, w)
<1>1. CASE Finish(r)
  BY <1>1, IdleKnows DEF Finish
<1>2. CASE Len(req[r].asked) # 1
  <2> DEFINE l == req[r]
             m == [l EXCEPT !.pc = "new.entry", !.asked = Tail(@),
                            !.id = 0, !.copy = Absent]
  <2>1. Go(r, m)
    BY <1>2 DEF NextEntry
  <2>2. m.op = l.op /\ m.pc = "new.entry" /\ m.alone = l.alone
    BY DEF DeviceLocal, Record
  <2> HIDE DEF m
  <2>3. \A w : Knows(m, w)
    BY <2>2 DEF DeviceLocal, Knows, KnowsDevice
  <2> QED BY <2>1, <2>2, <2>3
<1> QED
  BY <1>1, <1>2 DEF NextEntry

LEMMA DevicesFiles ==
    ASSUME TypeInv, TypeInv', AloneInv, NEW r \in Requests, DevicesStep(r)
    PROVE  AloneInv'
<1> DEFINE l == req[r]
<1>1. /\ DeviceLocal(l) /\ ~At(r, "idle")
      /\ \A o : ~Writing(l, o) /\ ~Changing(l, o)
      /\ l.pc \in {"new.entry", "ud.get", "ud.check", "ud.put"}
  <2>1. l.pc \in {"new.entry", "ud.get", "ud.check", "ud.put"}
    BY DEF DevicesStep, KnownAddress, CreateDevice, UpdateDeviceGet,
           UpdateDeviceCheck, UpdateDevicePut, At
  <2>2. DeviceLocal(l)
    BY <2>1 DEF TypeInv, TypedLocal, ManageLocal, OrgLocal, RemoveOrgLocal, Idle
  <2> QED BY <2>1, <2>2 DEF At, Writing, Changing
<1>2. CASE NextEntry(r) /\ Reads
  <2>1. PICK m : /\ Go(r, m) /\ (m = Idle \/ m.alone = req[r].alone)
                 /\ \A w : Knows(m, w)
    BY <1>1, <1>2, NextEntryKnows
  <2> QED BY <1>1, <1>2, <2>1, FilesRead DEF Reads
<1>3. CASE KnownAddress(r)
  <2>1. ASSUME NEW id, Go(r, [l EXCEPT !.pc = "ud.get", !.id = id]), Reads
        PROVE  AloneInv'
    <3> DEFINE m == [l EXCEPT !.pc = "ud.get", !.id = id]
    <3>1. m.op = l.op /\ m.pc = "ud.get" /\ m.alone = l.alone
      BY <1>1 DEF DeviceLocal, Record
    <3>2. Go(r, m)
      BY <2>1
    <3> HIDE DEF m
    <3>3. Knows(m, Now)
      BY <1>1, <3>1 DEF DeviceLocal, Knows, KnowsDevice
    <3> QED BY <1>1, <2>1, <3>1, <3>2, <3>3, FilesRead DEF Reads
  <2> QED BY <1>2, <1>3, <2>1 DEF KnownAddress
<1>4. CASE UpdateDeviceGet(r)
  <2>1. CASE NextEntry(r)
    BY <1>2, <1>4, <2>1 DEF UpdateDeviceGet
  <2>2. CASE devices[l.id] # Absent
    <3> DEFINE copy == Head(l.asked)
               pc == IF copy = devices[l.id] THEN "ud.put" ELSE "ud.check"
               m == [l EXCEPT !.copy = copy, !.pc = pc]
    <3>1. Go(r, m) /\ Reads
      BY <1>4, <2>2 DEF UpdateDeviceGet
    <3> HIDE DEF copy
    <3>2. /\ m.op = l.op /\ m.alone = l.alone /\ m.id = l.id /\ m.copy = copy
          /\ m.pc = pc
      BY <1>1 DEF DeviceLocal, Record
    <3> HIDE DEF m
    <3>3. Knows(m, Now)
      BY <1>1, <3>2 DEF DeviceLocal, Knows, KnowsDevice, Now
    <3> QED BY <1>1, <3>1, <3>2, <3>3, FilesRead DEF Reads
  <2> QED BY <1>4, <2>1, <2>2 DEF UpdateDeviceGet
<1>5. CASE UpdateDeviceCheck(r)
  <2>1. CASE NextEntry(r)
    BY <1>2, <1>5, <2>1 DEF UpdateDeviceCheck
  <2>2. CASE ~ListedIn(l.copy.org, l.id)
    <3> DEFINE m == [l EXCEPT !.pc = "ud.put"]
    <3>1. Go(r, m) /\ Reads
      BY <1>5, <2>2 DEF UpdateDeviceCheck
    <3>2. m.op = l.op /\ m.alone = l.alone /\ m.id = l.id /\ m.copy = l.copy
      BY <1>1 DEF DeviceLocal, Record
    <3> HIDE DEF m
    <3>3. Knows(m, Now)
      BY <1>1, <2>2, <3>2 DEF DeviceLocal, Knows, KnowsDevice, ListedIn, Now
    <3> QED BY <1>1, <3>1, <3>2, <3>3, FilesRead DEF Reads
  <2> QED BY <1>5, <2>1, <2>2 DEF UpdateDeviceCheck
<1>6. CASE CreateDevice(r) \/ UpdateDevicePut(r)
  <2>1. PICK m : /\ Go(r, m) /\ (m = Idle \/ m.alone = req[r].alone)
                 /\ \A w : Knows(m, w)
    BY <1>1, <1>6, NextEntryKnows DEF CreateDevice, UpdateDevicePut
  <2>2. /\ UNCHANGED <<devOrgs, files, tasks, fileExtra, taskDoubt, stray>>
        /\ fileDoubt \subseteq fileDoubt'
    BY <1>6 DEF CreateDevice, UpdateDevicePut, history
  <2>3. ASSUME Knows(l, Now), FiledBut(l, Now)
        PROVE  FiledBut(m, Now')
    <3>1. SUFFICES ASSUME NEW o \in Orgs, devOrgs[o] # Absent, o \notin fileDoubt'
                   PROVE  Filed(devOrgs[o], o, Now')
      BY <2>2 DEF FiledBut, Now
    <3>2. Filed(devOrgs[o], o, Now)
      BY <1>1, <2>2, <2>3, <3>1 DEF FiledBut, Now
    <3>3. ASSUME NEW d \in Elements(devOrgs[o].collected)
          PROVE  \/ devices'[d] = devices[d]
                 \/ devices[d] # Absent /\ devices'[d].org # o
      <4>1. d \in DeviceIds
        <5>1. devOrgs[o].collected \in Seq(DeviceIds)
          BY <3>1 DEF TypeInv, TypeOK, DeviceOrg
        <5>2. \A s \in Seq(DeviceIds) : Elements(s) \subseteq DeviceIds
          BY DEF Elements
        <5> QED BY <5>1, <5>2, <3>3
      <4>2. CASE CreateDevice(r)
        <5>1. CASE UNCHANGED <<deviceVars, fileDoubt>>
          BY <5>1 DEF deviceVars
        <5>2. CASE ~UNCHANGED <<deviceVars, fileDoubt>>
          <6>1. /\ devices' = [x \in DeviceIds |->
                                 IF x = deviceSeq + 1 THEN Head(l.asked)
                                 ELSE devices[x]]
                /\ fileDoubt' = fileDoubt \cup
                     {p \in StoredOrgs :
                        deviceSeq + 1 \in Elements(devOrgs[p].collected)}
            BY <4>2, <5>2 DEF CreateDevice
          <6>2. d # deviceSeq + 1
            BY <3>1, <3>3, <6>1 DEF StoredOrgs
          <6> QED BY <4>1, <6>1, <6>2
        <5> QED BY <5>1, <5>2
      <4>3. CASE UpdateDevicePut(r)
        <5>1. KnowsDevice(l, Now) /\ l.pc = "ud.put"
          BY <1>1, <2>3, <4>3 DEF Knows, DeviceLocal, UpdateDevicePut, At
        <5>2. devices'[d] = IF d = l.id /\ devices[l.id] # Absent THEN l.copy
                            ELSE devices[d]
          BY <4>1, <4>3 DEF UpdateDevicePut, PutDevice
        <5> QED BY <3>1, <3>3, <5>1, <5>2 DEF KnowsDevice, Now
      <4> QED BY <1>6, <4>2, <4>3
    <3> QED BY <2>2, <3>2, <3>3, FiledKept DEF Now
  <2> QED BY <1>1, <2>1, <2>2, <2>3, FilesStep
<1> QED
  BY <1>3, <1>4, <1>5, <1>6 DEF DevicesStep

----------------------------------------------------------------------------
(* Handlers of organizations, and handlers that start. *)

\* One that touches the record and the tasks of its organization alone leaves what
\* is said of the others' tasks.
LEMMA OthersSettled ==
    ASSUME TypeInv', NEW o \in Orgs, NEW p \in Orgs, p # o, Settled(p, Now),
           devOrgs'[p] = devOrgs[p],
           \A k \in Kapas : tasks'[k][p] = tasks[k][p],
           \A k \in Kapas : <<k, p>> \in stray => <<k, p>> \in stray',
           p \in taskDoubt => p \in taskDoubt'
    PROVE  Settled(p, Now')
<1>1. devOrgs'[p] # Absent => devOrgs'[p].kapa \in Kapas \cup {Absent}
  BY DEF TypeInv, TypeOK, DeviceOrg
<1> QED BY <1>1, SettledKept DEF Now

\* A step that leaves devices, records and files alone.
LEMMA FiledStays ==
    ASSUME UNCHANGED <<devices, devOrgs, files, fileDoubt, fileExtra>>,
           NEW l, FiledBut(l, Now), \A o : ~Writing(l, o), NEW m
    PROVE  FiledBut(m, Now')
<1> SUFFICES ASSUME NEW o \in Orgs, devOrgs[o] # Absent, o \notin fileDoubt
             PROVE  Filed(devOrgs[o], o, Now')
  BY DEF FiledBut, Now
<1>1. Filed(devOrgs[o], o, Now)
  BY DEF FiledBut, Now
<1> QED BY <1>1, FiledKept DEF Now

LEMMA OrgHandler ==
    ASSUME TypeInv, NEW r \in Requests,
           req[r].pc \in {"ao.add", "uo.drop", "task.get", "task.put", "uo.put"}
    PROVE  /\ OrgLocal(req[r]) /\ req[r].org \in Orgs /\ ~At(r, "idle")
           /\ \A o : ~Writing(req[r], o)
           /\ \A o : Changing(req[r], o) =>
                o = req[r].org /\ req[r].pc \in {"task.get", "task.put", "uo.put"}
           /\ \A w : Knows(req[r], w) => KnowsOrg(req[r], w)
<1> DEFINE l == req[r]
<1>1. OrgLocal(l)
  BY DEF TypeInv, TypedLocal, DeviceLocal, ManageLocal, RemoveOrgLocal, Idle
<1> QED BY <1>1 DEF OrgLocal, Writing, Changing, Knows, At

\* The task of o in k becomes t: the others stay.
LEMMA TasksChange ==
    ASSUME TypeInv, NEW k \in Kapas, NEW o \in Orgs, NEW t
    PROVE  \A j \in Kapas, p \in Orgs :
             TasksWith(k, o, t)[j][p] = IF j = k /\ p = o THEN t ELSE tasks[j][p]
BY DEF TypeInv, TypeOK, TasksWith

LEMMA RemoveOrgFiles ==
    ASSUME AbsentApart, TypeInv, TypeInv', AloneInv, NEW r \in Requests, RemoveOrg(r)
    PROVE  AloneInv'
<1> DEFINE l == req[r]
           o == l.org
<1>1. /\ Go(r, Idle) /\ ~At(r, "idle") /\ o \in Orgs
      /\ \A p : ~Writing(l, p) /\ ~Changing(l, p)
  <2>1. Go(r, Idle) /\ l.pc = "ro.delete"
    BY DEF RemoveOrg, Finish, At
  <2>2. RemoveOrgLocal(l)
    BY <2>1 DEF TypeInv, TypedLocal, DeviceLocal, ManageLocal, OrgLocal, Idle
  <2> QED BY <2>1, <2>2 DEF At, Writing, Changing, RemoveOrgLocal
<1>2. /\ devOrgs' = [devOrgs EXCEPT ![o] = Absent]
      /\ stray' = IF devOrgs[o] = Absent THEN stray
                  ELSE stray \cup ({devOrgs[o].kapa} \cap Kapas) \X {o}
      /\ UNCHANGED <<devices, files, tasks, fileDoubt, fileExtra, taskDoubt>>
  BY DEF RemoveOrg
<1>3. /\ \A p \in Orgs : devOrgs'[p] = IF p = o THEN Absent ELSE devOrgs[p]
      /\ stray \subseteq stray'
  BY <1>1, <1>2 DEF TypeInv, TypeOK
<1>4. ASSUME Sound(l, Now)
      PROVE  Sound(Idle, Now')
  <2>1. ASSUME NEW p \in Orgs, devOrgs'[p] # Absent, p \notin fileDoubt'
        PROVE  Filed(devOrgs'[p], p, Now')
    <3>1. p # o /\ devOrgs'[p] = devOrgs[p]
      BY <1>3, <2>1
    <3>2. Filed(devOrgs[p], p, Now)
      BY <1>1, <1>2, <1>4, <2>1, <3>1 DEF Sound, FiledBut, Now
    <3> QED BY <1>2, <3>1, <3>2, FiledKept DEF Now
  <2>2. ASSUME NEW p \in Orgs
        PROVE  Settled(p, Now')
    <3>1. Settled(p, Now)
      BY <1>1, <1>4 DEF Sound, SettledBut
    <3>2. CASE p # o
      BY <1>1, <1>2, <1>3, <3>1, <3>2, OthersSettled
    <3>3. CASE p = o
      <4>1. Apart(KapaOf(devOrgs[o]), o, Now)
        BY <3>1, <3>3 DEF Settled, Now
      <4>2. ASSUME NEW k \in Kapas, tasks[k][o] # Absent
            PROVE  <<k, o>> \in stray'
        <5>1. CASE k # KapaOf(devOrgs[o])
          BY <1>3, <4>1, <4>2, <5>1 DEF Apart, Now
        <5>2. CASE k = KapaOf(devOrgs[o])
          BY <1>2, <4>2, <5>2 DEF KapaOf, AbsentApart
        <5> QED BY <5>1, <5>2
      <4> QED BY <1>2, <1>3, <3>3, <4>2 DEF Settled, Apart, KapaOf, Now
    <3> QED BY <3>2, <3>3
  <2> QED BY <2>1, <2>2, IdleKnows DEF Sound, FiledBut, SettledBut, Now
<1> QED BY <1>1, <1>2, <1>3, <1>4, AloneStep

\* The record that is added has no collector yet, and its task comes after it.
LEMMA AddOrgFiles ==
    ASSUME AbsentApart, TypeInv, TypeInv', AloneInv, NEW r \in Requests, AddOrg(r)
    PROVE  AloneInv'
<1> DEFINE l == req[r]
           o == l.org
           m == [l EXCEPT !.pc = "task.get"]
<1>1. /\ Go(r, m) /\ l.pc = "ao.add"
      /\ devOrgs' = [devOrgs EXCEPT ![o] = l.rec]
      /\ UNCHANGED <<devices, files, tasks, fileDoubt, fileExtra, taskDoubt, stray>>
  BY DEF AddOrg, At, history
<1>2. /\ OrgLocal(l) /\ o \in Orgs /\ ~At(r, "idle")
      /\ \A p : ~Writing(l, p) /\ ~Changing(l, p)
  BY <1>1, OrgHandler
<1>3. /\ m.alone = l.alone /\ m.pc = "task.get" /\ m.op = l.op /\ m.org = o
      /\ m.rec = l.rec
  BY <1>2 DEF OrgLocal, Record
<1> HIDE DEF m
<1>4. \A p \in Orgs : devOrgs'[p] = IF p = o THEN l.rec ELSE devOrgs[p]
  BY <1>1, <1>2 DEF TypeInv, TypeOK
<1>5. ASSUME Sound(l, Now)
      PROVE  Sound(m, Now')
  <2>1. l.op = "AddOrg" /\ l.rec.collector = Absent /\ devOrgs[o] = Absent
    BY <1>1, <1>5, OrgHandler DEF Sound, KnowsOrg, Now
  <2>2. ASSUME NEW p \in Orgs, devOrgs'[p] # Absent, p \notin fileDoubt'
        PROVE  Filed(devOrgs'[p], p, Now')
    <3>1. CASE p = o
      BY <1>4, <2>1, <3>1 DEF Filed
    <3>2. CASE p # o
      <4>1. Filed(devOrgs[p], p, Now)
        BY <1>1, <1>2, <1>4, <1>5, <2>2, <3>2 DEF Sound, FiledBut, Now
      <4> QED BY <1>1, <1>4, <3>2, <4>1, FiledKept DEF Now
    <3> QED BY <3>1, <3>2
  <2>3. \A p \in Orgs : Settled(p, Now)
    BY <1>2, <1>5 DEF Sound, SettledBut
  <2>4. Apart(l.rec.kapa, o, Now')
    <3>1. Apart(Absent, o, Now)
      BY <1>2, <2>1, <2>3 DEF Settled, KapaOf, Now
    <3> QED BY <1>1, <3>1 DEF Apart, AbsentApart, Now
  <2>5. Changing(m, o)
    BY <1>3, <2>1 DEF Changing
  <2>6. \A p \in Orgs : Settled(p, Now') \/ Changing(m, p)
    BY <1>1, <1>2, <1>4, <2>3, <2>5, OthersSettled
  <2>7. Knows(m, Now')
    BY <1>2, <1>3, <1>4, <2>1, <2>4 DEF Knows, KnowsOrg, Now
  <2> QED BY <2>2, <2>6, <2>7 DEF Sound, FiledBut, SettledBut, Now
<1> QED BY <1>1, <1>2, <1>3, <1>5, AloneStep

\* A list or a collector that the client set is not in the file; the record's task
\* has been put.
LEMMA UpdateOrgPutFiles ==
    ASSUME AbsentApart, TypeInv, TypeInv', AloneInv, NEW r \in Requests,
           UpdateOrgPut(r)
    PROVE  AloneInv'
<1> DEFINE l == req[r]
           o == l.org
<1>1. /\ Go(r, Idle) /\ l.pc = "uo.put"
      /\ devOrgs' = IF devOrgs[o] = Absent THEN devOrgs
                    ELSE [devOrgs EXCEPT ![o] = l.rec]
      /\ fileDoubt' =
            IF devOrgs[o] # Absent /\ (l.rec.collected # devOrgs[o].collected
                                        \/ l.rec.collector # devOrgs[o].collector)
            THEN fileDoubt \cup {o} ELSE fileDoubt
      /\ UNCHANGED <<devices, files, tasks, fileExtra, taskDoubt, stray>>
  BY DEF UpdateOrgPut, UpdateOrg, Finish, At
<1>2. /\ OrgLocal(l) /\ o \in Orgs /\ ~At(r, "idle")
      /\ \A p : ~Writing(l, p)
      /\ \A p : Changing(l, p) => p = o
      /\ l.rec # Absent
  BY <1>1, OrgHandler DEF OrgLocal, AbsentApart, IsOrg, Record, DeviceOrg
<1>3. ASSUME Sound(l, Now)
      PROVE  Sound(Idle, Now')
  <2>1. /\ l.op = "UpdateOrg" /\ devOrgs[o] # Absent
        /\ Apart(l.rec.kapa, o, Now) /\ Own(l.rec, o, Now)
    BY <1>1, <1>3, OrgHandler DEF Sound, KnowsOrg, Now
  <2>2. \A p \in Orgs : devOrgs'[p] = IF p = o THEN l.rec ELSE devOrgs[p]
    BY <1>1, <1>2, <2>1 DEF TypeInv, TypeOK
  <2>3. ASSUME NEW p \in Orgs, devOrgs'[p] # Absent, p \notin fileDoubt'
        PROVE  Filed(devOrgs'[p], p, Now')
    <3>1. devOrgs[p] # Absent /\ p \notin fileDoubt
      BY <1>1, <2>1, <2>2, <2>3
    <3>2. Filed(devOrgs[p], p, Now)
      BY <1>2, <1>3, <3>1 DEF Sound, FiledBut, Now
    <3>3. /\ devOrgs'[p].collected = devOrgs[p].collected
          /\ devOrgs'[p].collector = devOrgs[p].collector
      BY <1>1, <1>2, <2>1, <2>2, <2>3
    <3>4. Filed(devOrgs'[p], p, Now)
      BY <3>2, <3>3 DEF Filed
    <3> QED BY <1>1, <3>4, FiledKept DEF Now
  <2>4. ASSUME NEW p \in Orgs
        PROVE  Settled(p, Now')
    <3>1. CASE p # o
      <4>1. Settled(p, Now)
        BY <1>2, <1>3, <3>1 DEF Sound, SettledBut
      <4> QED BY <1>1, <1>2, <2>2, <3>1, <4>1, OthersSettled
    <3>2. CASE p = o
      BY <1>1, <1>2, <2>1, <2>2, <3>2 DEF Settled, Apart, Own, KapaOf, Now
    <3> QED BY <3>1, <3>2
  <2> QED BY <2>3, <2>4, IdleKnows DEF Sound, FiledBut, SettledBut, Now
<1>4. fileDoubt \subseteq fileDoubt'
  BY <1>1
<1> QED BY <1>1, <1>2, <1>3, <1>4, AloneStep

\* The task is gone from the old kapacitor, or left behind in it.
LEMMA DropTaskFiles ==
    ASSUME AbsentApart, TypeInv, TypeInv', AloneInv, NEW r \in Requests, DropTask(r)
    PROVE  AloneInv'
<1> DEFINE l == req[r]
           o == l.org
           m == [l EXCEPT !.pc = "task.get"]
           dropped == TasksWith(l.old, o, Absent)
<1>1. /\ Go(r, m) /\ l.pc = "uo.drop"
      /\ UNCHANGED <<devices, devOrgs, files, fileDoubt, fileExtra, taskDoubt>>
      /\ \/ tasks' = dropped /\ stray' = IF l.alone THEN stray \ {<<l.old, o>>} ELSE stray
         \/ tasks' \in {tasks, dropped} /\ stray' = stray \cup {<<l.old, o>>}
  BY DEF DropTask, At
<1>2. /\ OrgLocal(l) /\ o \in Orgs /\ ~At(r, "idle") /\ l.old \in Kapas
      /\ \A p : ~Writing(l, p) /\ ~Changing(l, p)
  BY <1>1, OrgHandler DEF OrgLocal
<1>3. /\ m.alone = l.alone /\ m.pc = "task.get" /\ m.op = l.op /\ m.org = o
      /\ m.rec = l.rec
  BY <1>2 DEF OrgLocal, Record
<1> HIDE DEF m
<1>4. \A j \in Kapas, p \in Orgs :
        dropped[j][p] = IF j = l.old /\ p = o THEN Absent ELSE tasks[j][p]
  BY <1>2, TasksChange
<1> HIDE DEF dropped
<1>5. /\ \A j \in Kapas, p \in Orgs :
           <<j, p>> # <<l.old, o>> =>
             /\ tasks'[j][p] = tasks[j][p]
             /\ <<j, p>> \in stray => <<j, p>> \in stray'
      /\ tasks'[l.old][o] = Absent \/ <<l.old, o>> \in stray'
      /\ l.alone \/ stray \subseteq stray'
  BY <1>1, <1>2, <1>4
<1>6. ASSUME Sound(l, Now)
      PROVE  Sound(m, Now')
  <2>1. l.op = "UpdateOrg" /\ devOrgs[o] # Absent /\ l.old = devOrgs[o].kapa
    BY <1>1, <1>6, OrgHandler DEF Sound, KnowsOrg, Now
  <2>2. FiledBut(m, Now')
    BY <1>1, <1>2, <1>6, FiledStays DEF Sound
  <2>3. \A p \in Orgs : Settled(p, Now)
    BY <1>2, <1>6 DEF Sound, SettledBut
  <2>4. Apart(l.old, o, Now)
    BY <1>2, <2>1, <2>3 DEF Settled, KapaOf, Now
  <2>5. Apart(l.rec.kapa, o, Now')
    <3>1. SUFFICES ASSUME NEW k \in Kapas, tasks'[k][o] # Absent
                   PROVE  <<k, o>> \in stray'
      BY DEF Apart, Now
    <3>2. CASE k = l.old
      BY <1>5, <3>1, <3>2
    <3>3. CASE k # l.old
      BY <1>2, <1>5, <2>4, <3>1, <3>3 DEF Apart, Now
    <3> QED BY <3>2, <3>3
  <2>6. Changing(m, o)
    BY <1>3, <2>1 DEF Changing
  <2>7. ASSUME NEW p \in Orgs
        PROVE  Settled(p, Now') \/ Changing(m, p)
    <3>1. CASE p = o
      BY <2>6, <3>1
    <3>2. CASE p # o
      <4>1. \A j \in Kapas : /\ tasks'[j][p] = tasks[j][p]
                             /\ <<j, p>> \in stray => <<j, p>> \in stray'
        BY <1>5, <3>2
      <4> QED BY <1>1, <1>2, <2>3, <3>2, <4>1, OthersSettled
    <3> QED BY <3>1, <3>2
  <2>8. Knows(m, Now')
    BY <1>1, <1>2, <1>3, <2>1, <2>5 DEF Knows, KnowsOrg, Now
  <2> QED BY <2>2, <2>7, <2>8 DEF Sound, SettledBut
<1>7. taskDoubt \subseteq taskDoubt' /\ fileDoubt \subseteq fileDoubt'
  BY <1>1
<1> QED BY <1>1, <1>2, <1>3, <1>5, <1>6, <1>7, AloneStep

\* A call about the task failed: nothing is said of it where the record may say it
\* is.
LEMMA TaskFails ==
    ASSUME AbsentApart, TypeInv, TypeInv', AloneInv, NEW r \in Requests,
           req[r].pc \in {"task.get", "task.put"}, TaskInDoubt(req[r]),
           UNCHANGED <<devices, devOrgs, files, fileDoubt, fileExtra>>,
           \A j \in Kapas, p \in Orgs :
             <<j, p>> # <<req[r].rec.kapa, req[r].org>> => tasks'[j][p] = tasks[j][p],
           NEW m, Go(r, m),
           \/ m = Idle
           \/ /\ m.alone = req[r].alone /\ m.op = req[r].op /\ m.org = req[r].org
              /\ m.rec = req[r].rec
              /\ \/ m.pc = "task.put" /\ m.found = FALSE
                 \/ m.pc = "uo.put" /\ m.op # "AddOrg"
    PROVE  AloneInv'
<1> DEFINE l == req[r]
           o == l.org
<1>1. /\ OrgLocal(l) /\ o \in Orgs /\ ~At(r, "idle") /\ l.op \in {"AddOrg", "UpdateOrg"}
      /\ l.rec.kapa \in Kapas \cup {Absent}
      /\ \A p : ~Writing(l, p)
      /\ \A p : Changing(l, p) => p = o
  BY OrgHandler DEF OrgLocal, DeviceOrg
<1>2. /\ taskDoubt \subseteq taskDoubt' /\ stray \subseteq stray' /\ o \in taskDoubt'
      /\ l.rec.kapa \in Kapas => <<l.rec.kapa, o>> \in stray'
  BY DEF TaskInDoubt
<1>3. ASSUME Sound(l, Now)
      PROVE  Sound(m, Now')
  <2>1. /\ IF l.op = "AddOrg" THEN devOrgs[o] = l.rec ELSE devOrgs[o] # Absent
        /\ Apart(l.rec.kapa, o, Now)
    BY <1>3, OrgHandler DEF Sound, KnowsOrg, Now
  <2>2. FiledBut(m, Now')
    BY <1>1, <1>3, FiledStays DEF Sound
  <2>3. ASSUME NEW k \in Kapas, tasks'[k][o] # Absent
        PROVE  <<k, o>> \in stray'
    <3>1. CASE k = l.rec.kapa
      BY <1>2, <3>1
    <3>2. CASE k # l.rec.kapa
      BY <1>1, <1>2, <2>1, <2>3, <3>2 DEF Apart, Now
    <3> QED BY <3>1, <3>2
  <2>4. ASSUME NEW p \in Orgs
        PROVE  Settled(p, Now')
    <3>1. CASE p = o
      BY <1>2, <2>3, <3>1 DEF Settled, Apart, Own, Now
    <3>2. CASE p # o
      <4>1. Settled(p, Now)
        BY <1>1, <1>3, <3>2 DEF Sound, SettledBut
      <4>2. \A k \in Kapas : tasks'[k][p] = tasks[k][p]
        BY <3>2
      <4> QED BY <1>1, <1>2, <3>2, <4>1, <4>2, OthersSettled
    <3> QED BY <3>1, <3>2
  <2>5. Knows(m, Now')
    <3>1. CASE m = Idle
      BY <3>1, IdleKnows
    <3>2. CASE m # Idle
      <4>1. Apart(l.rec.kapa, o, Now') /\ Own(l.rec, o, Now')
        BY <1>2, <2>3 DEF Apart, Own, Now
      <4>2. m.pc = "task.put" => KnowsTask(m, Now')
        BY <1>2, <3>2 DEF KnowsTask, Now
      <4>3. KnowsOrg(m, Now')
        BY <1>1, <2>1, <3>2, <4>1, <4>2 DEF KnowsOrg, Now
      <4> QED BY <1>1, <3>2, <4>3 DEF Knows
    <3> QED BY <3>1, <3>2
  <2> QED BY <2>2, <2>4, <2>5 DEF Sound, SettledBut
<1>4. m = Idle \/ m.alone = l.alone
  OBVIOUS
<1>5. fileDoubt \subseteq fileDoubt'
  OBVIOUS
<1> QED BY <1>1, <1>2, <1>3, <1>4, <1>5, AloneStep

LEMMA TaskGetFiles ==
    ASSUME AbsentApart, TypeInv, TypeInv', AloneInv, NEW r \in Requests, TaskGet(r)
    PROVE  AloneInv'
<1> DEFINE l == req[r]
           o == l.org
           exists == l.rec.kapa # Absent /\ tasks[l.rec.kapa][o] # Absent
           m(b) == [l EXCEPT !.pc = "task.put", !.found = b]
<1>1. /\ l.pc = "task.get"
      /\ UNCHANGED <<devices, devOrgs, files, tasks, fileDoubt, fileExtra>>
      /\ \/ Go(r, m(exists)) /\ UNCHANGED <<taskDoubt, stray>>
         \/ (Go(r, m(FALSE)) \/ Go(r, Idle)) /\ TaskInDoubt(l)
  BY DEF TaskGet, Finish, At
<1>2. /\ OrgLocal(l) /\ o \in Orgs /\ ~At(r, "idle") /\ l.op \in {"AddOrg", "UpdateOrg"}
      /\ \A p : ~Writing(l, p)
      /\ \A p : Changing(l, p) => p = o
  BY <1>1, OrgHandler DEF OrgLocal
<1>3. \A b : /\ m(b).alone = l.alone /\ m(b).pc = "task.put" /\ m(b).op = l.op
             /\ m(b).org = o /\ m(b).rec = l.rec /\ m(b).found = b
  BY <1>2 DEF OrgLocal, Record
<1> HIDE DEF m
<1>4. CASE TaskInDoubt(l) /\ (Go(r, m(FALSE)) \/ Go(r, Idle))
  BY <1>1, <1>3, <1>4, TaskFails
<1>5. CASE Go(r, m(exists)) /\ UNCHANGED <<taskDoubt, stray>>
  <2> DEFINE n == m(exists)
  <2>1. /\ n.alone = l.alone /\ n.pc = "task.put" /\ n.op = l.op /\ n.org = o
        /\ n.rec = l.rec /\ n.found = exists /\ Go(r, n)
    BY <1>3, <1>5
  <2> HIDE DEF n
  <2>2. Now' = Now
    BY <1>1, <1>5 DEF Now
  <2>3. ASSUME Sound(l, Now)
        PROVE  Sound(n, Now')
    <3>1. /\ IF l.op = "AddOrg" THEN Now.orgs[o] = l.rec ELSE Now.orgs[o] # Absent
          /\ Apart(l.rec.kapa, o, Now)
      BY <1>1, <2>3, OrgHandler DEF Sound, KnowsOrg
    <3>2. KnowsTask(n, Now)
      BY <2>1 DEF KnowsTask, Now
    <3>3. KnowsOrg(n, Now)
      BY <2>1, <3>1, <3>2 DEF KnowsOrg
    <3>4. Knows(n, Now)
      BY <1>2, <2>1, <3>3 DEF Knows
    <3>5. FiledBut(n, Now)
      BY <1>2, <2>3 DEF Sound, FiledBut
    <3>6. SettledBut(n, Now)
      BY <1>2, <2>1, <2>3 DEF Sound, SettledBut, Changing
    <3> QED BY <2>2, <3>4, <3>5, <3>6 DEF Sound
  <2> QED BY <1>1, <1>2, <1>5, <2>1, <2>3, AloneStep
<1> QED BY <1>1, <1>4, <1>5

LEMMA TaskPutFiles ==
    ASSUME AbsentApart, TypeInv, TypeInv', AloneInv, NEW r \in Requests, TaskPut(r)
    PROVE  AloneInv'
<1> DEFINE l == req[r]
           o == l.org
           k == l.rec.kapa
           exists == k # Absent /\ tasks[k][o] # Absent
           fits == k # Absent /\ exists = l.found
           put == IF fits THEN TasksWith(k, o, l.rec.cron) ELSE tasks
           m == [l EXCEPT !.pc = "uo.put"]
           Done == IF l.op = "AddOrg" THEN Go(r, Idle) ELSE Go(r, m)
<1>1. /\ l.pc = "task.put"
      /\ UNCHANGED <<devices, devOrgs, files, fileDoubt, fileExtra>>
      /\ \/ /\ IF l.found /\ ~exists THEN Go(r, Idle) ELSE Done
            /\ tasks' = put
            /\ taskDoubt' = taskDoubt \ (IF l.alone /\ fits THEN {o} ELSE {})
            /\ UNCHANGED stray
         \/ /\ IF l.found THEN Go(r, Idle) ELSE Done
            /\ tasks' \in {tasks, put} /\ TaskInDoubt(l)
  BY DEF TaskPut, TaskDone, Finish, At
<1>2. /\ OrgLocal(l) /\ o \in Orgs /\ ~At(r, "idle") /\ l.op \in {"AddOrg", "UpdateOrg"}
      /\ k \in Kapas \cup {Absent}
      /\ \A p : ~Writing(l, p)
      /\ \A p : Changing(l, p) => p = o
  BY <1>1, OrgHandler DEF OrgLocal, DeviceOrg
<1>3. /\ m.alone = l.alone /\ m.pc = "uo.put" /\ m.op = l.op /\ m.org = o
      /\ m.rec = l.rec
  BY <1>2 DEF OrgLocal, Record
<1> HIDE DEF m
<1>4. \A j \in Kapas, p \in Orgs :
        put[j][p] = IF fits /\ j = k /\ p = o THEN l.rec.cron ELSE tasks[j][p]
  <2>1. CASE fits
    BY <1>2, <2>1, TasksChange
  <2>2. CASE ~fits
    BY <2>2
  <2> QED BY <2>1, <2>2
<1> HIDE DEF put, fits
<1>5. CASE /\ IF l.found THEN Go(r, Idle) ELSE Done
           /\ tasks' \in {tasks, put} /\ TaskInDoubt(l)
  <2>1. \A j \in Kapas, p \in Orgs : <<j, p>> # <<k, o>> => tasks'[j][p] = tasks[j][p]
    BY <1>4, <1>5
  <2>2. \E n : Go(r, n) /\ (n = Idle \/ (l.op # "AddOrg" /\ n = m))
    BY <1>5
  <2> QED BY <1>1, <1>3, <1>5, <2>1, <2>2, TaskFails
<1>6. CASE /\ IF l.found /\ ~exists THEN Go(r, Idle) ELSE Done
           /\ tasks' = put
           /\ taskDoubt' = taskDoubt \ (IF l.alone /\ fits THEN {o} ELSE {})
           /\ UNCHANGED stray
  <2>1. PICK n : /\ Go(r, n)
                 /\ \/ n = Idle /\ (l.op = "AddOrg" \/ (l.found /\ ~exists))
                    \/ n = m /\ l.op # "AddOrg"
    BY <1>6
  <2>2. ASSUME l.alone, Sound(l, Now)
        PROVE  Sound(n, Now')
    <3>1. /\ IF l.op = "AddOrg" THEN devOrgs[o] = l.rec ELSE devOrgs[o] # Absent
          /\ Apart(k, o, Now) /\ KnowsTask(l, Now)
      BY <1>1, <2>2, OrgHandler DEF Sound, KnowsOrg, Now
    <3>2. (l.found => exists) /\ (o \notin taskDoubt => exists = l.found)
      BY <3>1 DEF KnowsTask, Now
    <3>3. FiledBut(n, Now')
      BY <1>1, <1>2, <2>2, FiledStays DEF Sound
    <3>4. ASSUME o \notin taskDoubt', k # Absent
          PROVE  tasks'[k][o] = l.rec.cron
      <4>1. fits
        BY <1>6, <2>2, <3>2, <3>4 DEF fits
      <4> QED BY <1>2, <1>4, <1>6, <3>4, <4>1
    <3>5. Apart(k, o, Now') /\ Own(l.rec, o, Now')
      BY <1>2, <1>4, <1>6, <3>1, <3>4 DEF Apart, Own, Now
    <3>6. ASSUME NEW p \in Orgs, p # o
          PROVE  Settled(p, Now')
      <4>1. Settled(p, Now)
        BY <1>2, <2>2, <3>6 DEF Sound, SettledBut
      <4>2. /\ \A j \in Kapas : tasks'[j][p] = tasks[j][p]
            /\ p \in taskDoubt => p \in taskDoubt'
        BY <1>4, <1>6, <3>6
      <4> QED BY <1>1, <1>2, <1>6, <3>6, <4>1, <4>2, OthersSettled
    <3>7. CASE n = Idle
      <4>1. devOrgs'[o] = l.rec
        BY <1>1, <1>3, <2>1, <3>1, <3>2, <3>7 DEF Idle
      <4>2. l.rec # Absent
        BY <1>2 DEF OrgLocal, AbsentApart, IsOrg, Record, DeviceOrg
      <4>3. KapaOf(Now'.orgs[o]) = k /\ Now'.orgs[o] = l.rec
        BY <4>1, <4>2 DEF KapaOf, Now
      <4>4. Settled(o, Now')
        BY <3>5, <4>3 DEF Settled
      <4> QED BY <3>3, <3>6, <3>7, <4>4, IdleKnows DEF Sound, SettledBut
    <3>8. CASE n = m /\ l.op # "AddOrg"
      <4>1. KnowsOrg(n, Now')
        BY <1>1, <1>2, <1>3, <3>1, <3>5, <3>8 DEF KnowsOrg, Now
      <4>2. Knows(n, Now') /\ Changing(n, o)
        BY <1>2, <1>3, <3>8, <4>1 DEF Knows, Changing
      <4> QED BY <3>3, <3>6, <4>2 DEF Sound, SettledBut
    <3> QED BY <2>1, <3>7, <3>8
  <2>3. n = Idle \/ n.alone = l.alone
    BY <1>3, <2>1
  <2>4. l.alone \/ taskDoubt \subseteq taskDoubt'
    BY <1>6
  <2> QED BY <1>1, <1>2, <1>6, <2>1, <2>2, <2>3, <2>4, AloneStep
<1> QED BY <1>1, <1>5, <1>6

LEMMA OrgsFiles ==
    ASSUME AbsentApart, TypeInv, TypeInv', AloneInv, NEW r \in Requests, OrgsStep(r)
    PROVE  AloneInv'
BY AddOrgFiles, DropTaskFiles, TaskGetFiles, TaskPutFiles, UpdateOrgPutFiles,
   RemoveOrgFiles DEF OrgsStep

\* The flag of a handler is its own field.
LEMMA AloneField ==
    ASSUME NEW l, TypedLocal(l), l.pc # "idle", NEW b
    PROVE  [l EXCEPT !.alone = b].alone = b /\ [l EXCEPT !.alone = b].pc = l.pc
BY DEF TypedLocal, DeviceLocal, ManageLocal, ManageData, OrgLocal, RemoveOrgLocal,
       Record, Idle

LEMMA AloneKnows ==
    ASSUME NEW l, TypedLocal(l), l.pc # "idle", NEW w, Knows(l, w)
    PROVE  Knows([l EXCEPT !.alone = TRUE], w)
<1>1. CASE DeviceLocal(l)
  BY <1>1 DEF DeviceLocal, Record, Knows, KnowsDevice
<1>2. CASE ManageLocal(l)
  <2> DEFINE m == [l EXCEPT !.alone = TRUE]
  <2>1. /\ m.op = l.op /\ m.pc = l.pc /\ m.copies = l.copies /\ m.todo = l.todo
        /\ m.org = l.org /\ m.entries = l.entries /\ m.rest = l.rest
        /\ m.op \in {"Collect", "Learn", "Remove"}
    BY <1>2 DEF ManageLocal, ManageData, Record
  <2> HIDE DEF m
  <2>2. KnowsManage(m, w)
    BY <2>1 DEF Knows, KnowsManage, Remembers, Reading
  <2>3. Knows(m, w)
    BY <2>1, <2>2 DEF Knows
  <2> QED BY <2>3 DEF m
<1>3. CASE OrgLocal(l)
  BY <1>3 DEF OrgLocal, Record, Knows, KnowsOrg, KnowsTask
<1>4. CASE RemoveOrgLocal(l)
  BY <1>4 DEF RemoveOrgLocal, Record, Knows
<1> QED
  BY <1>1, <1>2, <1>3, <1>4 DEF TypedLocal, Idle

LEMMA FilesBegin ==
    ASSUME AbsentApart, TypeInv, AloneInv, NEW r \in Requests, BeginRequest(r)
    PROVE  AloneInv'
<1>0. PICK l : /\ Begin(r, l) /\ TypedLocal(l) /\ l.pc # "idle"
               /\ (\A o \in Orgs : Settled(o, Now)) => Knows(l, Now)
  BY Begun
<1> DEFINE busy == {q \in Requests : ~At(q, "idle")}
<1>1. CASE busy # {}
  <2>1. Loose(Now')
    BY <1>0, <1>1 DEF Begin, AllInDoubt, Loose, Now
  <2>2. \A q \in Requests : req'[q] = Idle \/ req'[q].alone = FALSE
    <3>1. SUFFICES ASSUME NEW q \in Requests PROVE req'[q] = Idle \/ req'[q].alone = FALSE
      OBVIOUS
    <3>2. \/ req'[q] = Idle
          \/ req'[q] = [l EXCEPT !.alone = FALSE]
          \/ ~At(q, "idle") /\ req'[q] = [req[q] EXCEPT !.alone = FALSE]
      BY <1>0, <1>1 DEF Begin
    <3>3. [l EXCEPT !.alone = FALSE].alone = FALSE
      BY <1>0, AloneField
    <3>4. ~At(q, "idle") => [req[q] EXCEPT !.alone = FALSE].alone = FALSE
      BY AloneField DEF TypeInv, At
    <3> QED BY <3>2, <3>3, <3>4
  <2>3. \A q \in Requests : At(q, "idle")' \/ ~req'[q].alone
    BY <2>2 DEF At, Idle
  <2>4. Sound(Idle, Now') /\ Loose(Now)'
    BY <2>1, LooseSound
  <2> QED BY <2>3, <2>4 DEF AloneInv
<1>2. CASE busy = {}
  <2> DEFINE m == [l EXCEPT !.alone = TRUE]
  <2>1. /\ req' = [q \in Requests |-> IF q = r THEN m ELSE Idle]
        /\ UNCHANGED <<devices, devOrgs, files, tasks, history>>
    BY <1>0, <1>2 DEF Begin
  <2>2. m.alone = TRUE /\ m.pc = l.pc
    BY <1>0, AloneField
  <2>3. Now' = Now
    BY <2>1 DEF Now, history
  <2>4. \A q \in Requests : req'[q] = IF q = r THEN m ELSE Idle
    BY <2>1
  <2>5. Sound(Idle, Now)
    BY <1>2 DEF AloneInv, Quiet
  <2>6. /\ \A o \in Orgs : Settled(o, Now)
        /\ \A o \in Orgs : devOrgs[o] # Absent /\ o \notin fileDoubt =>
             Filed(devOrgs[o], o, Now)
    BY <2>5, IdleKnows DEF Sound, FiledBut, SettledBut, Now
  <2> HIDE DEF m
  <2>7. Knows(m, Now)
    BY <1>0, <2>6, AloneKnows DEF m
  <2>8. Sound(m, Now)
    BY <2>6, <2>7 DEF Sound, FiledBut, SettledBut, Now
  <2>9. \A q \in Requests : ~At(q, "idle")' => q = r /\ req'[q] = m
    BY <2>4 DEF At, Idle
  <2>10. \A q \in Requests : ~At(q, "idle")' => q = r /\ req'[q].alone
    BY <2>2, <2>9
  <2>11. \A q \in Requests : ~At(q, "idle")' => Sound(req[q], Now)'
    BY <2>3, <2>8, <2>9
  <2>12. ~Quiet'
    BY <1>0, <2>2, <2>4 DEF Quiet, At
  <2> QED BY <2>10, <2>11, <2>12 DEF AloneInv
<1> QED
  BY <1>1, <1>2

----------------------------------------------------------------------------
(* MonitoringConfigManagement, LearningDeviceManagement and RemoveDevices. *)

LEMMA OnwardTo ==
    ASSUME NEW l, ManageData(l), NEW w, NEW m, m.op = l.op,
           m.alone = l.alone, m.pc \notin {"read", "have", "put", "rm.put"},
           Remembers(l, w) => Remembers(m, w)
    PROVE  Onward(m, l, w)
BY DEF Onward, ManageData, Knows, KnowsManage

\* A turn of the handler, with k what it knows by then.
LEMMA FilesTurn ==
    ASSUME TypeInv, TypeInv', AloneInv, NEW r \in Requests, ManageData(req[r]), StoresKeep,
           req[r].pc \notin {"idle", "have", "put", "rm.put", "rm.device"},
           NEW k, k.alone = req[r].alone, Remembers(req[r], Now) => Remembers(k, Now),
           NEW m, Go(r, m), Onward(m, k, Now)
    PROVE  AloneInv'
<1>1. /\ ~At(r, "idle")
      /\ \A o \in Orgs : ~Writing(req[r], o) /\ ~Changing(req[r], o)
  BY DEF At, Writing, Changing, ManageData
<1>2. m = Idle \/ m.alone = req[r].alone
  BY DEF Onward
<1>3. Knows(req[r], Now) => Knows(m, Now)
  BY DEF Knows, KnowsManage, ManageData, Onward
<1> QED BY <1>1, <1>2, <1>3, FilesRead

LEMMA OnwardIdle == \A l, w : Onward(Idle, l, w)
BY IdleKnows DEF Onward

LEMMA ReadsFiles ==
    ASSUME TypeInv, TypeInv', AloneInv, NEW r \in Requests,
           \/ ManageGet(r) \/ CollectOrgs(r) \/ RemovePrevious(r)
           \/ \E o : RemoveCheck(r, o) \/ CollectGroup(r, o) \/ LearnGroup(r, o)
                       \/ RemoveGroup(r, o)
    PROVE  AloneInv'
<1> DEFINE l == req[r]
<1>1. /\ ManageLocal(l) /\ ManageData(l) /\ StoresKeep
      /\ l.pc \in {"get", "orgs", "prev", "rm.check", "group"}
  BY ManageTypedLocal DEF ManageGet, CollectOrgs, RemovePrevious, RemoveCheck,
     CollectGroup, LearnGroup, RemoveGroup, At, ManagePCs, Reads
<1>2. CASE ManageGet(r)
  <2> DEFINE d == Head(l.rest)
             m == IF devices[d] # Absent
                  THEN [l EXCEPT !.copies = Extend(@, d, devices[d]), !.rest = Tail(@)]
                  ELSE [l EXCEPT !.rest = Tail(@)]
             n == [m EXCEPT !.pc = AfterGet[l.op], !.left = GroupOrgs(m)]
  <2>1. l.pc = "get" /\ l.op \in {"Collect", "Learn", "Remove"}
    BY <1>1, <1>2 DEF ManageGet, At, ManageData
  <2>2. Finish(r) \/ Go(r, m) \/ Go(r, n)
    BY <1>2 DEF ManageGet
  <2> HIDE DEF d
  <2>3. /\ m.op = l.op /\ m.alone = l.alone /\ m.pc = l.pc /\ m.todo = l.todo
        /\ m.copies \in {l.copies, Extend(l.copies, d, devices[d])}
        /\ n.op = m.op /\ n.alone = m.alone /\ n.pc = AfterGet[l.op]
        /\ n.todo = m.todo /\ n.copies = m.copies
    BY <1>1 DEF ManageData, Record
  <2> HIDE DEF m, n
  <2>4. Remembers(l, Now) => Remembers(m, Now) /\ Remembers(n, Now)
    BY <2>3 DEF Remembers, Extend, Now
  <2>5. AfterGet[l.op] \in {"orgs", "prev", "rm.check"}
    BY <2>1 DEF AfterGet
  <2>6. Onward(m, l, Now) /\ Onward(n, l, Now)
    BY <1>1, <2>1, <2>3, <2>4, <2>5, OnwardTo
  <2> QED BY <1>1, <2>2, <2>6, FilesTurn, OnwardIdle DEF Finish
<1>3. CASE CollectOrgs(r)
  <2>1. ASSUME NEW h, Go(r, [l EXCEPT !.pc = "prev", !.home = h])
        PROVE  AloneInv'
    <3> DEFINE m == [l EXCEPT !.pc = "prev", !.home = h]
    <3>1. /\ m.op = l.op /\ m.alone = l.alone /\ m.pc = "prev" /\ m.copies = l.copies
          /\ m.todo = l.todo
      BY <1>1 DEF ManageData, Record
    <3>2. Go(r, m)
      BY <2>1
    <3> HIDE DEF m
    <3>3. Onward(m, l, Now)
      BY <1>1, <3>1, OnwardTo DEF Remembers
    <3> QED BY <1>1, <3>2, <3>3, FilesTurn
  <2> QED BY <1>1, <1>3, <2>1, FilesTurn, OnwardIdle DEF CollectOrgs, Finish
<1>4. ASSUME NEW o, RemoveCheck(r, o)
      PROVE  AloneInv'
  <2>1. ASSUME NEW m, Go(r, m), m.op = l.op, m.alone = l.alone,
               m.pc \in {"prev", "rm.check"}, m.copies = l.copies, m.todo = l.todo
        PROVE  AloneInv'
    <3>1. Onward(m, l, Now)
      BY <1>1, <2>1, OnwardTo DEF Remembers
    <3> QED BY <1>1, <2>1, <3>1, FilesTurn
  <2> DEFINE next == [l EXCEPT !.left = @ \ {o},
                               !.pc = IF l.left = {o} THEN "prev" ELSE "rm.check"]
  <2>2. Finish(r) \/ Go(r, next) \/ \E keys : Go(r, [next EXCEPT !.keys = keys])
    BY <1>4 DEF RemoveCheck
  <2>3. CASE Go(r, next)
    BY <1>1, <2>1, <2>3 DEF ManageData, Record
  <2>4. ASSUME NEW keys, Go(r, [next EXCEPT !.keys = keys])
        PROVE  AloneInv'
    BY <1>1, <2>1, <2>4 DEF ManageData, Record
  <2> HIDE DEF next
  <2> QED BY <1>1, <2>2, <2>3, <2>4, FilesTurn, OnwardIdle DEF Finish
<1>5. CASE RemovePrevious(r)
  <2> DEFINE k == [l EXCEPT !.todo = Previous(l)]
  <2>1. ManageData(k)
    BY <1>1, PreviousTyped DEF ManageData, Record
  <2>2. Go(r, ToGroups(k))
    BY <1>5 DEF RemovePrevious
  <2>3. k.alone = l.alone /\ k.op = l.op /\ k.copies = l.copies /\ k.todo = Previous(l)
    BY <1>1 DEF ManageData, Record
  <2> HIDE DEF k
  <2>4. ASSUME NEW o \in DOMAIN Previous(l)
        PROVE  Carries(Previous(l)[o], l.op, devOrgs[o])
    <3>1. o \in Orgs /\ devOrgs[o] # Absent
      BY DEF Previous, StoredOrgs
    <3>2. devOrgs[o] \in DeviceOrg
      BY <3>1 DEF TypeInv, TypeOK
    <3> DEFINE gone == {d \in DOMAIN l.copies : l.copies[d].org # o}
               s == RangeRemove(devOrgs[o].collected, gone)
               t == RangeRemove(devOrgs[o].learned, gone)
    <3>3. Previous(l)[o] = [devOrgs[o] EXCEPT !.collected = s, !.learned = t]
      BY <2>4 DEF Previous
    <3> HIDE DEF gone
    <3>4. Elements(s) \subseteq Elements(devOrgs[o].collected)
      BY <3>2, RangeRemoveSeq DEF DeviceOrg
    <3> HIDE DEF s, t
    <3>5. /\ Previous(l)[o].collector = devOrgs[o].collector
          /\ Previous(l)[o].kapa = devOrgs[o].kapa
          /\ Previous(l)[o].cron = devOrgs[o].cron
          /\ Previous(l)[o].collected = s
      BY <3>2, <3>3 DEF DeviceOrg
    <3> QED BY <3>1, <3>4, <3>5 DEF Carries, SameTask
  <2>5. Remembers(l, Now) => Remembers(k, Now)
    BY <2>3, <2>4 DEF Remembers, Now
  <2>6. Onward(ToGroups(k), k, Now)
    BY <2>1, ToGroupsKnows
  <2> QED BY <1>1, <2>2, <2>3, <2>5, <2>6, FilesTurn
\* A group's record, which carries on from the stored one, is one more to put.
<1>6. ASSUME NEW o \in Orgs, NEW rec \in DeviceOrg, l.pc = "group",
             Go(r, NextGroup([l EXCEPT !.todo = Extend(@, o, rec)], o)),
             Remembers(l, Now) => Carries(rec, l.op, devOrgs[o])
      PROVE  AloneInv'
  <2> DEFINE k == [l EXCEPT !.todo = Extend(@, o, rec)]
  <2>1. /\ k.alone = l.alone /\ k.op = l.op /\ k.copies = l.copies /\ k.pc = l.pc
        /\ k.todo = Extend(l.todo, o, rec)
        /\ k.asked = l.asked /\ k.home = l.home /\ k.left = l.left
        /\ k.rest = l.rest /\ k.entries = l.entries
        /\ Record(k, {"op", "pc", "alone", "asked", "on", "rest", "copies", "failed",
                  "keys", "home", "todo", "left", "org", "entries", "restarted",
                  "found"})
    BY <1>1 DEF ManageData, Record
  <2>2. Go(r, NextGroup(k, o))
    BY <1>6
  <2> HIDE DEF k
  <2>3. /\ DOMAIN k.todo = DOMAIN l.todo \cup {o}
        /\ \A p \in DOMAIN k.todo : k.todo[p] = IF p = o THEN rec ELSE l.todo[p]
    BY <2>1 DEF Extend
  <2>4. ManageData(k)
    BY <1>1, <1>6, <2>1, <2>3 DEF ManageData
  <2>5. Remembers(l, Now) => Remembers(k, Now)
    BY <1>6, <2>1, <2>3 DEF Remembers, Now
  <2>6. Onward(NextGroup(k, o), k, Now)
    BY <1>6, <2>1, <2>4, ToGroupsKnows
  <2> QED BY <1>1, <2>1, <2>2, <2>5, <2>6, FilesTurn
<1>7. ASSUME NEW o, CollectGroup(r, o)
      PROVE  AloneInv'
  <2>1. l.pc = "group" /\ l.op = "Collect" /\ o \in Orgs
    BY <1>1, <1>7 DEF CollectGroup, At, ManageData
  <2>2. CASE o \notin DOMAIN l.home
    <3>1. Go(r, NextGroup(l, o))
      BY <1>7, <2>2 DEF CollectGroup
    <3>2. Onward(NextGroup(l, o), l, Now)
      BY <1>1, <2>1, ToGroupsKnows
    <3> QED BY <1>1, <3>1, <3>2, FilesTurn
  <2>3. CASE o \in DOMAIN l.home
    <3> DEFINE s == WithGroup(Base(l, o).collected, Group(l, o), l.on)
               rec == [Base(l, o) EXCEPT !.collector = l.home[o], !.collected = s]
    <3>1. Base(l, o) \in DeviceOrg
      BY <1>1, <2>1, <2>3, BaseTyped
    <3>2. s \in Seq(DeviceIds)
      BY <1>1, <3>1, GroupTyped, WithGroupSeq DEF DeviceOrg
    <3> HIDE DEF s
    <3>3. rec \in DeviceOrg
      BY <1>1, <2>3, <3>1, <3>2, RecordsChange DEF ManageData
    <3>4. Remembers(l, Now) => SameTask(Base(l, o), devOrgs[o])
      BY <2>1 DEF Remembers, Base, Carries, SameTask, NewDeviceOrg, Now
    <3>5. rec.kapa = Base(l, o).kapa /\ rec.cron = Base(l, o).cron
      BY <3>1 DEF DeviceOrg
    <3>6. Remembers(l, Now) => Carries(rec, l.op, devOrgs[o])
      BY <2>1, <3>4, <3>5 DEF Carries, SameTask
    <3>7. Go(r, NextGroup([l EXCEPT !.todo = Extend(@, o, rec)], o))
      BY <1>7, <2>3 DEF CollectGroup, s
    <3> HIDE DEF rec
    <3> QED BY <1>6, <2>1, <3>3, <3>6, <3>7
  <2> QED BY <2>2, <2>3
<1>8. ASSUME NEW o, LearnGroup(r, o)
      PROVE  AloneInv'
  <2>1. l.pc = "group" /\ l.op = "Learn" /\ o \in Orgs
    BY <1>1, <1>8 DEF LearnGroup, At, ManageData
  <2> DEFINE s == WithGroup(Base(l, o).learned, Group(l, o), l.on)
             rec == [Base(l, o) EXCEPT !.learned = s]
  <2>2. Base(l, o) \in DeviceOrg
    BY <1>1, <2>1, BaseTyped
  <2>3. s \in Seq(DeviceIds)
    BY <1>1, <2>2, GroupTyped, WithGroupSeq DEF DeviceOrg
  <2> HIDE DEF s
  <2>4. /\ rec \in DeviceOrg /\ rec.collector = Base(l, o).collector
        /\ rec.kapa = Base(l, o).kapa /\ rec.cron = Base(l, o).cron
        /\ rec.collected = Base(l, o).collected
    BY <2>2, <2>3, RecordsChange DEF DeviceOrg
  <2>5. Go(r, NextGroup([l EXCEPT !.todo = Extend(@, o, rec)], o))
    BY <1>8 DEF LearnGroup, s
  <2>6. Remembers(l, Now) => Carries(Base(l, o), l.op, devOrgs[o])
    BY <2>1 DEF Remembers, Base, Carries, SameTask, NewDeviceOrg, Now
  <2>7. Remembers(l, Now) => Carries(rec, l.op, devOrgs[o])
    BY <2>4, <2>6 DEF Carries, SameTask
  <2> HIDE DEF rec
  <2> QED BY <1>6, <2>1, <2>4, <2>5, <2>7
<1>9. ASSUME NEW o, RemoveGroup(r, o)
      PROVE  AloneInv'
  <2>1. l.pc = "group" /\ o \in Orgs /\ l.op = "Remove"
    BY <1>1, <1>9 DEF RemoveGroup, At, ManageData
  <2> DEFINE s == Drop(devOrgs[o].collected, Elements(Group(l, o)))
             t == Drop(devOrgs[o].learned, Elements(Group(l, o)))
             rec == [devOrgs[o] EXCEPT !.collected = s, !.learned = t]
             skip == [l EXCEPT !.failed = @ \cup Elements(Group(l, o))]
  <2>2. \/ Go(r, NextGroup(l, o)) \/ Go(r, NextGroup(skip, o))
        \/ devOrgs[o] # Absent /\ Go(r, NextGroup([l EXCEPT !.todo = Extend(@, o, rec)], o))
    BY <1>9 DEF RemoveGroup
  <2>3. Onward(NextGroup(l, o), l, Now)
    BY <1>1, <2>1, ToGroupsKnows
  <2>4. ManageData(skip) /\ skip.pc = "group" /\ skip.alone = l.alone
        /\ (Remembers(l, Now) => Remembers(skip, Now))
    BY <1>1, <2>1 DEF ManageData, Record, Remembers
  <2> HIDE DEF skip
  <2>5. Onward(NextGroup(skip, o), skip, Now)
    BY <2>4, ToGroupsKnows
  <2>6. CASE devOrgs[o] # Absent /\ Go(r, NextGroup([l EXCEPT !.todo = Extend(@, o, rec)], o))
    <3>1. devOrgs[o] \in DeviceOrg
      BY <2>1, <2>6 DEF TypeInv, TypeOK
    <3>2. devOrgs[o].collected \in Seq(DeviceIds) /\ devOrgs[o].learned \in Seq(DeviceIds)
      BY <3>1 DEF DeviceOrg
    <3>3. s \in Seq(DeviceIds) /\ t \in Seq(DeviceIds)
      BY <3>2, KeepOf
    <3> HIDE DEF s, t
    <3>4. /\ rec \in DeviceOrg /\ rec.collector = devOrgs[o].collector
          /\ rec.kapa = devOrgs[o].kapa /\ rec.cron = devOrgs[o].cron
      BY <3>1, <3>3 DEF DeviceOrg
    <3>5. Carries(rec, l.op, devOrgs[o])
      BY <2>1, <2>6, <3>4 DEF Carries, SameTask
    <3> HIDE DEF rec
    <3> QED BY <1>6, <2>1, <2>6, <3>4, <3>5
  <2> HIDE DEF rec
  <2> QED BY <1>1, <2>2, <2>3, <2>4, <2>5, <2>6, FilesTurn
<1> QED
  BY <1>2, <1>3, <1>4, <1>5, <1>7, <1>8, <1>9

LEMMA OpenFiles ==
    ASSUME TypeInv, TypeInv', AloneInv, NEW r \in Requests, NEW o, OpenOrg(r, o)
    PROVE  AloneInv'
<1> DEFINE l == req[r]
           m == [l EXCEPT !.org = o, !.entries = {}, !.rest = l.todo[o].collected]
<1>1. ManageLocal(l) /\ ManageData(l) /\ l.pc = "org"
  BY ManageTypedLocal DEF OpenOrg, At, ManagePCs
<1>2. o \in Orgs /\ o \in DOMAIN l.todo /\ l.todo[o] \in DeviceOrg
  BY <1>1 DEF OpenOrg, ManageLocal, ManageData
<1>3. /\ StoresKeep /\ ~At(r, "idle")
      /\ \A p \in Orgs : ~Writing(l, p) /\ ~Changing(l, p)
  BY <1>1 DEF OpenOrg, Reads, At, Writing, Changing, ManageData
<1>4. \/ l.op = "Learn" /\ Go(r, [m EXCEPT !.pc = "have"])
      \/ l.op \in {"Collect", "Remove"} /\ Go(r, [m EXCEPT !.pc = "read"])
      \/ Go(r, NextOrg(m))
      \/ /\ l.op = "Remove" /\ Go(r, [m EXCEPT !.pc = "rm.put"])
         /\ devOrgs[o] # Absent /\ devOrgs[o].collected = l.todo[o].collected
  BY <1>1 DEF OpenOrg, ManageData
<1>5. CASE Go(r, NextOrg(m))
  <2>1. ManageData(m) /\ m.alone = l.alone
    BY <1>1, <1>2 DEF ManageData, Record, DeviceOrg
  <2>2. Remembers(l, Now) => Remembers(m, Now)
    BY <1>1 DEF ManageData, Record, Remembers
  <2> HIDE DEF m
  <2>3. Onward(NextOrg(m), m, Now)
    BY <2>1, NextOrgKnows
  <2> QED BY <1>1, <1>3, <1>5, <2>1, <2>2, <2>3, FilesTurn
\* Every device of the list is still to be read, or the file is right already.
<1>6. ASSUME NEW pc \in {"have", "read", "rm.put"}, Go(r, [m EXCEPT !.pc = pc]),
             pc = "have" => l.op = "Learn",
             pc = "read" => l.op \in {"Collect", "Remove"},
             pc = "rm.put" => /\ l.op = "Remove" /\ devOrgs[o] # Absent
                              /\ devOrgs[o].collected = l.todo[o].collected
      PROVE  AloneInv'
  <2> DEFINE n == [m EXCEPT !.pc = pc]
  <2>1. /\ n.op = l.op /\ n.alone = l.alone /\ n.pc = pc /\ n.org = o
        /\ n.entries = {} /\ n.rest = l.todo[o].collected /\ n.copies = l.copies
        /\ n.todo = l.todo
    BY <1>1 DEF ManageData, Record
  <2>2. Go(r, n)
    BY <1>6
  <2> HIDE DEF n, m
  <2>3. ASSUME Knows(l, Now), FiledBut(l, Now)
        PROVE  Knows(n, Now)
    <3>1. Remembers(l, Now) /\ l.op \in {"Collect", "Learn", "Remove"}
      BY <1>1, <2>3 DEF Knows, KnowsManage, ManageData
    <3>2. Remembers(n, Now)
      BY <2>1, <3>1 DEF Remembers
    <3>3. pc = "read" => Reading(n, Now) /\ n.op # "Learn"
      BY <1>6, <2>1 DEF Reading
    <3>4. CASE pc = "rm.put"
      <4>1. o \notin fileDoubt => Filed(devOrgs[o], o, Now)
        BY <1>2, <1>3, <1>6, <2>3, <3>4 DEF FiledBut, Now
      <4>2. l.todo[o].collector = devOrgs[o].collector
        BY <1>2, <1>6, <3>1, <3>4 DEF Remembers, Carries, Now
      <4>3. o \notin fileDoubt => Filed(l.todo[o], o, Now)
        BY <1>6, <3>4, <4>1, <4>2 DEF Filed
      <4>4. KnowsManage(n, Now)
        BY <1>6, <2>1, <3>2, <3>4, <4>3 DEF KnowsManage, Now
      <4> QED BY <2>1, <3>1, <4>4 DEF Knows
    <3>5. CASE pc # "rm.put"
      <4>1. KnowsManage(n, Now)
        BY <1>6, <2>1, <3>2, <3>3, <3>5 DEF KnowsManage
      <4> QED BY <2>1, <3>1, <4>1 DEF Knows
    <3> QED BY <3>4, <3>5
  <2> QED BY <1>3, <2>1, <2>2, <2>3, FilesRead
<1> HIDE DEF m
<1> QED
  BY <1>4, <1>5, <1>6

LEMMA EntriesFiles ==
    ASSUME TypeInv, TypeInv', AloneInv, NEW r \in Requests, ReadDevice(r) \/ HaveOrg(r)
    PROVE  AloneInv'
<1> DEFINE l == req[r]
<1>1. /\ ManageLocal(l) /\ ManageData(l) /\ l.pc \in {"read", "have"}
      /\ StoresKeep /\ ~At(r, "idle") /\ \A o : ~Changing(l, o)
  BY ManageTypedLocal DEF ReadDevice, HaveOrg, At, ManagePCs, Reads, Changing,
                          ManageData
<1>2. CASE HaveOrg(r)
  <2> DEFINE m == [l EXCEPT !.pc = "put", !.found = devOrgs[l.org] # Absent]
  <2>1. Go(r, m) /\ l.pc = "have"
    BY <1>2 DEF HaveOrg, At
  <2>2. /\ m.op = l.op /\ m.alone = l.alone /\ m.pc = "put" /\ m.org = l.org
        /\ m.copies = l.copies /\ m.todo = l.todo
    BY <1>1 DEF ManageData, Record
  <2> HIDE DEF m
  <2>3. Knows(l, Now) => Knows(m, Now)
    BY <1>1, <2>1, <2>2 DEF Knows, KnowsManage, Remembers, ManageData
  <2>4. \A o : Writing(l, o) => Writing(m, o)
    BY <2>1, <2>2 DEF Writing
  <2> QED BY <1>1, <2>1, <2>2, <2>3, <2>4, FilesRead
<1>3. CASE ReadDevice(r)
  <2> DEFINE d == Head(l.rest)
             e == IF devices[d] = Absent THEN l.entries
                  ELSE l.entries \cup {<<d, devices[d].ip>>}
             m == [l EXCEPT !.rest = Tail(@), !.entries = e]
  <2>1. Go(r, m) /\ l.pc = "read" /\ l.rest # <<>> /\ l.rest \in Seq(DeviceIds)
    BY <1>1, <1>3 DEF ReadDevice, At, ManageData
  <2>2. /\ m.op = l.op /\ m.alone = l.alone /\ m.pc = "read" /\ m.org = l.org
        /\ m.copies = l.copies /\ m.todo = l.todo /\ m.rest = Tail(l.rest)
        /\ m.entries = e
    BY <1>1, <2>1 DEF ManageData, Record
  <2> HIDE DEF m
  <2>3. /\ Elements(Tail(l.rest)) \subseteq Elements(l.rest)
        /\ d \in Elements(l.rest)
        /\ \A x \in Elements(l.rest) : x = d \/ x \in Elements(Tail(l.rest))
    <3> DEFINE s == l.rest
    <3>1. s \in Seq(DeviceIds) /\ s # <<>>
      BY <2>1
    <3> HIDE DEF s
    <3>2. /\ Len(s) >= 1 /\ Len(s) \in Nat /\ Head(s) = s[1]
          /\ Len(Tail(s)) = Len(s) - 1
          /\ \A i \in 1 .. Len(s) - 1 : Tail(s)[i] = s[i + 1]
      BY <3>1, TailLeft
    <3>3. \A i \in 2 .. Len(s) : i - 1 \in 1 .. Len(Tail(s)) /\ Tail(s)[i - 1] = s[i]
      BY <3>2
    <3>4. Tail(s) \in Seq(DeviceIds)
      BY <3>1, TailLeft
    <3>5. \A x \in Elements(s) : x = Head(s) \/ x \in Elements(Tail(s))
      <4>1. SUFFICES ASSUME NEW i \in 1 .. Len(s)
                     PROVE  s[i] = Head(s) \/ s[i] \in Elements(Tail(s))
        BY <3>1 DEF Elements
      <4>2. CASE i = 1
        BY <3>2, <4>2
      <4>3. CASE i # 1
        <5>1. i \in 2 .. Len(s)
          BY <3>2, <4>3
        <5>2. i - 1 \in DOMAIN Tail(s) /\ Tail(s)[i - 1] = s[i]
          BY <3>3, <3>4, <5>1
        <5> QED BY <5>2 DEF Elements
      <4> QED BY <4>2, <4>3
    <3>6. Elements(Tail(s)) \subseteq Elements(s) /\ Head(s) \in Elements(s)
      BY <3>1, TailLeft
    <3> QED BY <3>5, <3>6 DEF s
  <2> HIDE DEF d
  <2>4. ASSUME Knows(l, Now)
        PROVE  Knows(m, Now)
    <3>1. /\ Remembers(l, Now) /\ l.op # "Learn" /\ Reading(l, Now)
          /\ l.op \in {"Collect", "Learn", "Remove"}
      BY <1>1, <2>1, <2>4 DEF Knows, KnowsManage, ManageData
    <3> DEFINE list == Elements(l.todo[l.org].collected)
    <3>2. d \in list
      BY <2>3, <3>1 DEF Reading
    <3>3. {x[1] : x \in e} \subseteq list
      <4>1. \A x \in l.entries : x[1] \in list
        BY <3>1 DEF Reading
      <4>2. \A x \in e : x \in l.entries \/ x[1] = d
        OBVIOUS
      <4> HIDE DEF e, list
      <4> QED BY <3>2, <4>1, <4>2
    <3>4. \A x \in list : devices[x] # Absent =>
            x \in Elements(Tail(l.rest)) \/ <<x, devices[x].ip>> \in e
      BY <2>3, <3>1 DEF Reading, Now
    <3> HIDE DEF e
    <3>5. Reading(m, Now)
      BY <2>2, <2>3, <3>1, <3>3, <3>4 DEF Reading, Now
    <3>6. Remembers(m, Now)
      BY <2>2, <3>1 DEF Remembers
    <3> QED BY <2>2, <3>1, <3>5, <3>6 DEF Knows, KnowsManage
  <2>5. \A o : ~Writing(l, o)
    BY <2>1 DEF Writing
  <2> QED BY <1>1, <2>1, <2>2, <2>4, <2>5, FilesRead
<1> QED
  BY <1>2, <1>3

\* The entries are what the file should have.
LEMMA WriteFiles ==
    ASSUME TypeInv, TypeInv', AloneInv, NEW r \in Requests, WriteFile(r)
    PROVE  AloneInv'
<1> DEFINE l == req[r]
           o == l.org
           c == l.todo[o].collector
           written == IF c \in Collectors
                      THEN [files EXCEPT ![c] = [@ EXCEPT ![o] = l.entries]]
                      ELSE files
           done == [l EXCEPT !.restarted = @ \cup {c}]
           next == [done EXCEPT !.pc = IF l.op = "Remove" THEN "rm.put" ELSE "have"]
<1>1. /\ ManageLocal(l) /\ ManageData(l) /\ l.pc = "read" /\ l.rest = <<>>
      /\ ~At(r, "idle") /\ \A p : ~Writing(l, p) /\ ~Changing(l, p)
  BY ManageTypedLocal DEF WriteFile, At, ManagePCs, Writing, Changing, ManageData
<1>2. o \in Orgs /\ l.todo[o] \in DeviceOrg
  BY <1>1 DEF ManageLocal, ManageData
<1>3. /\ done.alone = l.alone /\ done.op = l.op /\ done.copies = l.copies
      /\ done.todo = l.todo /\ ManageData(done)
      /\ next.alone = l.alone /\ next.op = l.op /\ next.copies = l.copies
      /\ next.todo = l.todo /\ next.org = l.org
      /\ next.pc = IF l.op = "Remove" THEN "rm.put" ELSE "have"
  BY <1>1 DEF ManageData, Record
<1>4. /\ UNCHANGED <<devices, devOrgs, tasks, taskDoubt, stray>>
      /\ files' \in {files, written}
      /\ \/ /\ Go(r, next) /\ files' = written
            /\ fileDoubt' = fileDoubt \ (IF l.alone THEN {o} ELSE {})
            /\ fileExtra' = fileExtra \ (IF l.alone THEN {o} ELSE {})
         \/ /\ Go(r, next) \/ Go(r, SkipOrg(l)) \/ Go(r, SkipOrg(done))
            /\ fileDoubt' = fileDoubt \cup {o} /\ UNCHANGED fileExtra
  BY DEF WriteFile
<1> HIDE DEF done, next, c
<1>5. \A k \in Collectors, p \in Orgs :
        written[k][p] = IF k = c /\ p = o THEN l.entries ELSE files[k][p]
  BY <1>2 DEF TypeInv, TypeOK
<1> HIDE DEF written
<1>6. /\ l.alone \/ fileDoubt \subseteq fileDoubt'
      /\ \A p \in Orgs \ {o} : /\ p \notin fileDoubt' => p \notin fileDoubt
                               /\ p \in fileExtra => p \in fileExtra'
  BY <1>2, <1>4
\* The files of the other organizations stay.
<1>7. ASSUME FiledBut(l, Now), NEW p \in Orgs, p # o, devOrgs[p] # Absent,
             p \notin fileDoubt
      PROVE  Filed(devOrgs[p], p, Now')
  <2>1. Filed(devOrgs[p], p, Now)
    BY <1>1, <1>7 DEF FiledBut, Now
  <2>2. devOrgs[p].collector \in Collectors \cup {Absent}
    BY <1>7 DEF TypeInv, TypeOK, DeviceOrg
  <2>3. \A k \in Collectors : files'[k][p] = files[k][p]
    BY <1>4, <1>5, <1>7
  <2> QED BY <1>4, <1>6, <1>7, <2>1, <2>2, <2>3, FiledKept DEF Now
<1>8. Knows(l, Now) => Remembers(l, Now) /\ Remembers(l, Now') /\ Reading(l, Now)
                         /\ l.op \in {"Collect", "Remove"}
  BY <1>1, <1>4 DEF Knows, KnowsManage, Remembers, ManageData, Now
<1>9. ASSUME Go(r, next), files' = written \/ o \in fileDoubt'
      PROVE  AloneInv'
  <2>1. ASSUME Knows(l, Now), FiledBut(l, Now)
        PROVE  Knows(next, Now') /\ FiledBut(next, Now')
    <3>1. ASSUME files' = written
          PROVE  Filed(l.todo[o], o, Now')
      <4>1. SUFFICES ASSUME c # Absent
                     PROVE  Matches(files'[c][o], Elements(l.todo[o].collected), o, Now')
        BY DEF Filed, Now, c
      <4>2. files'[c][o] = l.entries
        BY <1>2, <1>5, <3>1, <4>1 DEF DeviceOrg, c
      <4>3. Elements(l.rest) = {}
        BY <1>1 DEF Elements
      <4> DEFINE list == Elements(l.todo[o].collected)
      <4>4. /\ {e[1] : e \in l.entries} \subseteq list
            /\ \A d \in list : devices[d] # Absent => <<d, devices[d].ip>> \in l.entries
        BY <1>8, <2>1, <4>3 DEF Reading, Now
      <4> HIDE DEF list
      <4>5. \A d \in list : devices[d] # Absent =>
              \E e \in l.entries : e[1] = d /\ e[2] = devices[d].ip
        BY <4>4
      <4>6. Matches(l.entries, list, o, Now')
        BY <1>4, <4>4, <4>5 DEF Matches, Now
      <4> QED BY <4>2, <4>6 DEF list
    <3>2. o \notin fileDoubt' => Filed(l.todo[o], o, Now')
      BY <1>9, <3>1
    <3>3. KnowsManage(next, Now')
      BY <1>3, <1>8, <2>1, <3>2 DEF KnowsManage, Remembers, Now
    <3>4. Writing(next, o)
      BY <1>3, <1>8, <2>1 DEF Writing
    <3>5. FiledBut(next, Now')
      BY <1>4, <1>6, <1>7, <2>1, <3>4 DEF FiledBut, Now
    <3> QED BY <1>3, <1>8, <2>1, <3>3, <3>5 DEF Knows
  <2> QED BY <1>1, <1>3, <1>4, <1>6, <1>9, <2>1, FilesStep
<1>10. ASSUME NEW m, Go(r, m), m \in {SkipOrg(l), SkipOrg(done)}, o \in fileDoubt'
       PROVE  AloneInv'
  <2>1. Onward(m, l, Now')
    <3>1. Onward(SkipOrg(l), l, Now')
      BY <1>1, NextOrgKnows
    <3>2. Onward(SkipOrg(done), done, Now')
      BY <1>3, NextOrgKnows
    <3>3. Onward(SkipOrg(done), l, Now')
      BY <1>3, <3>2 DEF Onward, Remembers
    <3> QED BY <1>10, <3>1, <3>3
  <2>2. ASSUME Knows(l, Now), FiledBut(l, Now)
        PROVE  Knows(m, Now') /\ FiledBut(m, Now')
    <3>1. Knows(m, Now')
      BY <1>8, <2>1, <2>2 DEF Onward
    <3>2. FiledBut(m, Now')
      BY <1>4, <1>6, <1>7, <1>10, <2>2 DEF FiledBut, Now
    <3> QED BY <3>1, <3>2
  <2>3. m = Idle \/ m.alone = l.alone
    BY <2>1 DEF Onward
  <2> QED BY <1>1, <1>4, <1>6, <1>10, <2>2, <2>3, FilesStep
<1> QED
  BY <1>4, <1>9, <1>10

\* A record is put: its file is right, or it has the list and the collector of
\* the one before.
LEMMA PutsFiles ==
    ASSUME AbsentApart, TypeInv, TypeInv', AloneInv, NEW r \in Requests,
           PutOrg(r) \/ RemovePut(r)
    PROVE  AloneInv'
<1> DEFINE l == req[r]
           o == l.org
           rec == l.todo[o]
           m == [l EXCEPT !.pc = "devices", !.rest = Group(l, o)]
<1>1. /\ ManageLocal(l) /\ ManageData(l) /\ l.pc \in {"put", "rm.put"}
      /\ ~At(r, "idle") /\ o \in Orgs /\ rec \in DeviceOrg /\ o \in DOMAIN l.todo
      /\ (\A p : ~Changing(l, p)) /\ rec # Absent
  <2>1. ManageLocal(l) /\ ManageData(l) /\ l.pc \in {"put", "rm.put"}
    BY ManageTypedLocal DEF PutOrg, RemovePut, At, ManagePCs
  <2>2. rec \in DeviceOrg /\ \A p : ~Changing(l, p)
    BY <2>1 DEF ManageLocal, ManageData, Changing
  <2>3. rec # Absent
    BY <2>2 DEF DeviceOrg, AbsentApart, IsOrg, Record
  <2> QED BY <2>1, <2>2, <2>3 DEF ManageLocal, ManageData, At
<1>2. m.alone = l.alone /\ m.op = l.op /\ m.copies = l.copies /\ m.todo = l.todo
      /\ m.pc = "devices" /\ ManageData(l)
  BY <1>1 DEF ManageData, Record
<1>3. \/ Go(r, NextOrg(l)) \/ Go(r, m) \/ Go(r, SkipOrg(l))
  BY DEF PutOrg, RemovePut
<1>4. /\ UNCHANGED <<devices, files, tasks, fileDoubt, taskDoubt, stray>>
      /\ \/ devOrgs' = [devOrgs EXCEPT ![o] = rec]
         \/ devOrgs[o] = Absent /\ devOrgs' = devOrgs
  BY DEF PutOrg, RemovePut, UpdateOrg, history
<1>5. /\ \A p \in Orgs \ {o} : devOrgs'[p] = devOrgs[p]
      /\ devOrgs'[o] = rec \/ (devOrgs[o] = Absent /\ devOrgs' = devOrgs)
  BY <1>1, <1>4 DEF TypeInv, TypeOK
<1>6. /\ fileExtra \subseteq fileExtra'
      /\ PutOrg(r) /\ l.op = "Learn" /\ devOrgs[o] # Absent /\ o \notin fileExtra' =>
           rec.collected = devOrgs[o].collected
  BY DEF PutOrg, RemovePut, history
<1> HIDE DEF m, rec
<1>8. ASSUME Knows(l, Now), FiledBut(l, Now)
      PROVE  /\ Remembers(l, Now') /\ \A n : FiledBut(n, Now')
             /\ Carries(rec, l.op, devOrgs[o])
  <2>1. KnowsManage(l, Now) /\ Remembers(l, Now) /\ l.op \in {"Collect", "Learn", "Remove"}
    BY <1>1, <1>8 DEF Knows, KnowsManage, ManageData
  <2>2. Carries(rec, l.op, devOrgs[o])
    BY <1>1, <2>1 DEF Remembers, Now, rec
  <2>3. Remembers(l, Now')
    <3>1. ASSUME NEW p \in DOMAIN l.todo
          PROVE  Carries(l.todo[p], l.op, devOrgs'[p])
      <4>1. Carries(l.todo[p], l.op, devOrgs[p])
        BY <2>1, <3>1 DEF Remembers, Now
      <4>2. CASE devOrgs'[p] = devOrgs[p]
        BY <4>1, <4>2
      <4>3. CASE devOrgs'[p] # devOrgs[p]
        <5>1. p = o /\ devOrgs'[o] = rec /\ l.todo[p] = rec
          BY <1>1, <1>5, <3>1, <4>3 DEF ManageData, rec
        <5>2. rec.collector = rec.collector /\ Carries(rec, l.op, rec)
          BY <1>1 DEF Carries, SameTask
        <5> QED BY <5>1, <5>2
      <4> QED BY <4>2, <4>3
    <3> QED BY <1>4, <2>1, <3>1 DEF Remembers, Now
  <2>4. ASSUME NEW p \in Orgs, p # o, devOrgs'[p] # Absent, p \notin fileDoubt'
        PROVE  Filed(devOrgs'[p], p, Now')
    <3>1. Filed(devOrgs[p], p, Now)
      BY <1>4, <1>5, <1>8, <2>4 DEF FiledBut, Now, Writing
    <3> QED BY <1>4, <1>5, <1>6, <2>4, <3>1, FiledKept DEF Now
  <2>5. ASSUME devOrgs'[o] # Absent, o \notin fileDoubt'
        PROVE  Filed(devOrgs'[o], o, Now')
    <3>1. devOrgs'[o] = rec
      BY <1>5, <2>5
    <3>2. CASE l.op = "Learn"
      <4>1. PutOrg(r)
        <5>1. l.pc # "rm.put"
          BY <2>1, <3>2 DEF KnowsManage
        <5> QED BY <5>1 DEF RemovePut, At
      <4>2. rec.collector = IF devOrgs[o] = Absent THEN Absent ELSE devOrgs[o].collector
        BY <2>2, <3>2 DEF Carries
      <4>3. CASE devOrgs[o] = Absent
        BY <3>1, <4>2, <4>3 DEF Filed
      <4>4. CASE devOrgs[o] # Absent
        <5>1. Filed(devOrgs[o], o, Now)
          BY <1>1, <1>4, <1>8, <2>5, <3>2, <4>4 DEF FiledBut, Now, Writing
        <5>2. Elements(rec.collected) \subseteq Elements(devOrgs[o].collected)
          BY <2>2, <3>2, <4>4 DEF Carries
        <5>3. o \notin fileExtra' =>
                o \notin fileExtra /\ rec.collected = devOrgs[o].collected
          BY <1>6, <3>2, <4>1, <4>4
        <5>4. ASSUME rec.collector # Absent
              PROVE  Matches(files[rec.collector][o], Elements(rec.collected), o, Now')
          <6>1. Matches(files[rec.collector][o], Elements(devOrgs[o].collected), o, Now)
            BY <4>2, <4>4, <5>1, <5>4 DEF Filed, Now
          <6>2. {e[1] : e \in files[rec.collector][o]} \subseteq Elements(rec.collected)
                \/ o \in fileExtra'
            BY <5>3, <6>1 DEF Matches, Now
          <6> QED BY <1>4, <5>2, <6>1, <6>2 DEF Matches, Now
        <5>5. Filed(rec, o, Now')
          BY <1>4, <5>4 DEF Filed, Now
        <5> QED BY <3>1, <5>5
      <4> QED BY <4>3, <4>4
    <3>3. CASE l.op = "Collect"
      <4>1. l.pc = "put"
        BY <1>1, <2>1, <3>3 DEF KnowsManage
      <4>2. Filed(rec, o, Now)
        BY <1>4, <2>1, <2>5, <3>3, <4>1 DEF KnowsManage, rec, Now
      <4> QED BY <1>4, <1>6, <3>1, <4>2, FiledKept DEF Now
    <3>4. CASE l.op = "Remove"
      <4>1. l.pc = "rm.put"
        BY <1>1, <2>1, <3>4 DEF KnowsManage
      <4>2. RemovePut(r)
        BY <4>1 DEF PutOrg, At
      <4>3. o \notin fileDoubt /\ devOrgs[o] # Absent
        BY <1>4, <2>5, <4>2 DEF RemovePut, UpdateOrg
      <4>4. Filed(rec, o, Now)
        BY <2>1, <4>1, <4>3 DEF KnowsManage, Now, rec
      <4> QED BY <1>4, <1>6, <3>1, <4>4, FiledKept DEF Now
    <3> QED BY <2>1, <3>2, <3>3, <3>4
  <2> QED BY <2>3, <2>4, <2>5, <2>2 DEF FiledBut, Now
<1>9. ASSUME NEW n, Go(r, n), n \in {NextOrg(l), SkipOrg(l), m}
      PROVE  AloneInv'
  <2>1. Onward(n, l, Now')
    <3>1. Onward(m, l, Now')
      BY <1>1, <1>2, OnwardTo DEF Remembers
    <3>2. Onward(NextOrg(l), l, Now') /\ Onward(SkipOrg(l), l, Now')
      BY <1>1, NextOrgKnows
    <3> QED BY <1>9, <3>1, <3>2
  <2>2. n = Idle \/ n.alone = l.alone
    BY <2>1 DEF Onward
  <2>3. Knows(l, Now) /\ FiledBut(l, Now) => Knows(n, Now') /\ FiledBut(n, Now')
    BY <1>8, <2>1 DEF Onward
  <2>4. ASSUME Knows(l, Now), FiledBut(l, Now), NEW p \in Orgs, devOrgs'[p] # devOrgs[p]
        PROVE  devOrgs'[p] # Absent /\ SameTask(devOrgs'[p], devOrgs[p])
    <3>1. p = o /\ devOrgs'[p] = rec
      BY <1>4, <1>5, <2>4 DEF TypeInv, TypeOK
    <3> QED BY <1>1, <1>8, <2>4, <3>1 DEF Carries
  <2> QED BY <1>1, <1>4, <1>9, <2>2, <2>3, <2>4, FilesStep
<1> QED
  BY <1>3, <1>9

\* The devices are put as they are, or removed.
LEMMA LastFiles ==
    ASSUME TypeInv, TypeInv', AloneInv, NEW r \in Requests, PutDevices(r) \/ DeleteDevice(r)
    PROVE  AloneInv'
<1> DEFINE l == req[r]
           d == Head(l.rest)
           m == [l EXCEPT !.rest = Tail(@)]
<1>1. /\ ManageLocal(l) /\ ManageData(l) /\ l.pc \in {"devices", "rm.device"}
      /\ ~At(r, "idle") /\ (\A o : ~Writing(l, o) /\ ~Changing(l, o))
      /\ l.rest # <<>> /\ l.rest \in Seq(DeviceIds)
  <2>1. ManageLocal(l) /\ ManageData(l) /\ l.pc \in {"devices", "rm.device"}
    BY ManageTypedLocal DEF PutDevices, DeleteDevice, At, ManagePCs
  <2> QED BY <2>1 DEF ManageLocal, ManageData, At, Writing, Changing
<1>2. /\ m.alone = l.alone /\ m.op = l.op /\ m.copies = l.copies /\ m.todo = l.todo
      /\ m.pc = l.pc
  BY <1>1 DEF ManageData, Record
<1>3. Go(r, Idle) \/ Go(r, m) \/ (l.pc = "devices" /\ Go(r, NextOrg(l)))
  BY DEF PutDevices, DeleteDevice, Finish, At
<1>4. UNCHANGED <<devOrgs, files, tasks, fileDoubt, fileExtra, taskDoubt, stray>>
  BY DEF PutDevices, DeleteDevice, history
<1>5. d \in Elements(l.rest)
  BY <1>1, TailLeft
<1> HIDE DEF m
<1>6. ASSUME Knows(l, Now)
      PROVE  /\ l.pc = "devices" => Remembers(l, Now) /\ UNCHANGED devices
             /\ \A x \in DeviceIds : devices'[x] = devices[x] \/ devices'[x] = Absent
  <2>1. CASE PutDevices(r)
    <3>1. l.pc = "devices" /\ PutDevice(d, l.copies[d])
      BY <2>1 DEF PutDevices, At
    <3>2. Remembers(l, Now) /\ l.copies[d] = devices[d]
      BY <1>1, <1>5, <1>6, <3>1 DEF ManageLocal, ManageData, Knows, KnowsManage,
                                    Remembers, Now
    <3>3. devices' = [x \in DeviceIds |-> devices[x]]
      BY <3>1, <3>2 DEF PutDevice
    <3> QED BY <3>1, <3>2, <3>3 DEF TypeInv, TypeOK
  <2>2. CASE DeleteDevice(r)
    BY <2>2 DEF DeleteDevice, deviceVars, At
  <2> QED BY <2>1, <2>2
<1>7. ASSUME NEW n, Go(r, n), n \in {Idle, m} \/ (l.pc = "devices" /\ n = NextOrg(l))
      PROVE  AloneInv'
  <2>1. n = Idle \/ n.alone = l.alone
    BY <1>1, <1>2, <1>7, NextOrgKnows DEF Onward
  <2>2. ASSUME Knows(l, Now), FiledBut(l, Now)
        PROVE  Knows(n, Now') /\ FiledBut(n, Now')
    <3>1. l.pc = "devices" => Remembers(l, Now')
      BY <1>4, <1>6, <2>2 DEF Remembers, Now
    <3>2. Knows(m, Now')
      BY <1>1, <1>2, <3>1 DEF Knows, KnowsManage, Remembers, ManageData
    <3>3. l.pc = "devices" => Knows(NextOrg(l), Now')
      BY <1>1, <3>1, NextOrgKnows DEF Onward
    <3>4. Knows(n, Now')
      BY <1>7, <3>2, <3>3, IdleKnows
    <3>5. ASSUME NEW o \in Orgs, devOrgs[o] # Absent, o \notin fileDoubt
          PROVE  Filed(devOrgs[o], o, Now')
      <4>1. Filed(devOrgs[o], o, Now)
        BY <1>1, <2>2, <3>5 DEF FiledBut, Now
      <4>2. Elements(devOrgs[o].collected) \subseteq DeviceIds
        <5>1. devOrgs[o].collected \in Seq(DeviceIds)
          BY <3>5 DEF TypeInv, TypeOK, DeviceOrg
        <5>2. \A s \in Seq(DeviceIds) : Elements(s) \subseteq DeviceIds
          BY DEF Elements
        <5> QED BY <5>1, <5>2
      <4> QED BY <1>4, <1>6, <2>2, <4>1, <4>2, FiledKept DEF Now
    <3> QED BY <1>4, <3>4, <3>5 DEF FiledBut, Now
  <2> QED BY <1>1, <1>4, <1>7, <2>1, <2>2, FilesStep
<1> QED
  BY <1>3, <1>7

LEMMA AloneNext ==
    ASSUME AbsentApart, TypeInv, TypeInv', AloneInv, [Next]_vars
    PROVE  AloneInv'
<1>1. CASE UNCHANGED vars
  <2>1. Now' = Now
    BY <1>1 DEF vars, Now
  <2> QED BY <1>1, <2>1 DEF vars, AloneInv, At, Quiet
<1>2. CASE Crash
  <2>1. AllInDoubt /\ \A q \in Requests : req'[q] = Idle
    BY <1>2 DEF Crash
  <2>2. Loose(Now')
    BY <2>1 DEF AllInDoubt, Loose, Now
  <2>3. Sound(Idle, Now')
    BY <2>2, LooseSound
  <2> QED BY <2>1, <2>3 DEF AloneInv, At, Idle
<1>3. ASSUME NEW r \in Requests, ManageStep(r)
      PROVE  AloneInv'
  BY <1>3, ReadsFiles, OpenFiles, EntriesFiles, WriteFiles, PutsFiles, LastFiles
     DEF ManageStep
<1> QED
  BY <1>1, <1>2, <1>3, DevicesFiles, OrgsFiles, FilesBegin DEF Next, Step

LEMMA AloneInit == Init => TypeInv /\ AloneInv
<1> SUFFICES ASSUME Init PROVE AloneInv
  BY TypeInit
<1>1. \A r \in Requests : req[r] = Idle
  BY DEF Init
<1>2. FiledBut(Idle, Now)
  BY DEF Init, FiledBut, Now
<1>3. SettledBut(Idle, Now)
  BY DEF Init, SettledBut, Settled, Apart, KapaOf, Now
<1> QED BY <1>1, <1>2, <1>3, IdleKnows DEF AloneInv, Sound, At, Idle

LEMMA AloneAlways == AbsentApart => (Spec => [](TypeInv /\ AloneInv))
<1> SUFFICES ASSUME AbsentApart PROVE Spec => [](TypeInv /\ AloneInv)
  OBVIOUS
<1>1. TypeInv /\ AloneInv /\ [Next]_vars => (TypeInv /\ AloneInv)'
  BY TypeNext, AloneNext
<1> QED
  BY <1>1, AloneInit, PTL DEF Spec

\* However handlers interleave, fail and crash, and whatever lists clients set: when
\* no handler is in flight, the file of an organization has its list in it and, until
\* a Learn takes a moved device off the list, nothing else.  What this says nothing of
\* is in fileDoubt: an organization for which a call of Salt failed or did nothing,
\* one whose list or collector a client set itself or whose list named a device that
\* did not exist yet, and all after two handlers overlapped or the server stopped;
\* and what a lone Collect or Remove writes (manageLogstashConfig) is out of doubt.
THEOREM FilesAlongside == AbsentApart => (Spec => []FilesFollowLists)
<1> SUFFICES ASSUME AbsentApart PROVE Spec => []FilesFollowLists
  OBVIOUS
<1>1. TypeInv /\ AloneInv => FilesFollowLists
  <2> SUFFICES ASSUME TypeInv, AloneInv, Quiet, NEW o \in StoredOrgs \ fileDoubt,
                      devOrgs[o].collector # Absent
               PROVE  LET list == Elements(devOrgs[o].collected)
                          file == files[devOrgs[o].collector][o]
                      IN  /\ o \notin fileExtra => {e[1] : e \in file} \subseteq list
                          /\ \A d \in list \cap Stored :
                                \E e \in file : e[1] = d /\
                                  (devices[d].org = o => e[2] = devices[d].ip)
    BY DEF FilesFollowLists
  <2>1. Filed(devOrgs[o], o, Now)
    BY IdleKnows DEF AloneInv, Sound, FiledBut, StoredOrgs, Now
  <2> QED BY <2>1 DEF Filed, Matches, Now, Stored
<1> QED
  BY <1>1, AloneAlways, PTL

\* And the learning task of an organization is in the kapacitor of its record, with
\* the record's schedule, unless a call about it failed (or lost its answer),
\* handlers overlapped or the server stopped since a lone handler last put it; a task
\* in another kapacitor was left there by such a fault, or by RemoveNetworkDeviceOrg,
\* which never deletes it.
THEOREM TasksAlongside == AbsentApart => (Spec => []TasksFollowOrgs)
<1> SUFFICES ASSUME AbsentApart PROVE Spec => []TasksFollowOrgs
  OBVIOUS
<1>1. TypeInv /\ AloneInv => TasksFollowOrgs
  <2> SUFFICES ASSUME TypeInv, AloneInv, Quiet, NEW o \in StoredOrgs
               PROVE  LET kapa == devOrgs[o].kapa
                      IN  /\ o \notin taskDoubt /\ kapa # Absent =>
                                tasks[kapa][o] = devOrgs[o].cron
                          /\ \A k \in Kapas \ {kapa} :
                               tasks[k][o] # Absent => <<k, o>> \in stray
    BY DEF TasksFollowOrgs
  <2>1. Settled(o, Now)
    BY IdleKnows DEF AloneInv, Sound, SettledBut, StoredOrgs
  <2> QED BY <2>1 DEF Settled, Apart, Own, KapaOf, StoredOrgs, Now
<1> QED
  BY <1>1, AloneAlways, PTL
=============================================================================
