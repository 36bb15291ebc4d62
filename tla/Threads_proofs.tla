---------------------------- MODULE Threads_proofs ----------------------------
(***************************************************************************)
(* Proofs about Threads for any number of threads, semaphores and any       *)
(* sizes.  IInv is the inductive invariant; Located, the part of it that    *)
(* says where the threads are, is stated about lists, so that it can be     *)
(* followed through the middle of a switch.                                 *)
(***************************************************************************)
EXTENDS Threads, ListFacts

------------------------------------------------------------------------------
(* The pass of thread_wakeup. *)
LEMMA KeepFacts ==
    ASSUME NEW S, NEW s \in Seq(S), NEW A
    PROVE  /\ Keep(s, A) \in Seq(S) /\ Len(Keep(s, A)) <= Len(s)
           /\ ToSet(Keep(s, A)) = ToSet(s) \cap A
           /\ IsInjective(s) => IsInjective(Keep(s, A))
<1> DEFINE n == Len(s)
           E(f, i) == IF i = 0 THEN <<>>
                      ELSE IF s[i] \in A THEN Append(f[i - 1], s[i])
                                         ELSE f[i - 1]
           kept[i \in 0 .. Len(s)] ==
               IF i = 0 THEN <<>>
               ELSE IF s[i] \in A THEN Append(kept[i - 1], s[i])
                                  ELSE kept[i - 1]
<1>1. Len(s) \in Nat /\ \A i \in 1 .. Len(s) : s[i] \in S
  BY LenProperties
<1>2. \E f : f = [i \in 0 .. Len(s) |-> E(f, i)]
  <2> DEFINE Upto(k) == \E f \in [0 .. Len(s) -> Seq(S)] :
                            \A i \in 0 .. k : f[i] = E(f, i)
             T == {k \in 0 .. Len(s) : Upto(k)}
  <2>1. 0 \in T
    <3> DEFINE g == [j \in 0 .. Len(s) |-> <<>>]
    <3>1. g \in [0 .. Len(s) -> Seq(S)]
      OBVIOUS
    <3>2. g[0] = <<>>
      BY <1>1
    <3> HIDE DEF g
    <3>3. E(g, 0) = <<>>
      OBVIOUS
    <3>4. \A i \in 0 .. 0 : g[i] = E(g, i)
      <4> SUFFICES ASSUME NEW i \in 0 .. 0 PROVE g[i] = E(g, i)
        OBVIOUS
      <4>1. i = 0
        OBVIOUS
      <4> HIDE DEF E
      <4> QED BY <3>2, <3>3, <4>1
    <3>5. Upto(0)
      <4> HIDE DEF E
      <4> QED BY <3>1, <3>4
    <3> HIDE DEF Upto
    <3> QED BY <1>1, <3>5
  <2>2. ASSUME NEW k \in 0 .. Len(s) - 1, k \in T PROVE k + 1 \in T
    <3>1. PICK f \in [0 .. Len(s) -> Seq(S)] : \A i \in 0 .. k : f[i] = E(f, i)
      BY <2>2
    <3> DEFINE g == [f EXCEPT ![k + 1] = E(f, k + 1)]
    <3>2. k + 1 \in 0 .. Len(s) /\ k + 1 # 0 /\ (k + 1) - 1 = k /\ k \in 0 .. Len(s)
          /\ s[k + 1] \in S
      BY <1>1
    <3>3. f[k] \in Seq(S)
      BY <3>1, <3>2
    <3>4. E(f, k + 1) \in Seq(S)
      BY <3>2, <3>3, AppendProperties
    <3>5. g \in [0 .. Len(s) -> Seq(S)]
      BY <3>4
    <3>6. g[k + 1] = E(f, k + 1) /\ \A i \in 0 .. k : g[i] = f[i]
      BY <3>2
    <3>7. ASSUME NEW i \in 0 .. k + 1 PROVE g[i] = E(g, i)
      <4>1. CASE i = k + 1
        <5>1. E(g, k + 1) = E(f, k + 1)
          <6> HIDE DEF g
          <6> QED BY <3>2, <3>6
        <5> QED BY <3>6, <4>1, <5>1
      <4>2. CASE i # k + 1
        <5>1. i \in 0 .. k /\ (i # 0 => i - 1 \in 0 .. k)
          BY <3>2, <4>2
        <5> HIDE DEF g
        <5> QED BY <3>1, <3>6, <5>1
      <4> QED BY <4>1, <4>2
    <3> HIDE DEF g
    <3>8. Upto(k + 1)
      BY <3>5, <3>7
    <3> QED BY <3>2, <3>8
  <2> HIDE DEF T
  <2>3. Len(s) \in T
    <3>1. \A k \in 0 .. Len(s) - 1 : k \in T => k + 1 \in T
      BY <2>2
    <3>2. \A k \in 0 .. Len(s) : k \in T
      BY <1>1, <2>1, <3>1, BoundedInduction
    <3> QED BY <1>1, <3>2
  <2>4. PICK f \in [0 .. Len(s) -> Seq(S)] :
            \A i \in 0 .. Len(s) : f[i] = E(f, i)
    BY <2>3 DEF T
  <2>5. f = [i \in 0 .. Len(s) |-> E(f, i)]
    BY <2>4
  <2> QED BY <2>5
<1>3. kept = [i \in 0 .. Len(s) |-> E(kept, i)]
  BY <1>2
<1>4. Keep(s, A) = kept[Len(s)]
  BY DEF Keep
<1> HIDE DEF kept
<1>5. \A i \in 0 .. Len(s) : kept[i] = E(kept, i)
  BY <1>3
<1> DEFINE Elems(i) == {s[j] : j \in 1 .. i}
           Fine(i) == /\ kept[i] \in Seq(S) /\ Len(kept[i]) <= i
                      /\ ToSet(kept[i]) = Elems(i) \cap A
                      /\ IsInjective(s) => IsInjective(kept[i])
           U == {i \in 0 .. Len(s) : Fine(i)}
<1>6. 0 \in U
  <2>1. kept[0] = <<>> /\ 0 \in 0 .. Len(s)
    BY <1>1, <1>5
  <2>2. <<>> \in Seq(S) /\ Len(<<>>) = 0 /\ IsInjective(<<>>) /\ ToSet(<<>>) = {}
    BY EmptySeq, ToSetEmpty DEF IsInjective
  <2>3. Elems(0) = {}
    OBVIOUS
  <2>4. Fine(0)
    <3> HIDE DEF Elems
    <3> QED BY <2>1, <2>2, <2>3
  <2> HIDE DEF Fine
  <2> QED BY <2>1, <2>4
<1>7. ASSUME NEW i \in 0 .. Len(s) - 1, i \in U PROVE i + 1 \in U
  <2>1. /\ i + 1 \in 0 .. Len(s) /\ i + 1 # 0 /\ (i + 1) - 1 = i
        /\ i + 1 \in 1 .. Len(s) /\ s[i + 1] \in S /\ i \in Nat
    BY <1>1
  <2>2. kept[i + 1] = IF s[i + 1] \in A THEN Append(kept[i], s[i + 1]) ELSE kept[i]
    BY <1>5, <2>1
  <2>3. Fine(i)
    BY <1>7
  <2>4. Elems(i + 1) = Elems(i) \cup {s[i + 1]}
    BY <2>1
  <2>5. CASE s[i + 1] \in A
    <3>1. kept[i + 1] = Append(kept[i], s[i + 1])
      BY <2>2, <2>5
    <3>2. /\ kept[i + 1] \in Seq(S) /\ Len(kept[i + 1]) = Len(kept[i]) + 1
          /\ ToSet(kept[i + 1]) = ToSet(kept[i]) \cup {s[i + 1]}
      BY <2>1, <2>3, <3>1, AppendProperties, ToSetAppend
    <3>3. ASSUME IsInjective(s) PROVE IsInjective(kept[i + 1])
      <4>1. s[i + 1] \notin Elems(i)
        BY <1>1, <2>1, <3>3, LenProperties DEF IsInjective
      <4>2. s[i + 1] \notin ToSet(kept[i])
        BY <2>3, <4>1
      <4> QED BY <2>1, <2>3, <3>1, <3>3, <4>2, InjAppend
    <3>4. Len(kept[i]) \in Nat
      BY <2>3, LenProperties
    <3>5. Len(kept[i + 1]) <= i + 1
      BY <2>1, <2>3, <3>2, <3>4
    <3>6. ToSet(kept[i + 1]) = Elems(i + 1) \cap A
      BY <2>3, <2>4, <2>5, <3>2
    <3> QED BY <2>1, <3>2, <3>3, <3>5, <3>6
  <2>6. CASE s[i + 1] \notin A
    <3>1. kept[i + 1] = kept[i]
      BY <2>2, <2>6
    <3>2. ToSet(kept[i + 1]) = Elems(i + 1) \cap A
      BY <2>3, <2>4, <2>6, <3>1
    <3>3. Len(kept[i]) \in Nat
      BY <2>3, LenProperties
    <3> QED BY <2>1, <2>3, <3>1, <3>2, <3>3
  <2> QED BY <2>5, <2>6
<1> HIDE DEF U
<1>8. Len(s) \in U
  <2>1. \A i \in 0 .. Len(s) - 1 : i \in U => i + 1 \in U
    BY <1>7
  <2>2. \A i \in 0 .. Len(s) : i \in U
    BY <1>1, <1>6, <2>1, BoundedInduction
  <2> QED BY <1>1, <2>2
<1>9. Elems(Len(s)) = ToSet(s)
  BY ToSetIs
<1> QED BY <1>4, <1>8, <1>9 DEF U

------------------------------------------------------------------------------
(* f is the function that the loops of array_preallocate and q_preallocate  *)
(* compute.                                                                 *)
Grows(f, n, G) == f = [m \in Nat |-> IF m < n THEN f[G[m]] ELSE m]

(* The loops of array_preallocate and q_preallocate: a size smaller than n  *)
(* is replaced by a larger one, G of it, until it is large enough.  (A size *)
(* 0 that does not grow loops for ever; no queue has it.)                   *)
LEMMA GrowFacts ==
    ASSUME NEW n \in Nat, NEW G \in [Nat -> Nat],
           \A m \in Nat \ {0} : G[m] > m
    PROVE  /\ \E f : Grows(f, n, G)
           /\ \A f : Grows(f, n, G) =>
                \A m \in Nat : m > 0 \/ G[0] > 0 =>
                    f[m] \in Nat /\ f[m] >= n /\ f[m] >= m
<1> DEFINE E(f, m) == IF m < n THEN f[G[m]] ELSE m
           Upto(f, K) == \A m \in Nat \ {0} : m + K >= n => f[m] = E(f, m)
           Good == {K \in Nat : \E f \in [Nat -> Nat] : Upto(f, K)}
<1>1. 0 \in Good
  <2> DEFINE g == [x \in Nat |-> x]
  <2>1. g \in [Nat -> Nat] /\ \A m \in Nat : g[m] = m
    OBVIOUS
  <2> HIDE DEF g
  <2>2. Upto(g, 0)
    BY <2>1
  <2> HIDE DEF Upto
  <2> QED BY <2>1, <2>2
<1>2. ASSUME NEW K \in Nat, K \in Good PROVE K + 1 \in Good
  <2>1. PICK f \in [Nat -> Nat] : Upto(f, K)
    BY <1>2
  <2> DEFINE g == [m \in Nat |-> E(f, m)]
  <2>2. g \in [Nat -> Nat] /\ \A m \in Nat : g[m] = E(f, m)
    OBVIOUS
  <2> HIDE DEF g
  <2>3. ASSUME NEW m \in Nat \ {0}, m + (K + 1) >= n PROVE g[m] = E(g, m)
    <3>1. CASE m < n
      <4>1. G[m] \in Nat \ {0} /\ G[m] + K >= n
        BY <2>3
      <4>2. f[G[m]] = E(f, G[m])
        BY <2>1, <4>1
      <4>3. g[m] = f[G[m]]
        BY <2>2, <3>1
      <4>4. g[G[m]] = E(f, G[m])
        BY <2>2, <4>1
      <4> QED BY <3>1, <4>2, <4>3, <4>4
    <3>2. CASE ~(m < n)
      BY <2>2, <3>2
    <3> QED BY <3>1, <3>2
  <2>4. Upto(g, K + 1)
    BY <2>3
  <2> HIDE DEF Upto
  <2> QED BY <2>2, <2>4
<1>3. PICK u \in [Nat -> Nat] : \A m \in Nat \ {0} : u[m] = E(u, m)
  <2>1. n \in Good
    <3> HIDE DEF Good
    <3> QED BY <1>1, <1>2, Induction
  <2> QED BY <2>1
<1>4. \E h : h = [m \in Nat |-> E(h, m)]
  <2> DEFINE h == [u EXCEPT ![0] = E(u, 0)]
  <2>1. h = [m \in Nat |-> IF m = 0 THEN E(u, 0) ELSE u[m]]
    OBVIOUS
  <2> HIDE DEF h
  <2>2. ASSUME NEW m \in Nat PROVE h[m] = E(h, m)
    <3>1. CASE m = 0
      <4>1. h[0] = E(u, 0) /\ G[0] \in Nat
        BY <2>1
      <4>2. CASE G[0] = 0
        BY <2>1, <3>1, <4>1, <4>2
      <4>3. CASE G[0] # 0
        <5>1. h[G[0]] = u[G[0]]
          BY <2>1, <4>1, <4>3
        <5> QED BY <3>1, <4>1, <5>1
      <4> QED BY <4>2, <4>3
    <3>2. CASE m # 0
      <4>1. G[m] \in Nat \ {0}
        BY <3>2
      <4>2. h[m] = u[m] /\ h[G[m]] = u[G[m]]
        BY <2>1, <3>2, <4>1
      <4> QED BY <1>3, <3>2, <4>2
    <3> QED BY <3>1, <3>2
  <2>3. h = [m \in Nat |-> h[m]]
    BY <2>1
  <2>4. h = [m \in Nat |-> E(h, m)]
    <3> HIDE DEF E
    <3> QED BY <2>2, <2>3
  <2> QED BY <2>4
<1>5. ASSUME NEW h, h = [m \in Nat |-> E(h, m)],
             NEW m \in Nat, m > 0 \/ G[0] > 0
      PROVE  h[m] \in Nat /\ h[m] >= n /\ h[m] >= m
  <2> DEFINE Fine(k) == h[k] \in Nat /\ h[k] >= n /\ h[k] >= k
             S == {k \in Nat : \A j \in Nat \ {0} : j + k >= n => Fine(j)}
  <2>1. \A j \in Nat : h[j] = E(h, j)
    BY <1>5
  <2>2. 0 \in S
    <3>1. ASSUME NEW j \in Nat \ {0}, j + 0 >= n PROVE Fine(j)
      BY <2>1, <3>1
    <3> HIDE DEF Fine
    <3> QED BY <3>1
  <2>3. ASSUME NEW k \in Nat, k \in S PROVE k + 1 \in S
    <3>1. ASSUME NEW j \in Nat \ {0}, j + (k + 1) >= n PROVE Fine(j)
      <4>1. CASE j < n
        <5>1. G[j] \in Nat \ {0} /\ G[j] > j /\ G[j] + k >= n
          BY <3>1
        <5>2. Fine(G[j])
          <6> HIDE DEF Fine
          <6> QED BY <2>3, <5>1
        <5>3. h[j] = h[G[j]]
          BY <2>1, <4>1
        <5> QED BY <5>1, <5>2, <5>3
      <4>2. CASE ~(j < n)
        BY <2>1, <4>2
      <4> QED BY <4>1, <4>2
    <3> HIDE DEF Fine
    <3> QED BY <3>1
  <2>4. n \in S
    <3> HIDE DEF S
    <3> QED BY <2>2, <2>3, Induction
  <2>5. \A j \in Nat \ {0} : Fine(j)
    <3> HIDE DEF Fine
    <3> QED BY <2>4
  <2>6. CASE m # 0
    BY <2>5, <2>6
  <2>7. CASE m = 0 /\ n > 0
    <3>1. G[0] \in Nat \ {0} /\ h[0] = h[G[0]]
      BY <1>5, <2>1, <2>7
    <3> QED BY <2>5, <2>7, <3>1
  <2>8. CASE m = 0 /\ n = 0
    BY <2>1, <2>8
  <2> QED BY <2>6, <2>7, <2>8
<1>6. \E f : Grows(f, n, G)
  BY <1>4 DEF Grows
<1>7. ASSUME NEW f, Grows(f, n, G), NEW m \in Nat, m > 0 \/ G[0] > 0
      PROVE  f[m] \in Nat /\ f[m] >= n /\ f[m] >= m
  <2>1. f = [k \in Nat |-> E(f, k)]
    BY <1>7 DEF Grows
  <2> HIDE DEF E
  <2> QED BY <1>5, <1>7, <2>1
<1> QED BY <1>6, <1>7

(* array_preallocate makes room for n elements and never shrinks an array. *)
LEMMA PreallocateFacts ==
    ASSUME NEW max \in Nat, NEW n \in Nat
    PROVE  /\ Preallocate(max, n) \in Nat
           /\ Preallocate(max, n) >= n /\ Preallocate(max, n) >= max
<1> DEFINE G == [m \in Nat |-> (m + 1) * 2]
           newmax[m \in Nat] == IF n > m THEN newmax[(m + 1) * 2] ELSE m
<1>1. /\ G \in [Nat -> Nat] /\ \A m \in Nat : G[m] = (m + 1) * 2
      /\ \A m \in Nat \ {0} : G[m] > m
      /\ G[0] > 0
  OBVIOUS
<1> HIDE DEF G
<1>2. ASSUME NEW f
      PROVE  [m \in Nat |-> IF n > m THEN f[(m + 1) * 2] ELSE m]
             = [m \in Nat |-> IF m < n THEN f[G[m]] ELSE m]
  BY <1>1
<1>3. \E f : f = [m \in Nat |-> IF n > m THEN f[(m + 1) * 2] ELSE m]
  <2>1. PICK f : Grows(f, n, G)
    BY <1>1, GrowFacts
  <2> QED BY <1>2, <2>1 DEF Grows
<1>4. newmax = [m \in Nat |-> IF n > m THEN newmax[(m + 1) * 2] ELSE m]
  BY <1>3
<1>5. Preallocate(max, n) = newmax[max]
  BY DEF Preallocate
<1> HIDE DEF newmax
<1>6. Grows(newmax, n, G)
  BY <1>2, <1>4 DEF Grows
<1>7. \A m \in Nat : m > 0 \/ G[0] > 0 =>
          newmax[m] \in Nat /\ newmax[m] >= n /\ newmax[m] >= m
  BY <1>1, <1>6, GrowFacts
<1> QED BY <1>1, <1>5, <1>7

(* q_preallocate does the same for a queue, whose size is never 0. *)
LEMMA QPreallocateFacts ==
    ASSUME NEW size \in Nat \ {0}, NEW n \in Nat
    PROVE  /\ QPreallocate(size, n) \in Nat \ {0}
           /\ QPreallocate(size, n) >= n /\ QPreallocate(size, n) >= size
<1> DEFINE G == [m \in Nat |-> m * 2]
           nsize[m \in Nat] == IF m < n THEN nsize[m * 2] ELSE m
<1>1. /\ G \in [Nat -> Nat] /\ \A m \in Nat : G[m] = m * 2
      /\ \A m \in Nat \ {0} : G[m] > m
  OBVIOUS
<1> HIDE DEF G
<1>2. ASSUME NEW f
      PROVE  [m \in Nat |-> IF m < n THEN f[m * 2] ELSE m]
             = [m \in Nat |-> IF m < n THEN f[G[m]] ELSE m]
  BY <1>1
<1>3. \E f : f = [m \in Nat |-> IF m < n THEN f[m * 2] ELSE m]
  <2>1. PICK f : Grows(f, n, G)
    BY <1>1, GrowFacts
  <2> QED BY <1>2, <2>1 DEF Grows
<1>4. nsize = [m \in Nat |-> IF m < n THEN nsize[m * 2] ELSE m]
  BY <1>3
<1>5. QPreallocate(size, n) = nsize[size]
  BY DEF QPreallocate
<1> HIDE DEF nsize
<1>6. Grows(nsize, n, G)
  BY <1>2, <1>4 DEF Grows
<1>7. \A m \in Nat : m > 0 \/ G[0] > 0 =>
          nsize[m] \in Nat /\ nsize[m] >= n /\ nsize[m] >= m
  BY <1>1, <1>6, GrowFacts
<1> QED BY <1>1, <1>5, <1>7

(* A queue that has taken n elements keeps a slot free. *)
LEMMA QRoomFacts ==
    ASSUME NEW size \in Nat \ {0}, NEW n \in Nat
    PROVE  QRoom(size, n) \in Nat \ {0} /\ QRoom(size, n) > n
<1>1. QPreallocate(size, n + 1) \in Nat \ {0} /\ QPreallocate(size, n + 1) >= n + 1
  BY QPreallocateFacts
<1> QED BY <1>1 DEF QRoom

------------------------------------------------------------------------------
(* The inductive invariant.                                                 *)

(* Where the threads are, with lists rq, sl and zs, C running (nobody or    *)
(* one thread) and each thread t at npc[t].                                 *)
Located(rq, sl, zs, C, npc) ==
    /\ IsInjective(rq) /\ IsInjective(sl) /\ IsInjective(zs)
    /\ ToSet(rq) \cap ToSet(sl) = {} /\ ToSet(rq) \cap ToSet(zs) = {}
    /\ ToSet(sl) \cap ToSet(zs) = {}
    /\ C \cap (ToSet(rq) \cup ToSet(sl) \cup ToSet(zs)) = {}
    /\ \A t \in Threads :
          /\ npc[t] # "none" <=>
                 t \in ToSet(rq) \cup ToSet(sl) \cup ToSet(zs) \cup C
          /\ npc[t] = "zombie" <=> t \in ToSet(zs)

Current == IF curthread = NoThread THEN {} ELSE {curthread}
Alive(npc) == {t \in Threads : npc[t] \notin {"none", "zombie"}}

(* Only a thread that was preempted has a 1 saved for it, except the thread *)
(* on whose stack the processor is: its value is out of date.               *)
PcbInv ==
    \A t \in Threads \ {stack} : pcb_ininterrupt[t] = 1 => pc[t] = "preempted"

CpuInv == StackAllocated /\ NotInInterrupt /\ PcbInv

(* A thread in the loop of P or clocksleep knows what it waits for. *)
WaitInv ==
    \A t \in Threads : /\ pc[t] = "P" => t_sleepaddr[t] \in Sems
                       /\ pc[t] = "clock" => num_secs[t] > 0

CountInv == IsFiniteSet(Alive(pc)) /\ numthreads = Cardinality(Alive(pc))

(* The array of sleepers has room for all threads once it has been made. *)
RoomInv == smax >= IF smax > 0 THEN numthreads ELSE numthreads - 1

PlaceInv == IF halted THEN curthread # NoThread /\ pc[curthread] = "run"
            ELSE Located(runqueue, sleepers, zombies, Current, pc)

IInv == /\ TypeOK /\ CpuInv /\ WaitInv /\ CountInv /\ RoomInv /\ PlaceInv
        /\ NoLostWakeup

------------------------------------------------------------------------------
(* How the operations move threads between the lists.                       *)

(* A thread moves on without changing places. *)
LEMMA LocatedPc ==
    ASSUME NEW rq, NEW sl, NEW zs, NEW C, NEW npc, NEW new,
           Located(rq, sl, zs, C, npc),
           \A t \in Threads : /\ new[t] = "none" <=> npc[t] = "none"
                              /\ new[t] = "zombie" <=> npc[t] = "zombie"
    PROVE  Located(rq, sl, zs, C, new)
BY DEF Located

(* scheduler() takes the head of the queue. *)
LEMMA LocatedNext ==
    ASSUME NEW rq \in Seq(Threads), NEW sl, NEW zs, NEW npc,
           rq # <<>>, Located(rq, sl, zs, {}, npc)
    PROVE  /\ Head(rq) \in Threads /\ Tail(rq) \in Seq(Threads)
           /\ Head(rq) \in ToSet(rq)
           /\ Located(Tail(rq), sl, zs, {Head(rq)}, npc)
<1>1. /\ Head(rq) \in ToSet(rq) /\ Tail(rq) \in Seq(Threads)
      /\ ToSet(rq) = {Head(rq)} \cup ToSet(Tail(rq))
      /\ IsInjective(Tail(rq)) /\ ToSet(Tail(rq)) = ToSet(rq) \ {Head(rq)}
  BY ToSetTail DEF Located
<1>2. Head(rq) \in Threads
  BY <1>1, ToSetIs
<1> QED BY <1>1, <1>2 DEF Located

(* exorcise. *)
LEMMA LocatedExorcise ==
    ASSUME NEW rq, NEW sl, NEW zs, NEW C, NEW npc,
           Located(rq, sl, zs, C, npc)
    PROVE  Located(rq, sl, <<>>, C,
                   [t \in Threads |-> IF t \in ToSet(zs) THEN "none" ELSE npc[t]])
<1> DEFINE new == [t \in Threads |-> IF t \in ToSet(zs) THEN "none" ELSE npc[t]]
<1>1. \A t \in Threads : new[t] = IF t \in ToSet(zs) THEN "none" ELSE npc[t]
  OBVIOUS
<1>2. ToSet(<<>>) = {} /\ IsInjective(<<>>)
  BY ToSetEmpty DEF IsInjective
<1> HIDE DEF new
<1>3. Located(rq, sl, <<>>, C, new)
  BY <1>1, <1>2 DEF Located
<1> QED BY <1>3 DEF new

(* make_runnable of the running thread. *)
LEMMA LocatedReady ==
    ASSUME NEW rq \in Seq(Threads), NEW sl, NEW zs, NEW npc, NEW t \in Threads,
           Located(rq, sl, zs, {t}, npc)
    PROVE  Located(Append(rq, t), sl, zs, {}, npc)
<1>1. ToSet(Append(rq, t)) = ToSet(rq) \cup {t} /\ IsInjective(Append(rq, t))
  BY ToSetAppend, InjAppend DEF Located
<1> QED BY <1>1 DEF Located

(* The running thread goes to sleep. *)
LEMMA LocatedSleep ==
    ASSUME NEW rq, NEW sl \in Seq(Threads), NEW zs, NEW npc, NEW t \in Threads,
           Located(rq, sl, zs, {t}, npc)
    PROVE  Located(rq, Append(sl, t), zs, {}, npc)
<1>1. ToSet(Append(sl, t)) = ToSet(sl) \cup {t} /\ IsInjective(Append(sl, t))
  BY ToSetAppend, InjAppend DEF Located
<1> QED BY <1>1 DEF Located

(* The running thread exits. *)
LEMMA LocatedExit ==
    ASSUME NEW rq, NEW sl, NEW zs \in Seq(Threads), NEW npc \in [Threads -> PCs],
           NEW t \in Threads, Located(rq, sl, zs, {t}, npc)
    PROVE  Located(rq, sl, Append(zs, t), {}, [npc EXCEPT ![t] = "zombie"])
<1> DEFINE new == [npc EXCEPT ![t] = "zombie"]
<1>1. ToSet(Append(zs, t)) = ToSet(zs) \cup {t} /\ IsInjective(Append(zs, t))
  BY ToSetAppend, InjAppend DEF Located
<1>2. \A u \in Threads : new[u] = IF u = t THEN "zombie" ELSE npc[u]
  OBVIOUS
<1> HIDE DEF new
<1>3. Located(rq, sl, Append(zs, t), {}, new)
  BY <1>1, <1>2 DEF Located
<1> QED BY <1>3 DEF new

(* thread_wakeup of the threads in A. *)
LEMMA LocatedWakeup ==
    ASSUME NEW rq \in Seq(Threads), NEW sl \in Seq(Threads), NEW zs, NEW C,
           NEW npc, NEW A, Located(rq, sl, zs, C, npc)
    PROVE  Located(rq \o Keep(sl, A), Keep(sl, Threads \ A), zs, C, npc)
<1>1. /\ ToSet(sl) \in SUBSET Threads
      /\ Keep(sl, A) \in Seq(Threads)
      /\ ToSet(Keep(sl, A)) = ToSet(sl) \cap A
      /\ IsInjective(Keep(sl, A))
      /\ ToSet(Keep(sl, Threads \ A)) = ToSet(sl) \cap (Threads \ A)
      /\ IsInjective(Keep(sl, Threads \ A))
  BY KeepFacts, ToSetIs DEF Located
<1>2. /\ ToSet(rq \o Keep(sl, A)) = ToSet(rq) \cup (ToSet(sl) \cap A)
      /\ IsInjective(rq \o Keep(sl, A))
  <2>1. ToSet(rq) \cap ToSet(Keep(sl, A)) = {} /\ IsInjective(rq)
    BY <1>1 DEF Located
  <2> QED BY <1>1, <2>1, ToSetConcat, InjConcat
<1> QED BY <1>1, <1>2 DEF Located

(* thread_fork. *)
LEMMA LocatedFork ==
    ASSUME NEW rq \in Seq(Threads), NEW sl, NEW zs, NEW C,
           NEW npc \in [Threads -> PCs], NEW t \in Threads,
           Located(rq, sl, zs, C, npc), npc[t] = "none"
    PROVE  Located(Append(rq, t), sl, zs, C, [npc EXCEPT ![t] = "new"])
<1> DEFINE new == [npc EXCEPT ![t] = "new"]
<1>1. t \notin ToSet(rq) \cup ToSet(sl) \cup ToSet(zs) \cup C
  BY DEF Located
<1>2. ToSet(Append(rq, t)) = ToSet(rq) \cup {t} /\ IsInjective(Append(rq, t))
  BY <1>1, ToSetAppend, InjAppend DEF Located
<1>3. \A u \in Threads : new[u] = IF u = t THEN "new" ELSE npc[u]
  OBVIOUS
<1> HIDE DEF new
<1>4. Located(Append(rq, t), sl, zs, C, new)
  BY <1>1, <1>2, <1>3 DEF Located
<1> QED BY <1>4 DEF new

------------------------------------------------------------------------------
(* mi_switch.                                                               *)

(* What holds after a switch, with sl asleep and the threads at npc before  *)
(* the next thread goes on.                                                 *)
Switched(rq, sl, npc) ==
    /\ curthread' \in Threads \cup {NoThread} /\ stack' \in Threads
    /\ runqueue' \in Seq(Threads) /\ Len(runqueue') <= Len(rq)
    /\ zombies' \in Seq(Threads) /\ zmax' \in Nat /\ Len(zombies') <= zmax'
    /\ pc' \in [Threads -> PCs]
    /\ in_interrupt' \in {0, 1} /\ pcb_ininterrupt' \in [Threads -> {0, 1}]
    /\ pc'[stack'] # "none" /\ curthread' \in {stack', NoThread}
    /\ in_interrupt' = 1 => curthread' # NoThread /\ pc'[curthread'] = "preempted"
    /\ \A t \in Threads \ {stack'} :
          pcb_ininterrupt'[t] = 1 => pc'[t] = "preempted"
    /\ Located(runqueue', sl, zombies',
               IF curthread' = NoThread THEN {} ELSE {curthread'}, pc')
    /\ \A t \in Threads :
          /\ pc'[t] \in {"none", "zombie"} <=> npc[t] \in {"none", "zombie"}
          /\ pc'[t] \in {"P", "clock"} => pc'[t] = npc[t]

(* What a switch from cur, which is on its list, starts with. *)
CanSwitch(cur, rq, sl, zs, zm, npc, i) ==
    /\ cur \in Threads /\ rq \in Seq(Threads) /\ zs \in Seq(Threads)
    /\ zm \in Nat /\ Len(zs) <= zm /\ npc \in [Threads -> PCs]
    /\ i \in {0, 1}
    /\ i = 1 => npc[cur] = "preempted"
    /\ pcb_ininterrupt \in [Threads -> {0, 1}]
    /\ \A t \in Threads \ {cur} : pcb_ininterrupt[t] = 1 => npc[t] = "preempted"
    /\ Located(rq, sl, zs, {}, npc)

(* Clearing an array leaves it with some size. *)
LEMMA ArrayClearFacts ==
    ASSUME NEW m \in Nat PROVE ArrayClear(m) \in Nat
BY DEF ArrayClear

(* The part of mi_switch that finds somebody to run. *)
LEMMA RunNextFacts ==
    ASSUME NEW cur, NEW rq, NEW sl, NEW zs, NEW zm, NEW npc, NEW i,
           CanSwitch(cur, rq, sl, zs, zm, npc, i), rq # <<>>,
           RunNext(cur, rq, zs, zm, npc, i)
    PROVE  Switched(rq, sl, npc)
<1> DEFINE next == Head(rq)
<1> USE DEF CanSwitch
<1>1. /\ next \in Threads /\ Tail(rq) \in Seq(Threads)
      /\ next \in ToSet(rq) /\ Located(Tail(rq), sl, zs, {next}, npc)
  BY LocatedNext
<1>2. Len(Tail(rq)) <= Len(rq)
  <2>1. Len(rq) \in Nat /\ Len(Tail(rq)) = Len(rq) - 1
    BY HeadTailProperties, LenProperties, EmptySeq
  <2> QED BY <2>1
<1>3. npc[next] # "none" /\ npc[next] # "zombie" /\ next \notin ToSet(zs)
  BY <1>1 DEF Located
<1>4. curthread' = next /\ stack' = next /\ runqueue' = Tail(rq)
  BY DEF RunNext
<1>5. next # NoThread
  BY <1>1, NameAssumption
<1>6. /\ in_interrupt' \in {0, 1} /\ pcb_ininterrupt' \in [Threads -> {0, 1}]
      /\ in_interrupt' = 1 => npc[next] = "preempted"
      /\ \A t \in Threads \ {next} :
            pcb_ininterrupt'[t] = 1 => npc[t] = "preempted"
  <2>1. MdSwitch(cur, next, i)
    BY DEF RunNext
  <2>2. CASE cur = next
    <3>1. in_interrupt' = i /\ pcb_ininterrupt' = pcb_ininterrupt
      BY <2>1, <2>2 DEF MdSwitch
    <3> HIDE DEF next
    <3> QED BY <2>2, <3>1
  <2>3. CASE cur # next
    <3>1. /\ pcb_ininterrupt' = [pcb_ininterrupt EXCEPT ![cur] = i]
          /\ in_interrupt' = pcb_ininterrupt[next]
      BY <2>1, <2>3 DEF MdSwitch
    <3> HIDE DEF next
    <3> QED BY <1>1, <2>3, <3>1
  <2> QED BY <2>2, <2>3
<1>7. /\ zombies' \in Seq(Threads) /\ zmax' \in Nat /\ Len(zombies') <= zmax'
      /\ pc' \in [Threads -> PCs]
      /\ Located(Tail(rq), sl, zombies', {next}, pc')
      /\ pc'[next] # "none"
      /\ \A t \in Threads :
            /\ pc'[t] \in {"none", "zombie"} <=> npc[t] \in {"none", "zombie"}
            /\ pc'[t] \in {"P", "clock"} => pc'[t] = npc[t]
            /\ npc[t] = "preempted" => pc'[t] = "preempted"
  <2>1. CASE npc[next] = "new"
    <3>1. zombies' = zs /\ zmax' = zm /\ pc' = [npc EXCEPT ![next] = "run"]
      BY <2>1 DEF RunNext
    <3> HIDE DEF next
    <3>2. /\ pc' \in [Threads -> PCs]
          /\ \A t \in Threads : pc'[t] = IF t = next THEN "run" ELSE npc[t]
      BY <1>1, <3>1 DEF PCs
    <3>3. \A t \in Threads : /\ pc'[t] = "none" <=> npc[t] = "none"
                             /\ pc'[t] = "zombie" <=> npc[t] = "zombie"
      BY <1>3, <3>2
    <3>4. Located(Tail(rq), sl, zombies', {next}, pc')
      BY <1>1, <3>1, <3>3, LocatedPc
    <3> QED BY <1>1, <2>1, <3>1, <3>2, <3>3, <3>4
  <2>2. CASE npc[next] # "new"
    <3>1. /\ zombies' = <<>> /\ zmax' = ArrayClear(zm)
          /\ pc' = [t \in Threads |-> IF t \in ToSet(zs) THEN "none" ELSE npc[t]]
      BY <2>2 DEF RunNext, Exorcise
    <3>2. Located(Tail(rq), sl, zombies', {next}, pc')
      BY <1>1, <3>1, LocatedExorcise
    <3>3. \A t \in Threads : t \in ToSet(zs) <=> npc[t] = "zombie"
      BY DEF Located
    <3>4. /\ pc' \in [Threads -> PCs]
          /\ \A t \in Threads : pc'[t] = IF npc[t] = "zombie" THEN "none" ELSE npc[t]
      BY <3>1, <3>3 DEF PCs
    <3>5. zombies' \in Seq(Threads) /\ zmax' \in Nat /\ Len(zombies') <= zmax'
      BY <3>1, EmptySeq, ArrayClearFacts
    <3> HIDE DEF next
    <3> QED BY <1>1, <1>3, <3>2, <3>4, <3>5
  <2> QED BY <2>1, <2>2
<1> HIDE DEF next
<1> QED BY <1>1, <1>2, <1>3, <1>4, <1>5, <1>6, <1>7 DEF Switched

(* mi_switch as a whole: into the next thread, or into the idle loop. *)
LEMMA MiSwitchFacts ==
    ASSUME NEW cur, NEW rq, NEW sl, NEW zs, NEW zm, NEW npc, NEW i,
           CanSwitch(cur, rq, sl, zs, zm, npc, i),
           npc[cur] # "none", rq = <<>> => i = 0,
           MiSwitch(cur, rq, zs, zm, npc, i)
    PROVE  Switched(rq, sl, npc)
<1>1. CASE rq # <<>>
  BY <1>1, RunNextFacts DEF MiSwitch
<1>2. CASE rq = <<>>
  <2>1. /\ curthread' = NoThread /\ stack' = cur
        /\ runqueue' = rq /\ zombies' = zs /\ zmax' = zm /\ pc' = npc
        /\ in_interrupt' = i /\ pcb_ininterrupt' = pcb_ininterrupt
    BY <1>2 DEF MiSwitch
  <2>2. Len(rq) \in Nat
    BY LenProperties DEF CanSwitch
  <2> QED BY <1>2, <2>1, <2>2 DEF CanSwitch, Switched
<1> QED BY <1>1, <1>2

------------------------------------------------------------------------------
(* A switch preserves the invariant, given what the operation that switches *)
(* does to the rest of the state.                                           *)

Rest ==
    /\ numthreads \in Nat
    /\ t_sleepaddr \in [Threads -> Sems \cup {Lbolt, Null}]
    /\ num_secs \in [Threads -> 0 .. MaxSecs]
    /\ count \in [Sems -> Nat]
    /\ lbolt_counter \in 0 .. HZ - 1
    /\ qsize \in Nat /\ smax \in Nat
    /\ sleepers \in Seq(Threads) /\ Len(sleepers) <= smax
    /\ halted = FALSE
    /\ RoomInv /\ NoLostWakeup

(* The invariant, put together again after a switch. *)
LEMMA AfterSwitch ==
    ASSUME NEW rq \in Seq(Threads), NEW npc \in [Threads -> PCs],
           Switched(rq, sleepers', npc), Rest', Len(rq) < qsize',
           IsFiniteSet(Alive(npc)), numthreads' = Cardinality(Alive(npc)),
           \A t \in Threads : /\ npc[t] = "P" => t_sleepaddr'[t] \in Sems
                              /\ npc[t] = "clock" => num_secs'[t] > 0
    PROVE  IInv'
<1>1. TypeOK'
  <2>1. Len(runqueue') <= Len(rq) /\ runqueue' \in Seq(Threads)
    BY DEF Switched
  <2>2. Len(runqueue') \in Nat /\ Len(rq) \in Nat /\ qsize' \in Nat
    BY <2>1, LenProperties DEF Rest
  <2>3. Len(runqueue') < qsize'
    BY <2>1, <2>2
  <2> QED BY <2>1, <2>3 DEF Switched, Rest, TypeOK
<1>2. CpuInv'
  BY DEF Switched, CpuInv, StackAllocated, NotInInterrupt, PcbInv
<1>3. WaitInv'
  BY DEF Switched, WaitInv
<1>4. CountInv'
  <2>1. Alive(pc') = Alive(npc)
    BY DEF Switched, Alive
  <2> QED BY <2>1 DEF CountInv
<1>5. PlaceInv'
  BY DEF Switched, Rest, PlaceInv, Current
<1> QED BY <1>1, <1>2, <1>3, <1>4, <1>5 DEF Rest, IInv

(* Where the running thread is. *)
LEMMA CurrentFacts ==
    ASSUME IInv, ~halted, NEW t \in Threads, curthread = t
    PROVE  /\ stack = t /\ Located(runqueue, sleepers, zombies, {t}, pc)
           /\ pc[t] \notin {"none", "zombie"} /\ t # NoThread
           /\ pc[t] # "preempted" => in_interrupt = 0
           /\ t \notin ToSet(sleepers)
<1>1. t # NoThread
  BY NameAssumption
<1>2. stack = t /\ (pc[t] # "preempted" => in_interrupt = 0)
  BY <1>1 DEF IInv, TypeOK, CpuInv, StackAllocated, NotInInterrupt
<1>3. Located(runqueue, sleepers, zombies, {t}, pc)
  BY <1>1 DEF IInv, PlaceInv, Current
<1>4. pc[t] \notin {"none", "zombie"} /\ t \notin ToSet(sleepers)
  BY <1>3 DEF Located
<1> QED BY <1>1, <1>2, <1>3, <1>4

------------------------------------------------------------------------------
(* thread_sleep, called by the running thread t, which goes on at npc[t].   *)
LEMMA SleepFacts ==
    ASSUME IInv, ~halted, NEW t \in Threads, curthread = t, pc[t] # "preempted",
           NEW addr \in Sems \cup {Lbolt}, NEW npc \in [Threads -> PCs],
           \A u \in Threads \ {t} : npc[u] = pc[u],
           \/ npc[t] = "P" /\ addr \in Sems
           \/ npc[t] = "clock" /\ num_secs'[t] > 0,
           addr \in Sems => count[addr] = 0,
           num_secs' \in [Threads -> 0 .. MaxSecs],
           \A u \in Threads \ {t} : num_secs'[u] = num_secs[u],
           ThreadSleep(t, addr, npc),
           UNCHANGED <<numthreads, count, lbolt_counter, halted>>
    PROVE  IInv' /\ (smax > 0 => smax' = smax)
<1>1. /\ stack = t /\ Located(runqueue, sleepers, zombies, {t}, pc)
      /\ pc[t] \notin {"none", "zombie"} /\ in_interrupt = 0
      /\ t \notin ToSet(sleepers)
  BY CurrentFacts
<1>2. /\ runqueue \in Seq(Threads) /\ sleepers \in Seq(Threads)
      /\ zombies \in Seq(Threads) /\ zmax \in Nat /\ Len(zombies) <= zmax
      /\ smax \in Nat /\ Len(sleepers) <= smax /\ qsize \in Nat
      /\ Len(runqueue) < qsize /\ numthreads \in Nat
      /\ pc \in [Threads -> PCs]
      /\ t_sleepaddr \in [Threads -> Sems \cup {Lbolt, Null}]
      /\ count \in [Sems -> Nat] /\ lbolt_counter \in 0 .. HZ - 1
  BY DEF IInv, TypeOK
<1>3. /\ t_sleepaddr' = [t_sleepaddr EXCEPT ![t] = addr]
      /\ sleepers' = Append(sleepers, t)
      /\ smax' = IF Len(sleepers) + 1 > smax
                 THEN Preallocate(smax, Len(sleepers) + 1) ELSE smax
      /\ MiSwitch(t, runqueue, zombies, zmax, npc, 0)
      /\ qsize' = qsize
  BY <1>1 DEF ThreadSleep
<1>4. Located(runqueue, Append(sleepers, t), zombies, {}, npc)
  <2>1. \A u \in Threads : /\ npc[u] = "none" <=> pc[u] = "none"
                           /\ npc[u] = "zombie" <=> pc[u] = "zombie"
    BY <1>1
  <2>2. Located(runqueue, Append(sleepers, t), zombies, {}, pc)
    BY <1>1, <1>2, LocatedSleep
  <2> QED BY <2>1, <2>2, LocatedPc
<1>5. Switched(runqueue, sleepers', npc)
  <2>1. Located(runqueue, sleepers', zombies, {}, npc)
    BY <1>3, <1>4
  <2>2. CanSwitch(t, runqueue, sleepers', zombies, zmax, npc, 0)
    <3>1. \A u \in Threads \ {t} : pcb_ininterrupt[u] = 1 => npc[u] = "preempted"
      BY <1>1 DEF IInv, CpuInv, PcbInv
    <3>2. pcb_ininterrupt \in [Threads -> {0, 1}]
      BY DEF IInv, TypeOK
    <3> QED BY <1>2, <2>1, <3>1, <3>2 DEF CanSwitch
  <2>3. npc[t] # "none"
    OBVIOUS
  <2> QED BY <1>3, <2>2, <2>3, MiSwitchFacts
<1>6. Alive(npc) = Alive(pc)
  BY <1>1 DEF Alive
<1>7. sleepers' \in Seq(Threads) /\ Len(sleepers') = Len(sleepers) + 1
  BY <1>2, <1>3, AppendProperties
<1>8. Len(sleepers) + 1 <= numthreads
  <2>1. IsInjective(sleepers')
    BY <1>1, <1>2, <1>3, InjAppend DEF Located
  <2>2. Cardinality(ToSet(sleepers')) = Len(sleepers')
    BY <1>7, <2>1, InjLength
  <2>3. ToSet(sleepers') \in SUBSET Alive(npc)
    <3>1. ToSet(sleepers') \in SUBSET Threads
      BY <1>7, ToSetIs
    <3>2. \A u \in ToSet(sleepers') : npc[u] # "none" /\ npc[u] # "zombie"
      BY <1>3, <1>4, <3>1 DEF Located
    <3> QED BY <3>1, <3>2 DEF Alive
  <2>4. IsFiniteSet(Alive(pc)) /\ numthreads = Cardinality(Alive(pc))
    BY DEF IInv, CountInv
  <2>5. Cardinality(ToSet(sleepers')) <= Cardinality(Alive(pc))
    BY <1>6, <2>3, <2>4, FS_Subset
  <2> QED BY <1>7, <2>2, <2>4, <2>5
<1>9. /\ smax' \in Nat /\ Len(sleepers') <= smax' /\ RoomInv'
      /\ smax > 0 => smax' = smax
  <2>1. Len(sleepers) \in Nat
    BY <1>2, LenProperties
  <2>2. CASE smax > 0
    <3>1. smax >= numthreads
      BY <2>2 DEF IInv, RoomInv
    <3>2. smax' = smax
      BY <1>2, <1>3, <1>8, <2>1, <3>1
    <3> QED BY <1>2, <1>7, <1>8, <2>1, <2>2, <3>1, <3>2 DEF RoomInv
  <2>3. CASE ~(smax > 0)
    <3>1. smax = 0 /\ numthreads - 1 <= 0
      BY <1>2, <2>3 DEF IInv, RoomInv
    <3>2. smax' = Preallocate(0, Len(sleepers) + 1)
      BY <1>3, <2>1, <3>1
    <3>3. smax' \in Nat /\ smax' >= Len(sleepers) + 1
      BY <2>1, <3>2, PreallocateFacts
    <3> QED BY <1>2, <1>7, <2>1, <3>1, <3>3 DEF RoomInv
  <2> QED BY <2>2, <2>3
<1>10. NoLostWakeup'
  <2>1. ToSet(sleepers') = ToSet(sleepers) \cup {t}
    BY <1>2, <1>3, ToSetAppend
  <2>2. ASSUME NEW u \in ToSet(sleepers'), t_sleepaddr'[u] \in Sems
        PROVE  count'[t_sleepaddr'[u]] = 0
    <3>1. CASE u = t
      <4>1. t_sleepaddr'[u] = addr
        BY <1>2, <1>3, <3>1
      <4> QED BY <2>2, <4>1
    <3>2. CASE u # t
      <4>1. u \in ToSet(sleepers) /\ t_sleepaddr'[u] = t_sleepaddr[u]
        BY <1>2, <1>3, <2>1, <3>2
      <4> QED BY <2>2, <4>1 DEF IInv, NoLostWakeup
    <3> QED BY <3>1, <3>2
  <2> QED BY <2>2 DEF NoLostWakeup
<1>11. Rest'
  <2>1. t_sleepaddr' \in [Threads -> Sems \cup {Lbolt, Null}]
    BY <1>2, <1>3
  <2> QED BY <1>2, <1>3, <1>7, <1>9, <1>10, <2>1 DEF Rest
<1>12. \A u \in Threads : /\ npc[u] = "P" => t_sleepaddr'[u] \in Sems
                          /\ npc[u] = "clock" => num_secs'[u] > 0
  <2>1. ASSUME NEW u \in Threads \ {t}
        PROVE  /\ npc[u] = "P" => t_sleepaddr'[u] \in Sems
               /\ npc[u] = "clock" => num_secs'[u] > 0
    BY <1>2, <1>3, <2>1 DEF IInv, WaitInv
  <2>2. t_sleepaddr'[t] = addr
    BY <1>2, <1>3
  <2> QED BY <2>1, <2>2
<1>13. IInv'
  <2>1. IsFiniteSet(Alive(npc)) /\ numthreads' = Cardinality(Alive(npc))
    BY <1>6 DEF IInv, CountInv
  <2>2. Len(runqueue) < qsize'
    BY <1>2, <1>3
  <2> QED BY <1>2, <1>5, <1>11, <1>12, <2>1, <2>2, AfterSwitch
<1> QED BY <1>9, <1>13

------------------------------------------------------------------------------
(* A step that switches to make the running thread t ready.                 *)
LEMMA ReadyFacts ==
    ASSUME IInv, ~halted, NEW t \in Threads, curthread = t,
           NEW rq \in Seq(Threads), NEW npc \in [Threads -> PCs], NEW i \in {0, 1},
           IF i = 1 THEN npc[t] = "preempted" ELSE npc[t] = "run",
           \A u \in Threads \ {t} : npc[u] = pc[u],
           Located(rq, sleepers', zombies, {t}, pc),
           SwitchReady(t, rq, npc, i),
           sleepers' \in Seq(Threads), Len(sleepers') <= smax,
           NoLostWakeup', lbolt_counter' \in 0 .. HZ - 1,
           UNCHANGED <<smax, numthreads, t_sleepaddr, num_secs, count, halted>>
    PROVE  IInv'
<1> DEFINE q == Append(rq, t)
<1>1. stack = t /\ pc[t] \notin {"none", "zombie"}
  BY CurrentFacts
<1>2. /\ zombies \in Seq(Threads) /\ zmax \in Nat /\ Len(zombies) <= zmax
      /\ smax \in Nat /\ qsize \in Nat /\ Len(runqueue) < qsize
      /\ numthreads \in Nat /\ num_secs \in [Threads -> 0 .. MaxSecs]
      /\ pc \in [Threads -> PCs] /\ pcb_ininterrupt \in [Threads -> {0, 1}]
      /\ t_sleepaddr \in [Threads -> Sems \cup {Lbolt, Null}]
      /\ count \in [Sems -> Nat] /\ runqueue \in Seq(Threads)
  BY DEF IInv, TypeOK
<1>3. /\ q \in Seq(Threads) /\ Len(q) = Len(rq) + 1 /\ q # <<>>
      /\ Len(rq) \in Nat
  BY AppendProperties, LenProperties
<1>4. qsize' \in Nat /\ Len(q) < qsize'
  <2>1. qsize' = QRoom(qsize, Len(rq) + 1)
    BY DEF SwitchReady
  <2>2. qsize \in Nat \ {0} /\ Len(rq) + 1 \in Nat
    <3>1. Len(runqueue) \in Nat
      BY <1>2, LenProperties
    <3> QED BY <1>2, <1>3, <3>1
  <2> HIDE DEF q
  <2>3. QRoom(qsize, Len(rq) + 1) \in Nat \ {0}
        /\ QRoom(qsize, Len(rq) + 1) > Len(rq) + 1
    BY <2>2, QRoomFacts
  <2> QED BY <1>3, <2>1, <2>3
<1>5. Located(q, sleepers', zombies, {}, npc)
  <2>1. Located(q, sleepers', zombies, {}, pc)
    BY LocatedReady
  <2>2. \A u \in Threads : /\ npc[u] = "none" <=> pc[u] = "none"
                           /\ npc[u] = "zombie" <=> pc[u] = "zombie"
    BY <1>1
  <2> QED BY <2>1, <2>2, LocatedPc
<1>6. MiSwitch(t, q, zombies, zmax, npc, i)
  BY DEF SwitchReady
<1> HIDE DEF q
<1>7. CanSwitch(t, q, sleepers', zombies, zmax, npc, i)
  <2>1. \A u \in Threads \ {t} : pcb_ininterrupt[u] = 1 => npc[u] = "preempted"
    BY <1>1 DEF IInv, CpuInv, PcbInv
  <2> QED BY <1>2, <1>3, <1>5, <2>1 DEF CanSwitch
<1>8. Switched(q, sleepers', npc)
  BY <1>3, <1>6, <1>7, MiSwitchFacts
<1>9. Alive(npc) = Alive(pc)
  BY <1>1 DEF Alive
<1>10. Rest'
  BY <1>2, <1>4 DEF Rest, IInv, RoomInv
<1>11. \A u \in Threads : /\ npc[u] = "P" => t_sleepaddr'[u] \in Sems
                          /\ npc[u] = "clock" => num_secs'[u] > 0
  BY DEF IInv, WaitInv
<1>12. IsFiniteSet(Alive(npc)) /\ numthreads' = Cardinality(Alive(npc))
  BY <1>9 DEF IInv, CountInv
<1> QED BY <1>3, <1>4, <1>8, <1>10, <1>11, <1>12, AfterSwitch

(* A wakeup of the threads in A leaves the others asleep.                   *)
LEMMA WakeupFacts ==
    ASSUME IInv, NEW A
    PROVE  /\ runqueue \o Keep(sleepers, A) \in Seq(Threads)
           /\ Keep(sleepers, Threads \ A) \in Seq(Threads)
           /\ Len(Keep(sleepers, Threads \ A)) <= smax
           /\ ToSet(Keep(sleepers, Threads \ A)) = ToSet(sleepers) \ A
           /\ \A C : Located(runqueue, sleepers, zombies, C, pc) =>
                  Located(runqueue \o Keep(sleepers, A),
                          Keep(sleepers, Threads \ A), zombies, C, pc)
<1>1. /\ runqueue \in Seq(Threads) /\ sleepers \in Seq(Threads)
      /\ Len(sleepers) <= smax /\ smax \in Nat
  BY DEF IInv, TypeOK
<1>2. /\ Keep(sleepers, A) \in Seq(Threads)
      /\ Keep(sleepers, Threads \ A) \in Seq(Threads)
      /\ Len(Keep(sleepers, Threads \ A)) <= Len(sleepers)
      /\ ToSet(Keep(sleepers, Threads \ A)) = ToSet(sleepers) \cap (Threads \ A)
  BY <1>1, KeepFacts
<1>3. Len(sleepers) \in Nat /\ Len(Keep(sleepers, Threads \ A)) \in Nat
      /\ ToSet(sleepers) \in SUBSET Threads
  BY <1>1, <1>2, LenProperties, ToSetIs
<1>4. runqueue \o Keep(sleepers, A) \in Seq(Threads)
  BY <1>1, <1>2, ConcatProperties
<1>5. ToSet(Keep(sleepers, Threads \ A)) = ToSet(sleepers) \ A
  BY <1>2, <1>3
<1>6. Len(Keep(sleepers, Threads \ A)) <= smax
  BY <1>1, <1>2, <1>3
<1>7. ASSUME NEW C, Located(runqueue, sleepers, zombies, C, pc)
      PROVE  Located(runqueue \o Keep(sleepers, A),
                     Keep(sleepers, Threads \ A), zombies, C, pc)
  BY <1>1, <1>7, LocatedWakeup
<1> QED BY <1>2, <1>4, <1>5, <1>6, <1>7

(* hardclock, with or without a wakeup. *)
LEMMA HardclockFacts ==
    ASSUME IInv, Hardclock, NEW C, Located(runqueue, sleepers, zombies, C, pc)
    PROVE  /\ runqueue \o WokenByTick \in Seq(Threads)
           /\ sleepers' \in Seq(Threads) /\ Len(sleepers') <= smax
           /\ ToSet(sleepers') \in SUBSET ToSet(sleepers)
           /\ Located(runqueue \o WokenByTick, sleepers', zombies, C, pc)
           /\ lbolt_counter' \in 0 .. HZ - 1
<1>1. lbolt_counter' \in 0 .. HZ - 1
  BY SizeAssumption DEF IInv, TypeOK, Hardclock, Second
<1>2. CASE Second
  <2>1. /\ WokenByTick = Keep(sleepers, SleepersOn(Lbolt))
        /\ sleepers' = Keep(sleepers, Threads \ SleepersOn(Lbolt))
    BY <1>2 DEF WokenByTick, Woken, Hardclock, Asleep
  <2> QED BY <1>1, <2>1, WakeupFacts
<1>3. CASE ~Second
  <2>1. WokenByTick = <<>> /\ sleepers' = sleepers
    BY <1>3 DEF WokenByTick, Hardclock
  <2>2. runqueue \in Seq(Threads) /\ sleepers \in Seq(Threads)
        /\ Len(sleepers) <= smax
    BY DEF IInv, TypeOK
  <2>3. runqueue \o WokenByTick = runqueue
    BY <2>1, <2>2, ConcatEmptySeq
  <2> QED BY <1>1, <2>1, <2>2, <2>3
<1> QED BY <1>2, <1>3

(* Nobody new is asleep, and nothing was counted. *)
LEMMA StillAsleep ==
    ASSUME NoLostWakeup, ToSet(sleepers') \in SUBSET ToSet(sleepers),
           UNCHANGED <<t_sleepaddr, count>>
    PROVE  NoLostWakeup'
<1>1. t_sleepaddr' = t_sleepaddr /\ count' = count
  OBVIOUS
<1> QED BY <1>1 DEF NoLostWakeup

------------------------------------------------------------------------------
(* The actions, one by one.                                                 *)

(* thread_yield. *)
LEMMA YieldPreserves ==
    ASSUME IInv, NEW t \in Threads, ThreadYield(t) PROVE IInv'
<1>1. /\ curthread = t /\ pc[t] = "run" /\ ~halted
      /\ SwitchReady(t, runqueue, pc, in_interrupt)
      /\ UNCHANGED <<sleepers, smax, numthreads, t_sleepaddr, num_secs, count,
                     lbolt_counter, halted>>
  BY DEF ThreadYield, Running
<1>2. in_interrupt = 0 /\ Located(runqueue, sleepers', zombies, {t}, pc)
  BY <1>1, CurrentFacts
<1>3. /\ runqueue \in Seq(Threads) /\ pc \in [Threads -> PCs]
      /\ sleepers' \in Seq(Threads) /\ Len(sleepers') <= smax
      /\ lbolt_counter' \in 0 .. HZ - 1
  BY <1>1 DEF IInv, TypeOK
<1>4. NoLostWakeup'
  BY <1>1, StillAsleep DEF IInv
<1> QED BY <1>1, <1>2, <1>3, <1>4, ReadyFacts

(* A clock interrupt of a running thread. *)
LEMMA TickPreserves ==
    ASSUME IInv, NEW t \in Threads, Tick(t) PROVE IInv'
<1> DEFINE npc == [pc EXCEPT ![t] = "preempted"]
           rq == runqueue \o WokenByTick
<1>1. /\ curthread = t /\ pc[t] = "run" /\ ~halted
      /\ Hardclock /\ SwitchReady(t, rq, npc, 1)
      /\ UNCHANGED <<smax, numthreads, t_sleepaddr, num_secs, count, halted>>
  BY DEF Tick, Running
<1>2. Located(runqueue, sleepers, zombies, {t}, pc)
  BY <1>1, CurrentFacts
<1>3. /\ rq \in Seq(Threads)
      /\ sleepers' \in Seq(Threads) /\ Len(sleepers') <= smax
      /\ ToSet(sleepers') \in SUBSET ToSet(sleepers)
      /\ Located(rq, sleepers', zombies, {t}, pc)
      /\ lbolt_counter' \in 0 .. HZ - 1
  BY <1>1, <1>2, HardclockFacts
<1>4. NoLostWakeup'
  BY <1>1, <1>3, StillAsleep DEF IInv
<1>5. /\ npc \in [Threads -> PCs] /\ npc[t] = "preempted"
      /\ \A u \in Threads \ {t} : npc[u] = pc[u]
  BY DEF IInv, TypeOK, PCs
<1> HIDE DEF npc, rq
<1>6. 1 \in {0, 1} /\ IF 1 = 1 THEN npc[t] = "preempted" ELSE npc[t] = "run"
  BY <1>5
<1> QED BY <1>1, <1>3, <1>4, <1>5, <1>6, ReadyFacts

(* thread_exit. *)
LEMMA ExitPreserves ==
    ASSUME IInv, NEW t \in Threads, ThreadExit(t) PROVE IInv'
<1> DEFINE npc == [pc EXCEPT ![t] = "zombie"]
           zs == Append(zombies, t)
           zm == IF Len(zombies) + 1 > zmax
                 THEN Preallocate(zmax, Len(zombies) + 1) ELSE zmax
<1>1. /\ curthread = t /\ pc[t] = "run" /\ ~halted
      /\ numthreads' = numthreads - 1
      /\ MiSwitch(t, runqueue, zs, zm, npc, in_interrupt)
      /\ UNCHANGED <<sleepers, qsize, smax, t_sleepaddr, num_secs, count,
                     lbolt_counter, halted>>
  BY DEF ThreadExit, Running
<1>2. /\ runqueue \in Seq(Threads) /\ sleepers \in Seq(Threads)
      /\ zombies \in Seq(Threads) /\ zmax \in Nat /\ Len(zombies) <= zmax
      /\ smax \in Nat /\ qsize \in Nat /\ Len(runqueue) < qsize
      /\ Len(sleepers) <= smax /\ lbolt_counter \in 0 .. HZ - 1
      /\ numthreads \in Nat /\ num_secs \in [Threads -> 0 .. MaxSecs]
      /\ pc \in [Threads -> PCs] /\ pcb_ininterrupt \in [Threads -> {0, 1}]
      /\ t_sleepaddr \in [Threads -> Sems \cup {Lbolt, Null}]
      /\ count \in [Sems -> Nat]
  BY DEF IInv, TypeOK
<1>3. /\ stack = t /\ in_interrupt = 0
      /\ Located(runqueue, sleepers, zombies, {t}, pc)
  BY <1>1, CurrentFacts
<1>4. /\ npc \in [Threads -> PCs]
      /\ \A u \in Threads : npc[u] = IF u = t THEN "zombie" ELSE pc[u]
  BY <1>2 DEF PCs
<1>5. zs \in Seq(Threads) /\ Len(zs) = Len(zombies) + 1 /\ Len(zombies) \in Nat
  BY <1>2, AppendProperties, LenProperties
<1>6. zm \in Nat /\ Len(zs) <= zm
  <2>1. /\ Preallocate(zmax, Len(zombies) + 1) \in Nat
        /\ Preallocate(zmax, Len(zombies) + 1) >= Len(zombies) + 1
    <3>1. Len(zombies) + 1 \in Nat
      BY <1>5
    <3> QED BY <1>2, <3>1, PreallocateFacts
  <2> HIDE DEF zs
  <2> QED BY <1>2, <1>5, <2>1
<1>7. Located(runqueue, sleepers', zs, {}, npc)
  BY <1>1, <1>2, <1>3, LocatedExit
<1> HIDE DEF npc, zs, zm
<1>8. CanSwitch(t, runqueue, sleepers', zs, zm, npc, 0)
  <2>1. \A u \in Threads \ {t} : pcb_ininterrupt[u] = 1 => npc[u] = "preempted"
    BY <1>3, <1>4 DEF IInv, CpuInv, PcbInv
  <2> QED BY <1>2, <1>4, <1>5, <1>6, <1>7, <2>1 DEF CanSwitch
<1>9. Switched(runqueue, sleepers', npc)
  <2>1. npc[t] # "none" /\ MiSwitch(t, runqueue, zs, zm, npc, 0)
    BY <1>1, <1>3, <1>4
  <2> QED BY <1>8, <2>1, MiSwitchFacts
<1>10. /\ IsFiniteSet(Alive(npc)) /\ numthreads' = Cardinality(Alive(npc))
       /\ numthreads' \in Nat
  <2>1. Alive(npc) = Alive(pc) \ {t} /\ t \in Alive(pc)
    BY <1>1, <1>4 DEF Alive
  <2>2. IsFiniteSet(Alive(pc)) /\ numthreads = Cardinality(Alive(pc))
    BY DEF IInv, CountInv
  <2>3. IsFiniteSet(Alive(npc)) /\ Cardinality(Alive(npc)) = numthreads - 1
    BY <2>1, <2>2, FS_RemoveElement
  <2>4. Cardinality(Alive(npc)) \in Nat
    BY <2>3, FS_CardinalityType
  <2> QED BY <1>1, <2>3, <2>4
<1>11. RoomInv'
  BY <1>1, <1>2 DEF IInv, RoomInv
<1>12. NoLostWakeup'
  BY <1>1, StillAsleep DEF IInv
<1>13. Rest'
  BY <1>1, <1>2, <1>10, <1>11, <1>12 DEF Rest
<1>14. \A u \in Threads : /\ npc[u] = "P" => t_sleepaddr'[u] \in Sems
                          /\ npc[u] = "clock" => num_secs'[u] > 0
  BY <1>1, <1>4 DEF IInv, WaitInv
<1>15. Len(runqueue) < qsize'
  BY <1>1, <1>2
<1> QED BY <1>2, <1>4, <1>9, <1>10, <1>13, <1>14, <1>15, AfterSwitch

(* P, first time. *)
LEMMA PSleepPreserves ==
    ASSUME IInv, NEW t \in Threads, NEW s \in Sems, PSleep(t, s)
    PROVE  IInv' /\ (smax > 0 => smax' = smax)
<1> DEFINE npc == [pc EXCEPT ![t] = "P"]
<1>1. /\ curthread = t /\ pc[t] = "run" /\ ~halted /\ count[s] = 0
      /\ ThreadSleep(t, s, npc)
      /\ UNCHANGED <<numthreads, num_secs, count, lbolt_counter, halted>>
  BY DEF PSleep, Running
<1>2. /\ npc \in [Threads -> PCs] /\ npc[t] = "P"
      /\ \A u \in Threads \ {t} : npc[u] = pc[u]
  BY DEF IInv, TypeOK, PCs
<1>3. /\ num_secs' \in [Threads -> 0 .. MaxSecs]
      /\ \A u \in Threads \ {t} : num_secs'[u] = num_secs[u]
  BY <1>1 DEF IInv, TypeOK
<1> HIDE DEF npc
<1>4. UNCHANGED <<numthreads, count, lbolt_counter, halted>>
  BY <1>1
<1>5. s \in Sems \cup {Lbolt}
  OBVIOUS
<1> QED BY <1>1, <1>2, <1>3, <1>4, <1>5, SleepFacts

(* P, after a wakeup. *)
LEMMA PRetryPreserves ==
    ASSUME IInv, NEW t \in Threads, PRetry(t)
    PROVE  IInv' /\ (smax > 0 => smax' = smax)
<1> DEFINE s == t_sleepaddr[t]
<1>1. curthread = t /\ pc[t] = "P" /\ t # NoThread
  BY NameAssumption DEF PRetry
<1>2. ~halted /\ s \in Sems
  BY <1>1 DEF IInv, PlaceInv, WaitInv
<1>3. pc \in [Threads -> PCs] /\ num_secs \in [Threads -> 0 .. MaxSecs]
      /\ count \in [Sems -> Nat]
      /\ t_sleepaddr \in [Threads -> Sems \cup {Lbolt, Null}]
  BY DEF IInv, TypeOK
<1>4. UNCHANGED <<numthreads, num_secs, lbolt_counter, halted>>
  BY DEF PRetry
<1>5. CASE count[s] = 0
  <2>1. ThreadSleep(t, s, pc) /\ count' = count
    BY <1>5 DEF PRetry
  <2>2. /\ num_secs' \in [Threads -> 0 .. MaxSecs]
        /\ \A u \in Threads \ {t} : num_secs'[u] = num_secs[u]
    BY <1>3, <1>4
  <2>3. UNCHANGED <<numthreads, count, lbolt_counter, halted>>
    BY <1>4, <2>1
  <2>4. s \in Sems \cup {Lbolt}
    BY <1>2
  <2> HIDE DEF s
  <2> QED BY <1>1, <1>2, <1>3, <1>5, <2>1, <2>2, <2>3, <2>4, SleepFacts
<1>6. CASE count[s] # 0
  <2>1. /\ count' = [count EXCEPT ![s] = @ - 1]
        /\ t_sleepaddr' = [t_sleepaddr EXCEPT ![t] = Null]
        /\ pc' = [pc EXCEPT ![t] = "run"]
        /\ UNCHANGED <<cpu, lists>>
    BY <1>6 DEF PRetry
  <2>2. /\ curthread' = curthread /\ stack' = stack
        /\ in_interrupt' = in_interrupt /\ pcb_ininterrupt' = pcb_ininterrupt
        /\ runqueue' = runqueue /\ sleepers' = sleepers /\ zombies' = zombies
        /\ qsize' = qsize /\ smax' = smax /\ zmax' = zmax
        /\ numthreads' = numthreads /\ num_secs' = num_secs
        /\ lbolt_counter' = lbolt_counter /\ halted' = halted
    BY <1>4, <2>1 DEF cpu, lists
  <2>3. /\ stack = t /\ Located(runqueue, sleepers, zombies, {t}, pc)
        /\ in_interrupt = 0 /\ t \notin ToSet(sleepers)
    BY <1>1, <1>2, CurrentFacts
  <2>4. /\ count' \in [Sems -> Nat]
        /\ \A u \in Sems : count[u] = 0 => count'[u] = 0
    BY <1>2, <1>3, <1>6, <2>1
  <2> HIDE DEF s
  <2>5. /\ pc' \in [Threads -> PCs]
        /\ \A u \in Threads : pc'[u] = IF u = t THEN "run" ELSE pc[u]
        /\ t_sleepaddr' \in [Threads -> Sems \cup {Lbolt, Null}]
        /\ \A u \in Threads \ {t} : t_sleepaddr'[u] = t_sleepaddr[u]
    BY <1>3, <2>1 DEF PCs
  <2>6. TypeOK'
    BY <2>2, <2>4, <2>5 DEF IInv, TypeOK
  <2>7. CpuInv'
    BY <1>1, <2>2, <2>3, <2>5
       DEF IInv, CpuInv, StackAllocated, NotInInterrupt, PcbInv
  <2>8. WaitInv'
    BY <2>2, <2>5 DEF IInv, WaitInv
  <2>9. CountInv' /\ RoomInv'
    <3>1. Alive(pc') = Alive(pc)
      BY <1>1, <2>5 DEF Alive
    <3> QED BY <2>2, <3>1 DEF IInv, CountInv, RoomInv
  <2>10. PlaceInv'
    <3>1. \A u \in Threads : /\ pc'[u] = "none" <=> pc[u] = "none"
                             /\ pc'[u] = "zombie" <=> pc[u] = "zombie"
      BY <1>1, <2>5
    <3>2. Located(runqueue, sleepers, zombies, {t}, pc')
      BY <2>3, <3>1, LocatedPc
    <3> QED BY <1>1, <1>2, <2>2, <3>2 DEF PlaceInv, Current
  <2>11. NoLostWakeup'
    <3>1. \A u \in ToSet(sleepers) : u \in Threads /\ u # t
      <4>1. sleepers \in Seq(Threads)
        BY DEF IInv, TypeOK
      <4> QED BY <2>3, <4>1, ToSetIs
    <3> QED BY <2>2, <2>4, <2>5, <3>1 DEF IInv, NoLostWakeup
  <2> QED BY <2>2, <2>6, <2>7, <2>8, <2>9, <2>10, <2>11 DEF IInv
<1> QED BY <1>5, <1>6

(* clocksleep, first time. *)
LEMMA ClockSleepPreserves ==
    ASSUME IInv, NEW t \in Threads, NEW n \in 1 .. MaxSecs, ClockSleep(t, n)
    PROVE  IInv' /\ (smax > 0 => smax' = smax)
<1> DEFINE npc == [pc EXCEPT ![t] = "clock"]
<1>1. /\ curthread = t /\ pc[t] = "run" /\ ~halted
      /\ num_secs' = [num_secs EXCEPT ![t] = n]
      /\ ThreadSleep(t, Lbolt, npc)
      /\ UNCHANGED <<numthreads, count, lbolt_counter, halted>>
  BY DEF ClockSleep, Running
<1>2. /\ npc \in [Threads -> PCs] /\ npc[t] = "clock"
      /\ \A u \in Threads \ {t} : npc[u] = pc[u]
  BY DEF IInv, TypeOK, PCs
<1>3. /\ num_secs' \in [Threads -> 0 .. MaxSecs] /\ num_secs'[t] > 0
      /\ \A u \in Threads \ {t} : num_secs'[u] = num_secs[u]
  BY <1>1, SizeAssumption DEF IInv, TypeOK
<1> HIDE DEF npc
<1>4. Lbolt \in Sems \cup {Lbolt} /\ Lbolt \notin Sems
  BY NameAssumption
<1> QED BY <1>1, <1>2, <1>3, <1>4, SleepFacts

(* clocksleep, after a second. *)
LEMMA ClockRetryPreserves ==
    ASSUME IInv, NEW t \in Threads, ClockRetry(t)
    PROVE  IInv' /\ (smax > 0 => smax' = smax)
<1>1. curthread = t /\ pc[t] = "clock" /\ t # NoThread
  BY NameAssumption DEF ClockRetry
<1>2. ~halted /\ num_secs[t] > 0
  BY <1>1 DEF IInv, PlaceInv, WaitInv
<1>3. pc \in [Threads -> PCs] /\ num_secs \in [Threads -> 0 .. MaxSecs]
      /\ t_sleepaddr \in [Threads -> Sems \cup {Lbolt, Null}]
  BY DEF IInv, TypeOK
<1>4. /\ num_secs' = [num_secs EXCEPT ![t] = @ - 1]
      /\ UNCHANGED <<numthreads, count, lbolt_counter, halted>>
  BY DEF ClockRetry
<1>5. /\ num_secs' \in [Threads -> 0 .. MaxSecs]
      /\ num_secs'[t] = num_secs[t] - 1
      /\ \A u \in Threads \ {t} : num_secs'[u] = num_secs[u]
  BY <1>2, <1>3, <1>4, SizeAssumption
<1>6. CASE num_secs[t] - 1 > 0
  <2>1. ThreadSleep(t, Lbolt, pc)
    BY <1>6 DEF ClockRetry
  <2>2. Lbolt \in Sems \cup {Lbolt} /\ Lbolt \notin Sems
    BY NameAssumption
  <2>3. num_secs'[t] > 0
    BY <1>5, <1>6
  <2> QED BY <1>1, <1>2, <1>3, <1>4, <1>5, <2>1, <2>2, <2>3, SleepFacts
<1>7. CASE ~(num_secs[t] - 1 > 0)
  <2>1. /\ t_sleepaddr' = [t_sleepaddr EXCEPT ![t] = Null]
        /\ pc' = [pc EXCEPT ![t] = "run"]
        /\ UNCHANGED <<cpu, lists>>
    BY <1>7 DEF ClockRetry
  <2>2. /\ curthread' = curthread /\ stack' = stack
        /\ in_interrupt' = in_interrupt /\ pcb_ininterrupt' = pcb_ininterrupt
        /\ runqueue' = runqueue /\ sleepers' = sleepers /\ zombies' = zombies
        /\ qsize' = qsize /\ smax' = smax /\ zmax' = zmax
        /\ numthreads' = numthreads /\ count' = count
        /\ lbolt_counter' = lbolt_counter /\ halted' = halted
    BY <1>4, <2>1 DEF cpu, lists
  <2>3. /\ stack = t /\ Located(runqueue, sleepers, zombies, {t}, pc)
        /\ in_interrupt = 0 /\ t \notin ToSet(sleepers)
    BY <1>1, <1>2, CurrentFacts
  <2>4. /\ pc' \in [Threads -> PCs]
        /\ \A u \in Threads : pc'[u] = IF u = t THEN "run" ELSE pc[u]
        /\ t_sleepaddr' \in [Threads -> Sems \cup {Lbolt, Null}]
        /\ \A u \in Threads \ {t} : t_sleepaddr'[u] = t_sleepaddr[u]
    BY <1>3, <2>1 DEF PCs
  <2>5. TypeOK'
    BY <1>5, <2>2, <2>4 DEF IInv, TypeOK
  <2>6. CpuInv'
    BY <1>1, <2>2, <2>3, <2>4
       DEF IInv, CpuInv, StackAllocated, NotInInterrupt, PcbInv
  <2>7. WaitInv'
    BY <1>5, <2>4 DEF IInv, WaitInv
  <2>8. CountInv' /\ RoomInv'
    <3>1. Alive(pc') = Alive(pc)
      BY <1>1, <2>4 DEF Alive
    <3> QED BY <2>2, <3>1 DEF IInv, CountInv, RoomInv
  <2>9. PlaceInv'
    <3>1. \A u \in Threads : /\ pc'[u] = "none" <=> pc[u] = "none"
                             /\ pc'[u] = "zombie" <=> pc[u] = "zombie"
      BY <1>1, <2>4
    <3>2. Located(runqueue, sleepers, zombies, {t}, pc')
      BY <2>3, <3>1, LocatedPc
    <3> QED BY <1>1, <1>2, <2>2, <3>2 DEF PlaceInv, Current
  <2>10. NoLostWakeup'
    <3>1. \A u \in ToSet(sleepers) : u \in Threads /\ u # t
      <4>1. sleepers \in Seq(Threads)
        BY DEF IInv, TypeOK
      <4> QED BY <2>3, <4>1, ToSetIs
    <3> QED BY <2>2, <2>4, <3>1 DEF IInv, NoLostWakeup
  <2> QED BY <2>2, <2>5, <2>6, <2>7, <2>8, <2>9, <2>10 DEF IInv
<1> QED BY <1>6, <1>7

(* P with a count above zero. *)
LEMMA PTakePreserves ==
    ASSUME IInv, NEW t \in Threads, NEW s \in Sems, PTake(t, s) PROVE IInv'
<1>1. /\ count[s] > 0 /\ count' = [count EXCEPT ![s] = @ - 1]
      /\ UNCHANGED <<cpu, lists, numthreads, pc, t_sleepaddr, num_secs,
                     lbolt_counter, halted>>
  BY DEF PTake
<1>2. /\ count' \in [Sems -> Nat]
      /\ \A u \in Sems : count[u] = 0 => count'[u] = 0
  BY <1>1 DEF IInv, TypeOK
<1>3. TypeOK'
  BY <1>1, <1>2 DEF IInv, TypeOK, cpu, lists
<1>4. CpuInv' /\ WaitInv' /\ CountInv' /\ RoomInv'
  BY <1>1 DEF IInv, CpuInv, StackAllocated, NotInInterrupt, PcbInv, WaitInv,
              CountInv, RoomInv, cpu, lists
<1>5. PlaceInv'
  BY <1>1 DEF IInv, PlaceInv, Current, cpu, lists
<1>6. NoLostWakeup'
  BY <1>1, <1>2 DEF IInv, NoLostWakeup, lists
<1> QED BY <1>3, <1>4, <1>5, <1>6 DEF IInv

(* V wakes everybody who is asleep on the semaphore. *)
LEMMA VPreserves ==
    ASSUME IInv, NEW s \in Sems, V(s) PROVE IInv'
<1>1. /\ count' = [count EXCEPT ![s] = @ + 1]
      /\ runqueue' = runqueue \o Keep(sleepers, SleepersOn(s))
      /\ sleepers' = Keep(sleepers, Threads \ SleepersOn(s))
      /\ qsize' = QRoom(qsize, Len(runqueue'))
      /\ UNCHANGED <<cpu, zombies, smax, zmax, numthreads, pc, t_sleepaddr,
                     num_secs, lbolt_counter, halted>>
  BY DEF V, Woken, Asleep
<1>2. curthread = NoThread \/ (curthread \in Threads /\ ~halted)
  BY DEF V, Running, IInv, TypeOK
<1>3. ~halted
  BY <1>2 DEF IInv, PlaceInv
<1>4. /\ runqueue' \in Seq(Threads) /\ sleepers' \in Seq(Threads)
      /\ Len(sleepers') <= smax
      /\ ToSet(sleepers') = ToSet(sleepers) \ SleepersOn(s)
      /\ Located(runqueue', sleepers', zombies, Current, pc)
  <2>1. Located(runqueue, sleepers, zombies, Current, pc)
    BY <1>3 DEF IInv, PlaceInv
  <2> QED BY <1>1, <2>1, WakeupFacts
<1>5. qsize' \in Nat /\ Len(runqueue') < qsize'
  <2>1. qsize \in Nat \ {0} /\ Len(runqueue') \in Nat
    <3>1. /\ runqueue \in Seq(Threads) /\ Len(runqueue) < qsize /\ qsize \in Nat
      BY DEF IInv, TypeOK
    <3>2. Len(runqueue) \in Nat /\ Len(runqueue') \in Nat
      BY <1>4, <3>1, LenProperties
    <3> QED BY <3>1, <3>2
  <2> QED BY <1>1, <2>1, QRoomFacts
<1>6. TypeOK'
  <2>1. count' \in [Sems -> Nat]
    BY <1>1 DEF IInv, TypeOK
  <2> QED BY <1>1, <1>4, <1>5, <2>1 DEF IInv, TypeOK, cpu
<1>7. CpuInv' /\ WaitInv' /\ CountInv' /\ RoomInv'
  BY <1>1 DEF IInv, CpuInv, StackAllocated, NotInInterrupt, PcbInv, WaitInv,
              CountInv, RoomInv, cpu
<1>8. PlaceInv'
  BY <1>1, <1>3, <1>4 DEF PlaceInv, Current, cpu
<1>9. NoLostWakeup'
  <2>1. ASSUME NEW u \in ToSet(sleepers'), t_sleepaddr'[u] \in Sems
        PROVE  count'[t_sleepaddr'[u]] = 0
    <3>1. u \in ToSet(sleepers) /\ u \in Threads /\ u \notin SleepersOn(s)
      BY <1>4, ToSetIs
    <3>2. t_sleepaddr'[u] = t_sleepaddr[u] /\ t_sleepaddr[u] # s
      BY <1>1, <3>1 DEF SleepersOn
    <3>3. count[t_sleepaddr[u]] = 0
      BY <2>1, <3>1, <3>2 DEF IInv, NoLostWakeup
    <3> QED BY <1>1, <2>1, <3>2, <3>3 DEF IInv, TypeOK
  <2> QED BY <2>1 DEF NoLostWakeup
<1> QED BY <1>6, <1>7, <1>8, <1>9 DEF IInv

(* A clock interrupt in the idle loop. *)
LEMMA IdleTickPreserves ==
    ASSUME IInv, IdleTick PROVE IInv'
<1>1. /\ curthread = NoThread /\ Hardclock
      /\ runqueue' = runqueue \o WokenByTick
      /\ qsize' = QRoom(qsize, Len(runqueue'))
      /\ UNCHANGED <<cpu, zombies, smax, zmax, numthreads, pc, t_sleepaddr,
                     num_secs, count, halted>>
  BY DEF IdleTick
<1>2. ~halted /\ Located(runqueue, sleepers, zombies, Current, pc)
  BY <1>1 DEF IInv, PlaceInv
<1>3. /\ runqueue' \in Seq(Threads) /\ sleepers' \in Seq(Threads)
      /\ Len(sleepers') <= smax
      /\ ToSet(sleepers') \in SUBSET ToSet(sleepers)
      /\ Located(runqueue', sleepers', zombies, Current, pc)
      /\ lbolt_counter' \in 0 .. HZ - 1
  BY <1>1, <1>2, HardclockFacts
<1>4. qsize' \in Nat /\ Len(runqueue') < qsize'
  <2>1. qsize \in Nat \ {0} /\ Len(runqueue') \in Nat
    <3>1. /\ runqueue \in Seq(Threads) /\ Len(runqueue) < qsize /\ qsize \in Nat
      BY DEF IInv, TypeOK
    <3>2. Len(runqueue) \in Nat /\ Len(runqueue') \in Nat
      BY <1>3, <3>1, LenProperties
    <3> QED BY <3>1, <3>2
  <2> QED BY <1>1, <2>1, QRoomFacts
<1>5. TypeOK'
  BY <1>1, <1>3, <1>4 DEF IInv, TypeOK, cpu
<1>6. CpuInv' /\ WaitInv' /\ CountInv' /\ RoomInv'
  BY <1>1 DEF IInv, CpuInv, StackAllocated, NotInInterrupt, PcbInv, WaitInv,
              CountInv, RoomInv, cpu
<1>7. PlaceInv'
  BY <1>1, <1>2, <1>3 DEF PlaceInv, Current, cpu
<1>8. NoLostWakeup'
  BY <1>1, <1>3, StillAsleep DEF IInv
<1> QED BY <1>5, <1>6, <1>7, <1>8 DEF IInv

(* The idle loop goes on with a thread. *)
LEMMA DispatchPreserves ==
    ASSUME IInv, Dispatch PROVE IInv'
<1>1. /\ curthread = NoThread /\ runqueue # <<>>
      /\ RunNext(stack, runqueue, zombies, zmax, pc, in_interrupt)
      /\ UNCHANGED <<sleepers, qsize, smax, numthreads, t_sleepaddr, num_secs,
                     count, lbolt_counter, halted>>
  BY DEF Dispatch
<1>2. ~halted /\ Located(runqueue, sleepers', zombies, {}, pc)
  BY <1>1 DEF IInv, PlaceInv, Current
<1>3. in_interrupt = 0
  BY <1>1 DEF IInv, TypeOK, CpuInv, NotInInterrupt
<1>4. Switched(runqueue, sleepers', pc)
  <2>1. CanSwitch(stack, runqueue, sleepers', zombies, zmax, pc, in_interrupt)
    BY <1>2, <1>3 DEF IInv, TypeOK, CpuInv, PcbInv, CanSwitch
  <2> QED BY <1>1, <2>1, RunNextFacts
<1>5. /\ runqueue \in Seq(Threads) /\ pc \in [Threads -> PCs]
      /\ Len(runqueue) < qsize'
  BY <1>1 DEF IInv, TypeOK
<1>6. Rest'
  <2>1. NoLostWakeup'
    BY <1>1, StillAsleep DEF IInv
  <2> QED BY <1>1, <1>2, <2>1 DEF IInv, TypeOK, RoomInv, Rest
<1>7. IsFiniteSet(Alive(pc)) /\ numthreads' = Cardinality(Alive(pc))
  BY <1>1 DEF IInv, CountInv
<1>8. \A t \in Threads : /\ pc[t] = "P" => t_sleepaddr'[t] \in Sems
                         /\ pc[t] = "clock" => num_secs'[t] > 0
  BY <1>1 DEF IInv, WaitInv
<1> QED BY <1>4, <1>5, <1>6, <1>7, <1>8, AfterSwitch

(* The return from the handler. *)
LEMMA InterruptReturnPreserves ==
    ASSUME IInv, NEW t \in Threads, InterruptReturn(t) PROVE IInv'
<1>1. /\ curthread = t /\ pc[t] = "preempted" /\ t # NoThread
      /\ pc' = [pc EXCEPT ![t] = "run"] /\ in_interrupt' = 0
      /\ UNCHANGED <<curthread, stack, pcb_ininterrupt, lists, numthreads,
                     t_sleepaddr, num_secs, count, lbolt_counter, halted>>
  BY NameAssumption DEF InterruptReturn
<1>2. ~halted
  BY <1>1 DEF IInv, PlaceInv
<1>3. stack = t /\ Located(runqueue, sleepers, zombies, {t}, pc)
  BY <1>1, <1>2, CurrentFacts
<1>4. /\ pc' \in [Threads -> PCs]
      /\ \A u \in Threads : pc'[u] = IF u = t THEN "run" ELSE pc[u]
  BY <1>1 DEF IInv, TypeOK, PCs
<1>5. TypeOK'
  BY <1>1, <1>4 DEF IInv, TypeOK, lists
<1>6. CpuInv'
  BY <1>1, <1>3, <1>4 DEF IInv, CpuInv, StackAllocated, NotInInterrupt, PcbInv
<1>7. WaitInv' /\ NoLostWakeup'
  BY <1>1, <1>4 DEF IInv, WaitInv, NoLostWakeup, lists
<1>8. CountInv' /\ RoomInv'
  <2>1. Alive(pc') = Alive(pc)
    BY <1>1, <1>4 DEF Alive
  <2> QED BY <1>1, <2>1 DEF IInv, CountInv, RoomInv, lists
<1>9. PlaceInv'
  <2>1. \A u \in Threads : /\ pc'[u] = "none" <=> pc[u] = "none"
                           /\ pc'[u] = "zombie" <=> pc[u] = "zombie"
    BY <1>1, <1>4
  <2>2. Located(runqueue, sleepers, zombies, {t}, pc')
    BY <1>3, <2>1, LocatedPc
  <2> QED BY <1>1, <1>2, <2>2 DEF PlaceInv, Current, lists
<1> QED BY <1>5, <1>6, <1>7, <1>8, <1>9 DEF IInv

(* panic and shutdown. *)
LEMMA HaltPreserves ==
    ASSUME IInv, Halt PROVE IInv'
<1>1. /\ curthread # NoThread /\ pc[curthread] = "run"
      /\ halted' = TRUE /\ runqueue' = <<>> /\ sleepers' = <<>>
      /\ UNCHANGED <<cpu, zombies, qsize, smax, zmax, numthreads, pc, t_sleepaddr,
                     num_secs, count, lbolt_counter>>
  BY DEF Halt, Running
<1>2. TypeOK'
  <2>1. Len(<<>>) = 0 /\ <<>> \in Seq(Threads)
    BY EmptySeq
  <2>2. 0 < qsize
    <3>1. runqueue \in Seq(Threads) /\ Len(runqueue) < qsize /\ qsize \in Nat
      BY DEF IInv, TypeOK
    <3>2. Len(runqueue) \in Nat
      BY <3>1, LenProperties
    <3> QED BY <3>1, <3>2
  <2> QED BY <1>1, <2>1, <2>2 DEF IInv, TypeOK, cpu
<1>3. CpuInv' /\ WaitInv' /\ CountInv' /\ RoomInv'
  BY <1>1 DEF IInv, CpuInv, StackAllocated, NotInInterrupt, PcbInv, WaitInv,
              CountInv, RoomInv, cpu
<1>4. PlaceInv'
  BY <1>1 DEF PlaceInv, cpu
<1>5. NoLostWakeup'
  BY <1>1, ToSetEmpty DEF NoLostWakeup
<1> QED BY <1>2, <1>3, <1>4, <1>5 DEF IInv

(* thread_fork. *)
LEMMA ForkPreserves ==
    ASSUME IInv, NEW t \in Threads, Fork(t) PROVE IInv'
<1>1. /\ curthread # NoThread /\ ~halted /\ pc[t] = "none"
      /\ smax' = Preallocate(smax, numthreads + 1)
      /\ zmax' = Preallocate(zmax, numthreads + 1)
      /\ qsize' = QRoom(QPreallocate(qsize, numthreads + 1), Len(runqueue) + 1)
      /\ runqueue' = Append(runqueue, t)
      /\ numthreads' = numthreads + 1
      /\ pc' = [pc EXCEPT ![t] = "new"]
      /\ t_sleepaddr' = [t_sleepaddr EXCEPT ![t] = Null]
      /\ pcb_ininterrupt' = [pcb_ininterrupt EXCEPT ![t] = 0]
      /\ UNCHANGED <<curthread, stack, in_interrupt, sleepers, zombies, num_secs,
                     count, lbolt_counter, halted>>
  BY DEF Fork, Running, Needed
<1>2. /\ runqueue \in Seq(Threads) /\ sleepers \in Seq(Threads)
      /\ zombies \in Seq(Threads) /\ smax \in Nat /\ zmax \in Nat /\ qsize \in Nat
      /\ Len(runqueue) < qsize /\ Len(sleepers) <= smax /\ Len(zombies) <= zmax
      /\ numthreads \in Nat /\ pc \in [Threads -> PCs]
      /\ t_sleepaddr \in [Threads -> Sems \cup {Lbolt, Null}]
      /\ pcb_ininterrupt \in [Threads -> {0, 1}]
  BY DEF IInv, TypeOK
<1>3. /\ Located(runqueue, sleepers, zombies, {curthread}, pc)
      /\ curthread \in Threads /\ stack = curthread
  BY <1>1 DEF IInv, TypeOK, PlaceInv, Current, CpuInv, StackAllocated
<1>4. /\ Len(runqueue) \in Nat /\ Len(sleepers) \in Nat /\ Len(zombies) \in Nat
      /\ runqueue' \in Seq(Threads) /\ Len(runqueue') = Len(runqueue) + 1
  BY <1>1, <1>2, LenProperties, AppendProperties
<1>5. /\ smax' \in Nat /\ smax' >= numthreads + 1 /\ smax' >= smax
      /\ zmax' \in Nat /\ zmax' >= zmax
  <2>1. numthreads + 1 \in Nat
    BY <1>2
  <2> QED BY <1>1, <1>2, <2>1, PreallocateFacts
<1>6. qsize' \in Nat /\ Len(runqueue') < qsize'
  <2>1. numthreads + 1 \in Nat /\ qsize \in Nat \ {0}
        /\ Len(runqueue) + 1 \in Nat
    BY <1>2, <1>4
  <2>2. QPreallocate(qsize, numthreads + 1) \in Nat \ {0}
    BY <2>1, QPreallocateFacts
  <2> QED BY <1>1, <1>4, <2>1, <2>2, QRoomFacts
<1>7. /\ pc' \in [Threads -> PCs]
      /\ \A u \in Threads : pc'[u] = IF u = t THEN "new" ELSE pc[u]
      /\ t_sleepaddr' \in [Threads -> Sems \cup {Lbolt, Null}]
      /\ \A u \in Threads \ {t} : t_sleepaddr'[u] = t_sleepaddr[u]
      /\ pcb_ininterrupt' \in [Threads -> {0, 1}]
      /\ \A u \in Threads :
            pcb_ininterrupt'[u] = IF u = t THEN 0 ELSE pcb_ininterrupt[u]
  BY <1>1, <1>2 DEF PCs
<1>8. TypeOK'
  <2>1. Len(sleepers) <= smax' /\ Len(zombies) <= zmax' /\ numthreads' \in Nat
    BY <1>1, <1>2, <1>4, <1>5
  <2> QED BY <1>1, <1>4, <1>5, <1>6, <1>7, <2>1 DEF IInv, TypeOK
<1>9. CpuInv'
  BY <1>1, <1>3, <1>7 DEF IInv, CpuInv, StackAllocated, NotInInterrupt, PcbInv
<1>10. WaitInv'
  BY <1>1, <1>7 DEF IInv, WaitInv
<1>11. CountInv'
  <2>1. Alive(pc') = Alive(pc) \cup {t} /\ t \notin Alive(pc)
    BY <1>1, <1>7 DEF Alive
  <2>2. IsFiniteSet(Alive(pc)) /\ numthreads = Cardinality(Alive(pc))
    BY DEF IInv, CountInv
  <2>3. IsFiniteSet(Alive(pc')) /\ Cardinality(Alive(pc')) = numthreads + 1
    BY <2>1, <2>2, FS_AddElement
  <2> QED BY <1>1, <2>3 DEF CountInv
<1>12. RoomInv'
  BY <1>1, <1>2, <1>5 DEF RoomInv
<1>13. PlaceInv'
  <2>1. Located(Append(runqueue, t), sleepers, zombies, {curthread},
                [pc EXCEPT ![t] = "new"])
    BY <1>1, <1>2, <1>3, LocatedFork
  <2>2. Located(runqueue', sleepers', zombies', {curthread}, pc')
    BY <1>1, <2>1
  <2> QED BY <1>1, <2>2 DEF PlaceInv, Current
<1>14. NoLostWakeup'
  <2>1. \A u \in ToSet(sleepers) : u \in Threads /\ u # t
    <3>1. t \notin ToSet(sleepers)
      BY <1>1, <1>3 DEF Located
    <3> QED BY <1>2, <3>1, ToSetIs
  <2> QED BY <1>1, <1>7, <2>1 DEF IInv, NoLostWakeup
<1> QED BY <1>8, <1>9, <1>10, <1>11, <1>12, <1>13, <1>14 DEF IInv

(* thread_fork out of memory. *)
LEMMA ForkFailPreserves ==
    ASSUME IInv, NEW step \in ForkSteps, ForkFail(step) PROVE IInv'
<1>1. /\ ~halted
      /\ smax' = Preallocate(smax, numthreads + 1)
      /\ zmax' \in {zmax, Preallocate(zmax, numthreads + 1)}
      /\ qsize' \in {qsize, QPreallocate(qsize, numthreads + 1)}
      /\ UNCHANGED <<cpu, runqueue, sleepers, zombies, numthreads, pc,
                     t_sleepaddr, num_secs, count, lbolt_counter, halted>>
  BY DEF ForkFail, Running, Needed
<1>2. /\ runqueue \in Seq(Threads) /\ sleepers \in Seq(Threads)
      /\ zombies \in Seq(Threads) /\ smax \in Nat /\ zmax \in Nat /\ qsize \in Nat
      /\ Len(runqueue) < qsize /\ Len(sleepers) <= smax /\ Len(zombies) <= zmax
      /\ numthreads \in Nat
  BY DEF IInv, TypeOK
<1>3. /\ Len(runqueue) \in Nat /\ Len(sleepers) \in Nat /\ Len(zombies) \in Nat
      /\ numthreads + 1 \in Nat
  BY <1>2, LenProperties
<1>4. /\ smax' \in Nat /\ smax' >= numthreads + 1 /\ smax' >= smax
      /\ zmax' \in Nat /\ zmax' >= zmax
  <2>1. /\ Preallocate(smax, numthreads + 1) \in Nat
        /\ Preallocate(smax, numthreads + 1) >= numthreads + 1
        /\ Preallocate(smax, numthreads + 1) >= smax
        /\ Preallocate(zmax, numthreads + 1) \in Nat
        /\ Preallocate(zmax, numthreads + 1) >= zmax
    BY <1>2, <1>3, PreallocateFacts
  <2>2. zmax' = zmax \/ zmax' = Preallocate(zmax, numthreads + 1)
    BY <1>1
  <2>3. zmax' \in Nat /\ zmax' >= zmax
    BY <1>2, <2>1, <2>2
  <2> QED BY <1>1, <2>1, <2>3
<1>5. qsize' \in Nat /\ Len(runqueue) < qsize'
  <2>1. qsize \in Nat \ {0}
    BY <1>2, <1>3
  <2>2. /\ QPreallocate(qsize, numthreads + 1) \in Nat
        /\ QPreallocate(qsize, numthreads + 1) >= qsize
    BY <1>3, <2>1, QPreallocateFacts
  <2> QED BY <1>1, <1>2, <1>3, <2>2
<1>6. TypeOK'
  <2>1. Len(sleepers) <= smax' /\ Len(zombies) <= zmax'
    BY <1>2, <1>3, <1>4
  <2> QED BY <1>1, <1>4, <1>5, <2>1 DEF IInv, TypeOK, cpu
<1>7. CpuInv' /\ WaitInv' /\ CountInv' /\ PlaceInv' /\ NoLostWakeup'
  BY <1>1 DEF IInv, CpuInv, StackAllocated, NotInInterrupt, PcbInv, WaitInv,
              CountInv, PlaceInv, Current, NoLostWakeup, cpu
<1>8. RoomInv'
  BY <1>1, <1>2, <1>4 DEF RoomInv
<1> QED BY <1>6, <1>7, <1>8 DEF IInv

------------------------------------------------------------------------------
(* The state thread_bootstrap leaves. *)
LEMMA InitIInv == Init => IInv
<1> SUFFICES ASSUME Init PROVE IInv
  OBVIOUS
<1>1. /\ Menu \in Threads /\ Menu # NoThread /\ HZ \in Nat \ {0}
      /\ QueueInit \in Nat \ {0} /\ MaxSecs \in Nat \ {0}
  BY NameAssumption, SizeAssumption
<1>2. /\ pc \in [Threads -> PCs]
      /\ \A t \in Threads : pc[t] = IF t = Menu THEN "run" ELSE "none"
  BY DEF Init, PCs
<1>3. /\ <<>> \in Seq(Threads) /\ Len(<<>>) = 0 /\ ToSet(<<>>) = {}
      /\ IsInjective(<<>>)
  BY EmptySeq, ToSetEmpty DEF IsInjective
<1>4. TypeOK
  <2>1. /\ curthread = Menu /\ stack = Menu /\ numthreads = 1
        /\ runqueue = <<>> /\ sleepers = <<>> /\ zombies = <<>>
        /\ in_interrupt = 0 /\ lbolt_counter = 0 /\ halted = FALSE
        /\ qsize = QueueInit /\ smax = 0 /\ zmax = 0
    BY DEF Init
  <2>2. /\ t_sleepaddr \in [Threads -> Sems \cup {Lbolt, Null}]
        /\ num_secs \in [Threads -> 0 .. MaxSecs]
        /\ pcb_ininterrupt \in [Threads -> {0, 1}]
        /\ count \in [Sems -> Nat]
    BY <1>1 DEF Init
  <2>3. /\ curthread \in Threads \cup {NoThread} /\ stack \in Threads
        /\ in_interrupt \in {0, 1} /\ lbolt_counter \in 0 .. HZ - 1
        /\ numthreads \in Nat /\ qsize \in Nat /\ smax \in Nat /\ zmax \in Nat
    BY <1>1, <2>1
  <2>4. /\ runqueue \in Seq(Threads) /\ sleepers \in Seq(Threads)
        /\ zombies \in Seq(Threads)
        /\ Len(runqueue) < qsize /\ Len(sleepers) <= smax /\ Len(zombies) <= zmax
    BY <1>1, <1>3, <2>1
  <2>5. halted \in BOOLEAN
    BY <2>1
  <2> QED BY <1>2, <2>2, <2>3, <2>4, <2>5 DEF TypeOK
<1>5. CpuInv /\ WaitInv
  BY <1>1, <1>2
     DEF Init, CpuInv, StackAllocated, NotInInterrupt, PcbInv, WaitInv
<1>6. CountInv /\ RoomInv
  <2>1. Alive(pc) = {Menu}
    BY <1>1, <1>2 DEF Alive
  <2>2. IsFiniteSet({Menu}) /\ Cardinality({Menu}) = 1
    BY FS_Singleton
  <2>3. numthreads = 1 /\ smax = 0
    BY DEF Init
  <2>4. CountInv
    BY <2>1, <2>2, <2>3 DEF CountInv
  <2> QED BY <2>3, <2>4 DEF RoomInv
<1>7. PlaceInv
  BY <1>1, <1>2, <1>3 DEF Init, PlaceInv, Current, Located
<1>8. NoLostWakeup
  BY <1>3 DEF Init, NoLostWakeup
<1> QED BY <1>4, <1>5, <1>6, <1>7, <1>8 DEF IInv

(* Every step keeps the invariant, and only a fork enlarges the array of    *)
(* sleepers once it exists.                                                 *)
LEMMA NextIInv ==
    ASSUME IInv, [Next]_vars
    PROVE  IInv' /\ (smax' > smax /\ smax > 0 => Forking)
<1>1. smax \in Nat
  BY DEF IInv, TypeOK
<1>2. CASE Dispatch
  BY <1>1, <1>2, DispatchPreserves DEF Dispatch
<1>3. CASE IdleTick
  BY <1>1, <1>3, IdleTickPreserves DEF IdleTick
<1>4. CASE Halt
  BY <1>1, <1>4, HaltPreserves DEF Halt
<1>5. ASSUME NEW step \in ForkSteps, ForkFail(step)
      PROVE  IInv' /\ (smax' > smax /\ smax > 0 => Forking)
  BY <1>5, ForkFailPreserves DEF Forking
<1>6. ASSUME NEW s \in Sems, V(s)
      PROVE  IInv' /\ (smax' > smax /\ smax > 0 => Forking)
  <2>1. IInv'
    BY <1>6, VPreserves
  <2>2. smax' = smax
    BY <1>6 DEF V
  <2> QED BY <1>1, <2>1, <2>2
<1>7. ASSUME NEW t \in Threads, Fork(t)
      PROVE  IInv' /\ (smax' > smax /\ smax > 0 => Forking)
  BY <1>7, ForkPreserves DEF Forking
<1>8. ASSUME NEW t \in Threads, ThreadYield(t) \/ ThreadExit(t)
      PROVE  IInv' /\ (smax' > smax /\ smax > 0 => Forking)
  BY <1>1, <1>8, YieldPreserves, ExitPreserves DEF ThreadYield, ThreadExit
<1>9. ASSUME NEW t \in Threads, NEW s \in Sems, PTake(t, s)
      PROVE  IInv' /\ (smax' > smax /\ smax > 0 => Forking)
  <2>1. IInv'
    BY <1>9, PTakePreserves
  <2>2. smax' = smax
    BY <1>9 DEF PTake, lists
  <2> QED BY <1>1, <2>1, <2>2
<1>10. ASSUME NEW t \in Threads, NEW s \in Sems, PSleep(t, s)
       PROVE  IInv' /\ (smax' > smax /\ smax > 0 => Forking)
  BY <1>1, <1>10, PSleepPreserves
<1>11. ASSUME NEW t \in Threads, PRetry(t) \/ ClockRetry(t)
       PROVE  IInv' /\ (smax' > smax /\ smax > 0 => Forking)
  BY <1>1, <1>11, PRetryPreserves, ClockRetryPreserves
<1>12. ASSUME NEW t \in Threads, NEW n \in 1 .. MaxSecs, ClockSleep(t, n)
       PROVE  IInv' /\ (smax' > smax /\ smax > 0 => Forking)
  BY <1>1, <1>12, ClockSleepPreserves
<1>13. ASSUME NEW t \in Threads, Tick(t)
       PROVE  IInv' /\ (smax' > smax /\ smax > 0 => Forking)
  BY <1>1, <1>13, TickPreserves DEF Tick
<1>14. ASSUME NEW t \in Threads, InterruptReturn(t)
       PROVE  IInv' /\ (smax' > smax /\ smax > 0 => Forking)
  <2>1. IInv'
    BY <1>14, InterruptReturnPreserves
  <2>2. smax' = smax
    BY <1>14 DEF InterruptReturn, lists
  <2> QED BY <1>1, <2>1, <2>2
<1>15. CASE UNCHANGED vars
  <2>1. IInv'
    BY <1>15 DEF vars, cpu, lists, IInv, TypeOK, CpuInv, StackAllocated,
       NotInInterrupt, PcbInv, WaitInv, CountInv, RoomInv, PlaceInv, Current,
       NoLostWakeup
  <2>2. smax' = smax
    BY <1>15 DEF vars, lists
  <2> QED BY <1>1, <2>1, <2>2
<1> QED
  BY <1>2, <1>3, <1>4, <1>5, <1>6, <1>7, <1>8, <1>9, <1>10, <1>11, <1>12,
     <1>13, <1>14, <1>15 DEF Next

(* The invariant holds in every reachable state, for any number of threads  *)
(* and semaphores.                                                          *)
LEMMA Invariant == Spec => []IInv
<1>1. IInv /\ [Next]_vars => IInv'
  BY NextIInv
<1> QED BY InitIInv, <1>1, PTL DEF Spec

------------------------------------------------------------------------------
(* The state of the thread system keeps its types, and no list outgrows the *)
(* storage that array_preallocate and q_preallocate made for it: after any  *)
(* forks, failed forks, wakeups, exits and releases of the zombie array.    *)
THEOREM TypeCorrect == Spec => []TypeOK
<1>1. IInv => TypeOK
  BY DEF IInv
<1> QED BY Invariant, <1>1, PTL

(* No switch, wakeup, fork, exit or exorcise loses a thread or puts it in   *)
(* two places, and numthreads counts the threads that have not exited.      *)
THEOREM EveryThreadInOnePlace == Spec => []OnePlace
<1>1. ASSUME IInv PROVE OnePlace
  <2> DEFINE cur == IF curthread = NoThread THEN <<>> ELSE <<curthread>>
             all == runqueue \o sleepers \o zombies \o cur
  <2>1. /\ runqueue \in Seq(Threads) /\ sleepers \in Seq(Threads)
        /\ zombies \in Seq(Threads) /\ curthread \in Threads \cup {NoThread}
    BY <1>1 DEF IInv, TypeOK
  <2>2. /\ cur \in Seq(Threads) /\ ToSet(cur) = Current /\ IsInjective(cur)
    <3>1. CASE curthread = NoThread
      BY <3>1, EmptySeq, ToSetEmpty DEF Current, IsInjective
    <3>2. CASE curthread # NoThread
      BY <2>1, <3>2 DEF Current, IsInjective, ToSet
    <3> QED BY <3>1, <3>2
  <2>3. numthreads = Cardinality({t \in Live : pc[t] # "zombie"})
    <3>1. {t \in Live : pc[t] # "zombie"} = Alive(pc)
      BY DEF Live, Alive
    <3> QED BY <1>1, <3>1 DEF IInv, CountInv
  <2> HIDE DEF cur
  <2>4. ASSUME ~halted
        PROVE  ToSet(all) = Live /\ \A i, j \in DOMAIN all : all[i] = all[j] => i = j
    <3>1. Located(runqueue, sleepers, zombies, Current, pc)
      BY <1>1, <2>4 DEF IInv, PlaceInv
    <3>2. /\ runqueue \o sleepers \in Seq(Threads)
          /\ ToSet(runqueue \o sleepers) = ToSet(runqueue) \cup ToSet(sleepers)
          /\ IsInjective(runqueue \o sleepers)
      BY <2>1, <3>1, ConcatProperties, ToSetConcat, InjConcat DEF Located
    <3> DEFINE rs == runqueue \o sleepers
    <3> HIDE DEF rs
    <3>3. /\ rs \o zombies \in Seq(Threads)
          /\ ToSet(rs \o zombies) = ToSet(rs) \cup ToSet(zombies)
          /\ IsInjective(rs \o zombies)
      <4>1. /\ rs \in Seq(Threads) /\ IsInjective(rs) /\ IsInjective(zombies)
            /\ ToSet(rs) \cap ToSet(zombies) = {}
        BY <3>1, <3>2 DEF rs, Located
      <4> QED BY <2>1, <4>1, ConcatProperties, ToSetConcat, InjConcat
    <3> DEFINE rsz == rs \o zombies
    <3> HIDE DEF rsz
    <3>4. /\ ToSet(rsz \o cur) = ToSet(rsz) \cup Current
          /\ IsInjective(rsz \o cur)
      <4>1. /\ rsz \in Seq(Threads) /\ IsInjective(rsz)
            /\ ToSet(rsz) \cap ToSet(cur) = {}
        BY <2>2, <3>1, <3>2, <3>3 DEF rs, rsz, Located
      <4> QED BY <2>2, <4>1, ToSetConcat, InjConcat
    <3>5. all = rsz \o cur
      BY DEF rsz, rs
    <3> HIDE DEF all
    <3>6. ToSet(all) = ToSet(runqueue) \cup ToSet(sleepers) \cup ToSet(zombies)
                       \cup Current
      BY <3>2, <3>3, <3>4, <3>5 DEF rs, rsz
    <3>7. Current \in SUBSET Threads
      BY <2>1 DEF Current
    <3>8. ToSet(all) = Live
      BY <2>1, <3>1, <3>6, <3>7, ToSetIs DEF Live, Located
    <3>9. IsInjective(all)
      BY <3>4, <3>5
    <3> QED BY <3>8, <3>9 DEF IsInjective
  <2> QED BY <2>3, <2>4 DEF OnePlace, cur
<1> QED BY <1>1, Invariant, PTL

(* exorcise, run by whoever comes next, never frees the stack that the      *)
(* processor is on.                                                         *)
THEOREM StackNeverFreed == Spec => []StackAllocated
<1>1. IInv => StackAllocated
  BY DEF IInv, CpuInv
<1> QED BY Invariant, <1>1, PTL

(* md_switch saves and restores in_interrupt so that only a thread that was *)
(* preempted finds itself in an interrupt.                                  *)
THEOREM InterruptPerThread == Spec => []NotInInterrupt
<1>1. IInv => NotInInterrupt
  BY DEF IInv, CpuInv
<1> QED BY Invariant, <1>1, PTL

(* P looks at the count and goes to sleep in one piece, and V wakes all     *)
(* sleepers: nobody sleeps on a semaphore that could be taken.              *)
THEOREM WakeupNotLost == Spec => []NoLostWakeup
<1>1. IInv => NoLostWakeup
  BY DEF IInv
<1> QED BY Invariant, <1>1, PTL

(* Once the first fork has made the array of sleepers, mi_switch never has  *)
(* to enlarge it: it has room for every thread.                             *)
THEOREM SleepersHaveRoom == Spec => SleepersPreallocated
<1>1. IInv /\ [Next]_vars => [smax' > smax /\ smax > 0 => Forking]_vars
  BY NextIInv
<1>2. Spec => [][Next]_vars
  BY PTL DEF Spec
<1> QED BY Invariant, <1>1, <1>2, PTL DEF SleepersPreallocated
==============================================================================
