--------------------------- MODULE PhysMem_proofs ----------------------------
(***************************************************************************)
(* Proofs about PhysMem for every number of pages, threads and table        *)
(* entries per page.  IInv is the inductive invariant.                      *)
(***************************************************************************)
EXTENDS PhysMem, TLAPS

(* Before vm_bootstrap only ram.c is in use. *)
BootInv ==
    ~bootstrapped =>
        /\ lo = 0 /\ system_pages = 0 /\ lastpaddr = RamPages
        /\ FirstPage <= firstpaddr
        /\ call = NoCall
        /\ \A t \in Threads : freeing[t] = NoFree

UpInv == bootstrapped => FirstPage <= lo /\ lo + system_pages = RamPages

(* The regions of the table do not overlap: pages inside one are zero. *)
TableInv ==
    \A s \in Index : ipt[s] > 0 =>
        /\ s + ipt[s] <= system_pages
        /\ \A p \in Index : s < p /\ p < s + ipt[s] => ipt[p] = 0

(* The end of what ram_stealmem has handed out. *)
StolenEnd == IF bootstrapped THEN lo ELSE firstpaddr

StolenInv ==
    /\ \A r \in held : r.start > 0 /\ r.start < StolenEnd =>
          FirstPage <= r.start /\ r.start + r.len <= StolenEnd
    /\ \A q, r \in held : q # r /\ q.start > 0 /\ r.start > 0
                          /\ q.start < StolenEnd /\ r.start < StolenEnd
                          => Apart(q, r)
    /\ ~bootstrapped => \A r \in held : r.start < StolenEnd

(* What callers hold from the table is marked there, once. *)
HeldInv ==
    bootstrapped =>
        /\ \A r \in held : r.start >= lo =>
              r.start - lo \in Index /\ r.start > lo /\ ipt[r.start - lo] = r.len
        /\ \A q, r \in held : q.start >= lo /\ q.start = r.start => q = r

FreeingInv ==
    /\ \A t \in Threads : freeing[t].pc # "idle" =>
          /\ bootstrapped
          /\ freeing[t].page \in Index /\ ipt[freeing[t].page] > 0
          /\ freeing[t].page > 0
          /\ \A r \in held : r.start # lo + freeing[t].page
    /\ \A t, u \in Threads :
          t # u /\ freeing[t].pc # "idle" /\ freeing[u].pc # "idle" =>
              freeing[t].page # freeing[u].page

(* The pages of the table itself, reserved by vm_bootstrap. *)
ReservedInv ==
    /\ bootstrapped /\ call.who # Vm /\ system_pages >= 2 =>
          ipt[0] = IptPages(system_pages)
    /\ system_pages < 2 => \A s \in Index : ipt[s] = 0
    /\ call.who = Vm =>
          /\ \A s \in Index : ipt[s] = 0
          /\ call.npages = IptPages(system_pages)
          /\ \A r \in held : r.start < lo

(* The candidate region of the scan: the len pages before i. *)
ScanInv ==
    call.who # NoThread =>
        /\ bootstrapped
        /\ call.who # Vm => call.npages > 0
        /\ call.len <= call.npages
        /\ \A p \in Index : call.i - call.len <= p /\ p < call.i => ipt[p] = 0
        /\ \A s \in Index : ipt[s] > 0 /\ s < call.i =>
              s + ipt[s] <= call.i - call.len
        /\ call.i = call.len \/ Covered(call.i - call.len - 1)

(* No large enough run ends before i. *)
MissInv ==
    call.who # NoThread =>
        \A s \in Nat :
            s + call.npages < call.i
            \/ (s + call.npages = call.i /\ call.len < call.npages)
            => ~FreeRun(s, call.npages)

IInv ==
    /\ TypeOK /\ BootInv /\ UpInv /\ TableInv /\ StolenInv /\ HeldInv
    /\ FreeingInv /\ ReservedInv /\ ScanInv /\ MissInv /\ NoLeak

------------------------------------------------------------------------------
(* The size of the table in pages: rounded up, and less than the memory it  *)
(* describes unless there is but one page.                                  *)
LEMMA IptPagesSize ==
    ASSUME NEW n \in Nat
    PROVE  /\ IptPages(n) \in Nat
           /\ n >= 1 => IptPages(n) >= 1
           /\ n >= 2 => IptPages(n) < n
           /\ n <= IptPages(n) * PtrsPerPage
<1> DEFINE E == PtrsPerPage
           k == (n + E - 1) \div E
<1>1. E \in Nat /\ E >= 2
  BY SizeAssumption
<1> HIDE DEF E
<1>2. n + E - 1 \in Nat
  BY <1>1
<1>3. k \in Nat /\ k * E <= n + E - 1 /\ n + E - 1 < (k + 1) * E
  BY <1>1, <1>2
<1> HIDE DEF k
<1>4. n >= 1 => k >= 1
  <2> SUFFICES ASSUME n >= 1, k = 0 PROVE FALSE
    BY <1>3
  <2> QED BY <1>1, <1>3
<1>5. n >= 2 => k < n
  <2> SUFFICES ASSUME n >= 2, k >= n PROVE FALSE
    BY <1>3
  <2>1. PICK d \in Nat : k = n + d
    <3>1. k - n \in Nat /\ k = n + (k - n)
      BY <1>3
    <3> QED BY <3>1
  <2>2. PICK e \in Nat : E = 2 + e
    <3>1. E - 2 \in Nat /\ E = 2 + (E - 2)
      BY <1>1
    <3> QED BY <3>1
  <2>3. k * E = 2 * n + n * e + d * E
    BY <2>1, <2>2, <1>1
  <2>4. n * e >= e /\ d * E >= 0 /\ n * e \in Nat /\ d * E \in Nat
    BY <2>1, <2>2, <1>1
  <2> QED BY <2>2, <2>3, <2>4, <1>3
<1>6. n <= k * E
  <2>1. (k + 1) * E = k * E + E /\ k * E \in Nat
    BY <1>1, <1>3
  <2> QED BY <2>1, <1>1, <1>3
<1> QED BY <1>3, <1>4, <1>5, <1>6 DEF IptPages, k, E

LEMMA InitInv == Init => IInv
<1> SUFFICES ASSUME Init PROVE IInv
  OBVIOUS
<1> USE RamAssumption, ThreadAssumption DEF Init
<1>0. Index = {}
  BY DEF Index
<1>1. TypeOK
  <2>1. ipt \in [Index -> Nat]
    BY <1>0
  <2>2. call \in CallType /\ call.i <= system_pages /\ call.len <= call.i
    BY DEF CallType, NoCall
  <2>3. /\ freeing \in [Threads ->
              [pc : {"idle", "add", "clear"}, page : Nat, sum : Int]]
        /\ \A t \in Threads : freeing[t].pc = "idle"
    BY DEF NoFree
  <2>4. /\ firstpaddr \in 0 .. RamPages /\ lastpaddr \in 0 .. RamPages
        /\ lo \in 0 .. RamPages /\ system_pages \in 0 .. RamPages
        /\ avail_pages \in Int
    OBVIOUS
  <2>5. bootstrapped \in BOOLEAN /\ wild \in BOOLEAN
    BY Zenon
  <2>6. held \subseteq [who : Threads, start : Nat, len : Nat \ {0}]
    OBVIOUS
  <2> QED BY <2>1, <2>2, <2>3, <2>4, <2>5, <2>6, Zenon DEF TypeOK
<1>2. BootInv /\ UpInv /\ TableInv /\ StolenInv /\ HeldInv
  BY DEF BootInv, UpInv, TableInv, StolenInv, HeldInv, Index
<1>3. FreeingInv /\ ReservedInv /\ ScanInv /\ MissInv /\ NoLeak
  BY DEF FreeingInv, ReservedInv, ScanInv, MissInv, NoLeak, NoCall, NoFree,
         Index
<1> QED BY <1>1, <1>2, <1>3 DEF IInv

------------------------------------------------------------------------------
(* The steps of boot. *)
LEMMA StealStep ==
    ASSUME IInv, NEW t \in Threads, NEW n \in 1 .. MaxReq,
           Steal(t, n) \/ StealFail(t, n)
    PROVE  IInv'
<1> USE RamAssumption, BoundAssumption DEF IInv, Steal, StealFail, ram, Grant
<1>1. ~bootstrapped /\ ~bootstrapped' /\ call.who = NoThread /\ system_pages = 0
  BY ThreadAssumption DEF BootInv, NoCall
<1>2. TypeOK'
  <2>1. held' \subseteq [who : Threads, start : Nat, len : Nat \ {0}]
    BY DEF TypeOK
  <2>2. firstpaddr' \in 0 .. RamPages
    BY DEF TypeOK
  <2> QED BY <2>1, <2>2 DEF TypeOK, Index
<1>3. BootInv' /\ UpInv' /\ TableInv'
  BY <1>1 DEF BootInv, UpInv, TableInv, TypeOK, Index
<1>4. StolenInv'
  BY <1>1 DEF StolenInv, StolenEnd, Apart, BootInv, TypeOK
<1>5. HeldInv' /\ FreeingInv' /\ ReservedInv'
  BY <1>1, ThreadAssumption
     DEF HeldInv, FreeingInv, ReservedInv, BootInv, NoFree, TypeOK, Index
<1>6. ScanInv' /\ MissInv' /\ NoLeak'
  BY <1>1 DEF ScanInv, MissInv, NoLeak, TypeOK, Index
<1> QED BY <1>2, <1>3, <1>4, <1>5, <1>6

LEMMA VmBootstrapStep == ASSUME IInv, VmBootstrap PROVE IInv'
<1> USE RamAssumption DEF IInv, VmBootstrap, Begin
<1> DEFINE N == lastpaddr - firstpaddr
<1>1. /\ ~bootstrapped /\ bootstrapped' = TRUE
      /\ lastpaddr = RamPages /\ FirstPage <= firstpaddr
      /\ N \in 0 .. RamPages /\ system_pages' = N /\ lo' = firstpaddr
  BY DEF BootInv, TypeOK
<1>2. IptPages(N) \in Nat
  BY <1>1, IptPagesSize
<1>3. TypeOK'
  BY <1>1, <1>2, SizeAssumption, ThreadAssumption
     DEF TypeOK, CallType, Index, BootInv, NoFree
<1>4. BootInv' /\ UpInv' /\ TableInv'
  BY <1>1 DEF BootInv, UpInv, TableInv, TypeOK, Index
<1>5. StolenInv' /\ HeldInv'
  BY <1>1 DEF StolenInv, StolenEnd, HeldInv, TypeOK, Index, Apart
<1>6. FreeingInv' /\ NoLeak'
  BY <1>1 DEF FreeingInv, BootInv, NoFree, NoLeak, Index
<1>7. ReservedInv'
  BY <1>1 DEF ReservedInv, StolenInv, StolenEnd, Index
<1>8. ScanInv' /\ MissInv'
  BY <1>1, <1>2, ThreadAssumption DEF ScanInv, MissInv, Index, TypeOK
<1> QED BY <1>3, <1>4, <1>5, <1>6, <1>7, <1>8

------------------------------------------------------------------------------
(* The scan: the table and the regions stand still, only the locals of      *)
(* alloc_ppages move.                                                       *)
LEMMA TableStill ==
    ASSUME IInv, UNCHANGED <<ram, ipt, freeing, held>>,
           call'.who = call.who, call'.npages = call.npages
    PROVE  /\ UpInv' /\ TableInv' /\ StolenInv' /\ HeldInv'
           /\ FreeingInv' /\ ReservedInv' /\ NoLeak'
<1> USE DEF IInv, ram
<1>1. UpInv' /\ TableInv' /\ StolenInv' /\ HeldInv'
  BY DEF UpInv, TableInv, StolenInv, StolenEnd, Apart, HeldInv, Index
<1>2. FreeingInv' /\ ReservedInv' /\ NoLeak'
  BY DEF FreeingInv, ReservedInv, NoLeak, Index, IptPages
<1> QED BY <1>1, <1>2

LEMMA AllocStartStep ==
    ASSUME IInv, NEW t \in Threads, NEW n \in 1 .. MaxReq, AllocStart(t, n)
    PROVE  IInv'
<1> USE ThreadAssumption, BoundAssumption
    DEF IInv, AllocStart, InterruptsOn, ram, Begin
<1>1. TypeOK' /\ BootInv' /\ UpInv' /\ TableInv'
  BY DEF TypeOK, CallType, BootInv, UpInv, TableInv, Index
<1>2. StolenInv' /\ HeldInv' /\ FreeingInv'
  BY DEF StolenInv, StolenEnd, Apart, HeldInv, FreeingInv, Index
<1>3. ReservedInv' /\ NoLeak'
  BY DEF ReservedInv, NoLeak, Index, IptPages
<1>4. ScanInv' /\ MissInv'
  BY DEF ScanInv, MissInv, TypeOK, Index
<1> QED BY <1>1, <1>2, <1>3, <1>4

LEMMA CallUpdate ==
    ASSUME call \in CallType, NEW x \in Nat, NEW y \in Nat,
           call' = [call EXCEPT !.i = x, !.len = y]
    PROVE  /\ call' \in CallType /\ call'.i = x /\ call'.len = y
           /\ call'.who = call.who /\ call'.npages = call.npages
BY DEF CallType

(* The facts both iterations of the loop start from. *)
LEMMA LoopFacts ==
    ASSUME IInv, Looping
    PROVE  /\ call.who # NoThread /\ bootstrapped /\ system_pages \in Nat
           /\ call \in CallType /\ ipt \in [Index -> Nat]
           /\ call.i \in Index /\ call.i \in Nat /\ call.npages \in Nat
           /\ call.len \in 0 .. call.i /\ call.len < call.npages
           /\ ipt[call.i] \in Nat
BY RamAssumption DEF IInv, TypeOK, CallType, Index, ScanInv, Looping

(* The loop leaves TypeOK and BootInv alone but for its own locals. *)
LEMMA LoopStep ==
    ASSUME IInv, UNCHANGED <<ram, ipt, avail_pages, freeing, held, wild>>,
           bootstrapped, call' \in CallType, call'.who = call.who,
           call'.npages = call.npages, call'.i <= system_pages,
           call'.len <= call'.i, ScanInv', MissInv'
    PROVE  IInv'
<1>1. TypeOK'
  BY DEF IInv, TypeOK, ram, Index
<1>2. BootInv'
  BY DEF BootInv, ram
<1> QED BY <1>1, <1>2, TableStill DEF IInv

LEMMA ScanSkipStep == ASSUME IInv, ScanSkip PROVE IInv'
<1>1. PICK i \in Nat, k \in Nat, n \in Nat :
          /\ i = call.i /\ k = ipt[i] /\ k > 0 /\ n = call.npages
          /\ i \in Index /\ call.len < n /\ n > 0
          /\ call' = [call EXCEPT !.i = i + k, !.len = 0]
  <2>1. Looping /\ ipt[call.i] > 0
        /\ call' = [call EXCEPT !.i = call.i + ipt[call.i], !.len = 0]
    BY DEF ScanSkip
  <2>2. call.npages > 0
    BY <2>1, LoopFacts
  <2> QED BY <2>1, <2>2, LoopFacts
<1>2. Looping /\ UNCHANGED <<ram, ipt, avail_pages, freeing, held, wild>>
  BY DEF ScanSkip
<1>3. /\ i + k <= system_pages
      /\ \A p \in Index : i < p /\ p < i + k => ipt[p] = 0
  BY <1>1 DEF IInv, TableInv
<1>4. /\ call' \in CallType /\ call'.i = i + k /\ call'.len = 0
      /\ call'.who = call.who /\ call'.npages = n
  <2>1. i + k \in Nat /\ 0 \in Nat /\ call \in CallType
    BY <1>1, <1>2, LoopFacts
  <2> QED BY <2>1, <1>1, CallUpdate
<1>5. ScanInv'
  <2>1. \E s \in Index : ipt[s] > 0 /\ s <= i + k - 1 /\ i + k - 1 < s + ipt[s]
    BY <1>1
  <2>2. \A s \in Index : ipt[s] > 0 /\ s < i + k => s + ipt[s] <= i + k
    <3> SUFFICES ASSUME NEW s \in Index, ipt[s] > 0, s < i + k
                 PROVE  s + ipt[s] <= i + k
      OBVIOUS
    <3>1. CASE s < i
      BY <3>1, <1>1, <1>2, LoopFacts DEF IInv, ScanInv, Index
    <3>2. CASE s >= i
      BY <3>2, <1>1, <1>3 DEF Index
    <3> QED BY <3>1, <3>2, <1>1 DEF Index
  <2>3. call'.i - call'.len - 1 = i + k - 1 /\ call'.i - call'.len = i + k
    BY <1>4
  <2> QED BY <1>1, <1>2, <1>4, <2>1, <2>2, <2>3
          DEF IInv, ScanInv, Covered, ram, Index
<1>6. MissInv'
  <2>1. \A s \in Nat : s + n <= i + k => ~FreeRun(s, n)
    <3> SUFFICES ASSUME NEW s \in Nat, s + n <= i + k
                 PROVE  ~FreeRun(s, n)
      OBVIOUS
    <3>1. CASE s + n <= i
      BY <3>1, <1>1, <1>2, LoopFacts DEF IInv, MissInv
    <3>2. CASE s + n > i
      <4>1. PICK p \in s .. s + n - 1 : i <= p /\ p < i + k
        <5>1. CASE s <= i
          BY <5>1, <3>2, <1>1
        <5>2. CASE s > i
          BY <5>2, <3>2, <1>1
        <5> QED BY <5>1, <5>2, <1>1
      <4>2. Covered(p)
        BY <4>1, <1>1 DEF Covered
      <4> QED BY <4>1, <4>2 DEF FreeRun
    <3> QED BY <3>1, <3>2, <1>1
  <2> QED BY <1>1, <1>2, <1>4, <2>1 DEF MissInv, FreeRun, Covered, Index, ram
<1> QED BY <1>1, <1>2, <1>3, <1>4, <1>5, <1>6, LoopStep, LoopFacts

LEMMA ScanFreeStep == ASSUME IInv, ScanFree PROVE IInv'
<1>1. PICK i \in Nat, l \in Nat, n \in Nat :
          /\ i = call.i /\ ipt[i] = 0 /\ n = call.npages /\ l = call.len
          /\ i \in Index /\ l < n /\ l <= i
          /\ call' = [call EXCEPT !.i = i + 1, !.len = l + 1]
  <2>1. Looping /\ ipt[call.i] = 0
        /\ call' = [call EXCEPT !.i = call.i + 1, !.len = call.len + 1]
    BY DEF ScanFree
  <2>2. call.len \in Nat /\ call.len <= call.i
    BY <2>1, LoopFacts
  <2> QED BY <2>1, <2>2, LoopFacts
<1>2. Looping /\ UNCHANGED <<ram, ipt, avail_pages, freeing, held, wild>>
  BY DEF ScanFree
<1>3. /\ call' \in CallType /\ call'.i = i + 1 /\ call'.len = l + 1
      /\ call'.who = call.who /\ call'.npages = n
  <2>1. i + 1 \in Nat /\ l + 1 \in Nat /\ call \in CallType
    BY <1>1, <1>2, LoopFacts
  <2> QED BY <2>1, <1>1, CallUpdate
<1>4. i = l \/ Covered(i - l - 1)
  BY <1>1, <1>2, LoopFacts DEF IInv, ScanInv
<1>5. ScanInv'
  <2>1. \A p \in Index : i - l <= p /\ p < i + 1 => ipt[p] = 0
    BY <1>1, <1>2, LoopFacts DEF IInv, ScanInv, Index
  <2>2. \A s \in Index : ipt[s] > 0 /\ s < i + 1 => s + ipt[s] <= i - l
    <3> SUFFICES ASSUME NEW s \in Index, ipt[s] > 0, s < i + 1
                 PROVE  s + ipt[s] <= i - l
      OBVIOUS
    <3>1. s < i
      BY <1>1 DEF Index
    <3> QED BY <3>1, <1>1, <1>2, LoopFacts DEF IInv, ScanInv
  <2>3. call'.i - call'.len - 1 = i - l - 1 /\ call'.i - call'.len = i - l
    BY <1>3
  <2> QED BY <1>1, <1>2, <1>3, <1>4, <2>1, <2>2, <2>3
          DEF IInv, ScanInv, Covered, ram, Index
<1>6. MissInv'
  <2>1. \A s \in Nat : s + n < i + 1 \/ (s + n = i + 1 /\ l + 1 < n)
                       => ~FreeRun(s, n)
    <3> SUFFICES ASSUME NEW s \in Nat,
                        s + n < i + 1 \/ (s + n = i + 1 /\ l + 1 < n)
                 PROVE  ~FreeRun(s, n)
      OBVIOUS
    <3>1. CASE s + n < i + 1
      BY <3>1, <1>1, <1>2, LoopFacts DEF IInv, MissInv
    <3>2. CASE s + n = i + 1 /\ l + 1 < n
      <4>1. i - l - 1 \in s .. s + n - 1 /\ i # l
        BY <3>2, <1>1
      <4> QED BY <4>1, <1>4 DEF FreeRun
    <3> QED BY <3>1, <3>2
  <2> QED BY <1>1, <1>2, <1>3, <2>1 DEF MissInv, FreeRun, Covered, Index, ram
<1> QED BY <1>1, <1>2, <1>3, <1>5, <1>6, LoopStep, LoopFacts DEF Index

------------------------------------------------------------------------------
(* The two ways out of alloc_ppages. *)
LEMMA AllocFailStep == ASSUME IInv, AllocFail PROVE IInv'
<1> USE ThreadAssumption, RamAssumption DEF IInv, AllocFail, ram
<1>1. /\ bootstrapped /\ lo > 0 /\ call.npages \in Nat
      /\ call' = NoCall /\ call'.who = NoThread
      /\ system_pages \in Nat /\ call.len \in Nat
  BY DEF ScanInv, UpInv, TypeOK, CallType, NoCall
<1>2. /\ \A r \in held' : r \in held \/ r.start = 0
      /\ held \subseteq held'
      /\ \A r \in held' : r \in [who : Threads, start : Nat, len : Nat \ {0}]
  BY <1>1 DEF Return, Grant, TypeOK, CallType, ScanInv
<1>3. TypeOK'
  BY <1>1, <1>2 DEF TypeOK, CallType, NoCall, Index
<1>4. BootInv' /\ UpInv' /\ TableInv'
  BY <1>1 DEF BootInv, UpInv, TableInv, Index
<1>5. StolenInv'
  BY <1>1, <1>2 DEF StolenInv, StolenEnd, Apart
<1>6. HeldInv' /\ FreeingInv' /\ NoLeak'
  <2>1. HeldInv'
    <3>1. \A r \in held' : r.start >= lo => r \in held
      BY <1>1, <1>2 DEF TypeOK
    <3> QED BY <3>1, <1>1 DEF HeldInv, Index
  <2>2. FreeingInv'
    BY <1>1, <1>2 DEF FreeingInv, Index, TypeOK
  <2>3. NoLeak'
    BY <1>2 DEF NoLeak, Index
  <2> QED BY <2>1, <2>2, <2>3
<1>7. ReservedInv'
  <2>1. CASE call.who # Vm
    BY <2>1, <1>1 DEF ReservedInv, Index, IptPages
  <2>2. CASE call.who = Vm
    <3>1. call.i = call.len /\ call.npages = IptPages(system_pages)
      BY <2>2 DEF ReservedInv, ScanInv, Covered, Index
    <3>2. system_pages <= IptPages(system_pages)
      BY <3>1, <1>1 DEF ScanInv
    <3>3. system_pages < 2
      BY <3>2, <1>1, IptPagesSize
    <3> QED BY <3>3, <2>2, <1>1 DEF ReservedInv, Index
  <2> QED BY <2>1, <2>2
<1>8. ScanInv' /\ MissInv'
  BY <1>1 DEF ScanInv, MissInv
<1> QED BY <1>3, <1>4, <1>5, <1>6, <1>7, <1>8

(* A scan that stops early has found n free pages in a row, from b on, and  *)
(* every allocated region lies wholly to one side of them.                  *)
LEMMA FoundFacts ==
    ASSUME IInv, AllocFound
    PROVE  \E b \in Index, n \in Nat \ {0} :
              /\ n = call.npages /\ b = call.i - n /\ b + n < system_pages
              /\ ipt' = [ipt EXCEPT ![b] = n]
              /\ Return(lo + b)
              /\ \A p \in Index : b <= p /\ p < b + n => ipt[p] = 0
              /\ \A s \in Index : ipt[s] > 0 /\ s < b + n => s + ipt[s] <= b
              /\ call.who = Vm => b = 0 /\ n = IptPages(system_pages)
              /\ call.who # Vm => b > 0
<1> USE RamAssumption, ThreadAssumption DEF IInv, AllocFound
<1>1. /\ call.i \in Nat /\ call.npages \in Nat /\ call.len \in Nat
      /\ system_pages \in Nat /\ ipt \in [Index -> Nat]
      /\ call.len <= call.i /\ call.i < system_pages /\ bootstrapped
  BY DEF TypeOK, CallType, ScanInv
<1>2. call.len = call.npages
  BY <1>1 DEF Looping, ScanInv
<1>3. call.npages > 0
  <2>1. CASE call.who = Vm
    BY <2>1, <1>1, IptPagesSize DEF ReservedInv
  <2>2. CASE call.who # Vm
    BY <2>2 DEF ScanInv
  <2> QED BY <2>1, <2>2
<1> DEFINE n == call.npages
           b == call.i - n
<1>4. b \in Index /\ b + n = call.i /\ b = call.i - call.len
  BY <1>1, <1>2, <1>3 DEF Index
<1>5. /\ \A p \in Index : b <= p /\ p < b + n => ipt[p] = 0
      /\ \A s \in Index : ipt[s] > 0 /\ s < b + n => s + ipt[s] <= b
  BY <1>1, <1>4 DEF ScanInv
<1>6. call.who = Vm => b = 0 /\ n = IptPages(system_pages)
  BY <1>1, <1>2 DEF ReservedInv, ScanInv, Covered, Index
<1>7. /\ n = call.npages /\ b = call.i - n /\ b + n < system_pages
      /\ ipt' = [ipt EXCEPT ![b] = n] /\ Return(lo + b)
      /\ n \in Nat \ {0}
  BY <1>1, <1>3
<1> HIDE DEF n, b
<1>8. call.who # Vm => b > 0
  <2> SUFFICES ASSUME call.who # Vm, b = 0 PROVE FALSE
    BY <1>4 DEF Index
  <2>0. system_pages >= 2
    BY <1>1, <1>7
  <2>1. ipt[0] = IptPages(system_pages)
    BY <2>0, <1>1 DEF ReservedInv
  <2>2. ipt[0] > 0
    BY <2>0, <2>1, <1>1, IptPagesSize
  <2> QED BY <2>2, <1>7, <1>4, <1>5
<1> QED BY <1>4, <1>5, <1>6, <1>7, <1>8

LEMMA AllocFoundStep == ASSUME IInv, AllocFound PROVE IInv'
<1> USE RamAssumption, ThreadAssumption
<1>1. PICK b \in Index, n \in Nat \ {0} :
          /\ n = call.npages /\ b + n < system_pages
          /\ ipt' = [ipt EXCEPT ![b] = n]
          /\ Return(lo + b)
          /\ \A p \in Index : b <= p /\ p < b + n => ipt[p] = 0
          /\ \A s \in Index : ipt[s] > 0 /\ s < b + n => s + ipt[s] <= b
          /\ call.who = Vm => b = 0 /\ n = IptPages(system_pages)
          /\ call.who # Vm => b > 0
  BY FoundFacts
<1>2. /\ bootstrapped /\ lo > 0 /\ lo \in Nat /\ call' = NoCall
      /\ call'.who = NoThread /\ system_pages \in Nat
      /\ b \in Nat /\ ipt \in [Index -> Nat]
      /\ Index' = Index /\ ipt' \in [Index -> Nat]
      /\ call.who \in Threads \cup {Vm}
      /\ UNCHANGED <<ram, freeing, wild>>
  <2>1. bootstrapped /\ lo > 0 /\ lo \in Nat
    BY DEF IInv, AllocFound, ScanInv, UpInv, TypeOK
  <2>2. call' = NoCall /\ call'.who = NoThread /\ call.who \in Threads \cup {Vm}
    BY DEF IInv, AllocFound, NoCall, TypeOK, CallType
  <2>3. system_pages \in Nat /\ ipt \in [Index -> Nat]
    BY DEF IInv, TypeOK
  <2>4. Index' = Index /\ UNCHANGED <<ram, freeing, wild>>
    BY DEF AllocFound, Index, ram
  <2>5. b \in Nat
    BY <2>3 DEF Index
  <2>6. ipt' \in [Index -> Nat]
    BY <1>1, <2>3
  <2> QED BY <2>1, <2>2, <2>3, <2>4, <2>5, <2>6
<1>3. \A p \in Index : ipt'[p] = IF p = b THEN n ELSE ipt[p]
  BY <1>1, <1>2
<1>4. /\ held \subseteq held'
      /\ \A r \in held' : r \in held \/ (r.start = lo + b /\ r.len = n /\ call.who # Vm)
      /\ held' \subseteq [who : Threads, start : Nat, len : Nat \ {0}]
      /\ \A q, r \in held' : q \notin held /\ r \notin held => q = r
      /\ call.who # Vm => \E r \in held' : r.start = lo + b /\ r.len = n
  <2>1. held \subseteq [who : Threads, start : Nat, len : Nat \ {0}]
    BY DEF IInv, TypeOK
  <2>2. CASE call.who = Vm
    BY <2>1, <2>2, <1>1 DEF Return
  <2>3. CASE call.who # Vm
    <3> DEFINE g == [who |-> call.who, start |-> lo + b, len |-> n]
    <3>1. held' = held \cup {g}
      BY <2>3, <1>1 DEF Return, Grant
    <3>2. g \in [who : Threads, start : Nat, len : Nat \ {0}]
      BY <2>3, <1>1, <1>2
    <3>3. g.start = lo + b /\ g.len = n
      OBVIOUS
    <3> HIDE DEF g
    <3> QED BY <2>1, <2>3, <3>1, <3>2, <3>3
  <2> QED BY <2>2, <2>3
<1>5. TypeOK'
  <2>1. call' \in CallType /\ call'.i = 0 /\ call'.len = 0
    BY <1>2 DEF NoCall, CallType
  <2>2. avail_pages' \in Int
    BY <1>1 DEF IInv, TypeOK, AllocFound
  <2> QED BY <2>1, <2>2, <1>2, <1>4 DEF IInv, TypeOK, ram
<1>6. BootInv' /\ UpInv'
  BY <1>2 DEF IInv, BootInv, UpInv, ram
<1>7. TableInv'
  <2> SUFFICES ASSUME NEW s \in Index, ipt'[s] > 0
               PROVE  /\ s + ipt'[s] <= system_pages
                      /\ \A p \in Index : s < p /\ p < s + ipt'[s] => ipt'[p] = 0
    BY <1>2 DEF TableInv, ram
  <2>1. CASE s = b
    BY <2>1, <1>1, <1>2, <1>3 DEF Index
  <2>2. CASE s # b
    <3>1. ipt'[s] = ipt[s] /\ ipt[s] > 0
      BY <2>2, <1>3
    <3>2. /\ s + ipt[s] <= system_pages
          /\ \A p \in Index : s < p /\ p < s + ipt[s] => ipt[p] = 0
      BY <3>1 DEF IInv, TableInv
    <3>3. ~(s < b /\ b < s + ipt[s])
      <4> SUFFICES ASSUME s < b PROVE s + ipt[s] <= b
        BY <1>2 DEF Index
      <4> QED BY <3>1, <1>1, <1>2 DEF Index
    <3> QED BY <3>1, <3>2, <3>3, <1>2, <1>3 DEF Index
  <2> QED BY <2>1, <2>2
<1>8. StolenInv'
  BY <1>1, <1>2, <1>4 DEF IInv, StolenInv, StolenEnd, Apart, ram
<1>9. HeldInv'
  <2>1. \A r \in held : r.start >= lo =>
            r.start - lo \in Index /\ r.start > lo /\ ipt[r.start - lo] = r.len
            /\ r.start # lo + b
    <3> SUFFICES ASSUME NEW r \in held, r.start >= lo
                 PROVE  /\ r.start - lo \in Index /\ r.start > lo
                        /\ ipt[r.start - lo] = r.len /\ r.start # lo + b
      OBVIOUS
    <3>1. r.start - lo \in Index /\ r.start > lo /\ ipt[r.start - lo] = r.len
      BY <1>2 DEF IInv, HeldInv
    <3>2. r.len > 0 /\ r.start \in Nat
      BY DEF IInv, TypeOK
    <3>3. ipt[b] = 0
      BY <1>1, <1>2
    <3>4. r.start - lo # b
      BY <3>1, <3>2, <3>3
    <3> QED BY <3>1, <3>2, <3>4, <1>2
  <2>2. \A r \in held' : r.start >= lo =>
            r.start - lo \in Index /\ r.start > lo /\ ipt'[r.start - lo] = r.len
    BY <2>1, <1>1, <1>2, <1>3, <1>4 DEF Index
  <2>3. \A q, r \in held' : q.start >= lo /\ q.start = r.start => q = r
    BY <2>1, <1>2, <1>4 DEF IInv, HeldInv
  <2> QED BY <2>2, <2>3, <1>2 DEF HeldInv, ram
<1>10. FreeingInv'
  <2>1. \A t \in Threads : freeing[t].pc # "idle" => freeing[t].page # b
    BY <1>1 DEF IInv, FreeingInv, Index
  <2>2. \A t \in Threads, r \in held' :
            freeing[t].pc # "idle" => r.start # lo + freeing[t].page
    BY <2>1, <1>2, <1>4 DEF IInv, FreeingInv, Index
  <2> QED BY <2>1, <2>2, <1>2, <1>3 DEF IInv, FreeingInv, ram
<1>11. ReservedInv'
  <2>1. system_pages >= 2
    BY <1>1, <1>2
  <2>2. ipt'[0] = IptPages(system_pages)
    <3>1. CASE call.who = Vm
      BY <3>1, <1>1, <1>3
    <3>2. CASE call.who # Vm
      BY <3>2, <2>1, <1>1, <1>2, <1>3 DEF IInv, ReservedInv, Index
    <3> QED BY <3>1, <3>2
  <2> QED BY <2>1, <2>2, <1>2 DEF ReservedInv, ram, IptPages
<1>12. ScanInv' /\ MissInv'
  BY <1>2 DEF ScanInv, MissInv
<1>13. NoLeak'
  <2> SUFFICES ASSUME NEW s \in Index, ipt'[s] > 0, s # 0
               PROVE  \/ \E r \in held' : r.start = lo + s /\ r.len = ipt'[s]
                      \/ \E t \in Threads : freeing[t].pc # "idle" /\ freeing[t].page = s
    BY <1>2 DEF NoLeak, ram
  <2>1. CASE s = b
    BY <2>1, <1>1, <1>3, <1>4
  <2>2. CASE s # b
    BY <2>2, <1>3, <1>4 DEF IInv, NoLeak
  <2> QED BY <2>1, <2>2
<1> QED BY <1>5, <1>6, <1>7, <1>8, <1>9, <1>10, <1>11, <1>12, <1>13 DEF IInv

------------------------------------------------------------------------------
(* free_ppages, one step of one thread at a time. *)
LEMMA FreeStartStep ==
    ASSUME IInv, NEW t \in Threads, NEW r \in held, FreeStart(t, r)
    PROVE  IInv'
<1>1. /\ bootstrapped /\ call.who = NoThread /\ freeing[t].pc = "idle"
      /\ r.start >= lo /\ held' = held \ {r}
      /\ UNCHANGED <<ram, ipt, avail_pages, call, wild>>
  BY DEF FreeStart, InterruptsOn, NoFree
<1>2. PICK b \in Index : b = r.start - lo /\ r.start = lo + b /\ b > 0 /\ ipt[b] > 0
  <2>1. r.start - lo \in Index /\ r.start > lo /\ ipt[r.start - lo] = r.len
    BY <1>1 DEF IInv, HeldInv
  <2>2. r.start \in Nat /\ lo \in Nat /\ r.len > 0
    BY DEF IInv, TypeOK
  <2> QED BY <2>1, <2>2
<1>3. /\ freeing' \in [Threads ->
             [pc : {"idle", "add", "clear"}, page : Nat, sum : Int]]
      /\ freeing'[t].pc = "add" /\ freeing'[t].page = b
      /\ \A u \in Threads : u # t => freeing'[u] = freeing[u]
  <2>1. avail_pages + ipt[b] \in Int /\ b \in Nat
    BY DEF IInv, TypeOK, Index
  <2> QED BY <2>1, <1>2 DEF FreeStart, IInv, TypeOK
<1>4. TypeOK'
  BY <1>1, <1>2, <1>3 DEF IInv, TypeOK, ram, Index
<1>5. BootInv' /\ UpInv' /\ TableInv'
  BY <1>1 DEF IInv, BootInv, UpInv, TableInv, ram, Index
<1>6. StolenInv' /\ HeldInv'
  BY <1>1 DEF IInv, StolenInv, StolenEnd, Apart, HeldInv, ram, Index
<1>7. FreeingInv'
  <2>1. \A q \in held' : q.start # lo + b
    BY <1>1, <1>2 DEF IInv, HeldInv
  <2>2. \A u \in Threads : freeing[u].pc # "idle" => freeing[u].page # b
    BY <1>2 DEF IInv, FreeingInv
  <2> QED BY <2>1, <2>2, <1>1, <1>2, <1>3 DEF IInv, FreeingInv, ram, Index
<1>8. ReservedInv' /\ ScanInv' /\ MissInv'
  BY <1>1, ThreadAssumption
     DEF IInv, ReservedInv, ScanInv, MissInv, ram, Index, IptPages
<1>9. NoLeak'
  <2> SUFFICES ASSUME NEW s \in Index, ipt[s] > 0, s # 0
               PROVE  \/ \E q \in held' : q.start = lo + s /\ q.len = ipt[s]
                      \/ \E u \in Threads : freeing'[u].pc # "idle" /\ freeing'[u].page = s
    BY <1>1 DEF NoLeak, ram, Index
  <2>1. CASE s = b
    BY <2>1, <1>3
  <2>2. CASE s # b
    <3>1. r.start # lo + s
      BY <2>2, <1>2 DEF IInv, TypeOK, Index
    <3> QED BY <3>1, <1>1, <1>3 DEF IInv, NoLeak
  <2> QED BY <2>1, <2>2
<1> QED BY <1>4, <1>5, <1>6, <1>7, <1>8, <1>9 DEF IInv

LEMMA FreeWildStep ==
    ASSUME IInv, NEW t \in Threads, NEW r \in held, FreeWild(t, r)
    PROVE  IInv'
<1>1. /\ bootstrapped /\ call.who = NoThread /\ r.start = 0
      /\ held' = held \ {r} /\ wild' \in BOOLEAN
      /\ UNCHANGED <<ram, ipt, avail_pages, call, freeing>>
  BY DEF FreeWild, InterruptsOn
<1>2. lo > 0 /\ lo \in Nat
  BY <1>1, RamAssumption DEF IInv, UpInv, TypeOK
<1>3. TypeOK' /\ BootInv' /\ UpInv' /\ TableInv'
  BY <1>1 DEF IInv, TypeOK, BootInv, UpInv, TableInv, ram, Index
<1>4. StolenInv' /\ HeldInv'
  BY <1>1 DEF IInv, StolenInv, StolenEnd, Apart, HeldInv, ram, Index
<1>5. FreeingInv'
  BY <1>1 DEF IInv, FreeingInv, ram, Index
<1>6. ReservedInv' /\ ScanInv' /\ MissInv'
  BY <1>1, ThreadAssumption
     DEF IInv, ReservedInv, ScanInv, MissInv, ram, Index, IptPages
<1>7. NoLeak'
  <2>1. \A s \in Index : r.start # lo + s
    BY <1>1, <1>2 DEF Index
  <2> QED BY <2>1, <1>1 DEF IInv, NoLeak, ram, Index
<1> QED BY <1>3, <1>4, <1>5, <1>6, <1>7 DEF IInv

LEMMA FreeAddStep ==
    ASSUME IInv, NEW t \in Threads, FreeAdd(t)
    PROVE  IInv'
<1>1. /\ call.who = NoThread /\ freeing[t].pc = "add"
      /\ UNCHANGED <<ram, ipt, call, held, wild>>
  BY DEF FreeAdd, InterruptsOn
<1>2. /\ freeing' \in [Threads ->
             [pc : {"idle", "add", "clear"}, page : Nat, sum : Int]]
      /\ avail_pages' \in Int
      /\ freeing'[t].pc = "clear"
      /\ \A u \in Threads : /\ freeing'[u].page = freeing[u].page
                            /\ u # t => freeing'[u] = freeing[u]
  BY DEF FreeAdd, IInv, TypeOK
<1>3. \A u \in Threads : freeing'[u].pc # "idle" <=> freeing[u].pc # "idle"
  BY <1>1, <1>2
<1>4. TypeOK'
  BY <1>1, <1>2, <1>3 DEF IInv, TypeOK, ram, Index
<1>5. BootInv' /\ UpInv' /\ TableInv'
  BY <1>1 DEF IInv, BootInv, UpInv, TableInv, ram, Index, NoFree
<1>6. StolenInv' /\ HeldInv'
  BY <1>1 DEF IInv, StolenInv, StolenEnd, Apart, HeldInv, ram, Index
<1>7. FreeingInv'
  BY <1>1, <1>2, <1>3 DEF IInv, FreeingInv, ram, Index
<1>8. ReservedInv' /\ ScanInv' /\ MissInv'
  BY <1>1, ThreadAssumption
     DEF IInv, ReservedInv, ScanInv, MissInv, ram, Index, IptPages
<1>9. NoLeak'
  BY <1>1, <1>2, <1>3 DEF IInv, NoLeak, ram, Index
<1> QED BY <1>4, <1>5, <1>6, <1>7, <1>8, <1>9 DEF IInv

LEMMA FreeClearStep ==
    ASSUME IInv, NEW t \in Threads, FreeClear(t)
    PROVE  IInv'
<1>1. /\ call.who = NoThread /\ freeing[t].pc = "clear"
      /\ UNCHANGED <<ram, avail_pages, call, held, wild>>
  BY DEF FreeClear, InterruptsOn
<1>2. PICK b \in Index : b = freeing[t].page /\ b > 0 /\ ipt[b] > 0
                        /\ bootstrapped /\ \A r \in held : r.start # lo + b
  BY <1>1 DEF IInv, FreeingInv
<1>3. /\ ipt' \in [Index -> Nat] /\ ipt'[b] = 0
      /\ \A p \in Index : p # b => ipt'[p] = ipt[p]
  BY <1>2 DEF FreeClear, IInv, TypeOK
<1>4. /\ freeing' \in [Threads ->
             [pc : {"idle", "add", "clear"}, page : Nat, sum : Int]]
      /\ freeing'[t].pc = "idle"
      /\ \A u \in Threads : u # t => freeing'[u] = freeing[u]
  BY DEF FreeClear, IInv, TypeOK, NoFree
<1>5. \A u \in Threads : u # t /\ freeing[u].pc # "idle" => freeing[u].page # b
  BY <1>1, <1>2 DEF IInv, FreeingInv
<1>6. TypeOK'
  BY <1>1, <1>3, <1>4 DEF IInv, TypeOK, ram, Index
<1>7. BootInv' /\ UpInv'
  BY <1>1, <1>2 DEF IInv, BootInv, UpInv, ram
<1>8. TableInv'
  BY <1>1, <1>3 DEF IInv, TableInv, ram, Index
<1>9. StolenInv'
  BY <1>1 DEF IInv, StolenInv, StolenEnd, Apart, ram
<1>10. HeldInv'
  <2>1. \A r \in held : r.start >= lo => r.start - lo # b
    BY <1>2 DEF IInv, TypeOK, Index
  <2> QED BY <2>1, <1>1, <1>2, <1>3 DEF IInv, HeldInv, ram, Index
<1>11. FreeingInv'
  <2>1. \A u \in Threads : freeing'[u].pc # "idle" =>
            u # t /\ freeing'[u] = freeing[u] /\ freeing[u].pc # "idle"
    BY <1>4
  <2>2. \A u \in Threads : freeing'[u].pc # "idle" =>
            freeing[u].page \in Index /\ ipt'[freeing[u].page] > 0
    BY <2>1, <1>3, <1>5 DEF IInv, FreeingInv
  <2> QED BY <2>1, <2>2, <1>1 DEF IInv, FreeingInv, ram, Index
<1>12. ReservedInv'
  BY <1>1, <1>2, <1>3, ThreadAssumption
     DEF IInv, ReservedInv, ram, Index, IptPages, TypeOK
<1>13. ScanInv' /\ MissInv'
  BY <1>1 DEF ScanInv, MissInv
<1>14. NoLeak'
  <2> SUFFICES ASSUME NEW s \in Index, ipt'[s] > 0, s # 0
               PROVE  \/ \E r \in held : r.start = lo + s /\ r.len = ipt'[s]
                      \/ \E u \in Threads : freeing'[u].pc # "idle" /\ freeing'[u].page = s
    BY <1>1 DEF NoLeak, ram, Index
  <2>1. s # b /\ ipt'[s] = ipt[s]
    BY <1>3
  <2> QED BY <2>1, <1>2, <1>4 DEF IInv, NoLeak
<1> QED BY <1>6, <1>7, <1>8, <1>9, <1>10, <1>11, <1>12, <1>13, <1>14 DEF IInv

------------------------------------------------------------------------------
LEMMA Induction == IInv /\ [Next]_vars => IInv'
<1> SUFFICES ASSUME IInv, [Next]_vars PROVE IInv'
  OBVIOUS
<1>1. ASSUME NEW t \in Threads, NEW n \in 1 .. MaxReq,
             Steal(t, n) \/ StealFail(t, n) \/ AllocStart(t, n)
      PROVE  IInv'
  BY <1>1, StealStep, AllocStartStep
<1>2. ASSUME NEW t \in Threads, NEW r \in held, FreeStart(t, r) \/ FreeWild(t, r)
      PROVE  IInv'
  BY <1>2, FreeStartStep, FreeWildStep
<1>3. ASSUME NEW t \in Threads, FreeAdd(t) \/ FreeClear(t)
      PROVE  IInv'
  BY <1>3, FreeAddStep, FreeClearStep
<1>4. CASE VmBootstrap \/ ScanSkip \/ ScanFree \/ AllocFail \/ AllocFound
  BY <1>4, VmBootstrapStep, ScanSkipStep, ScanFreeStep, AllocFailStep,
     AllocFoundStep
<1>5. CASE UNCHANGED vars
  <2> USE <1>5 DEF vars, IInv
  <2>1. TypeOK' /\ BootInv' /\ UpInv' /\ TableInv'
    BY DEF TypeOK, BootInv, UpInv, TableInv, Index
  <2>2. StolenInv' /\ HeldInv' /\ FreeingInv'
    BY DEF StolenInv, StolenEnd, Apart, HeldInv, FreeingInv, Index
  <2>3. ReservedInv' /\ NoLeak'
    BY DEF ReservedInv, NoLeak, Index, IptPages
  <2>4. ScanInv' /\ MissInv'
    BY DEF ScanInv, MissInv, FreeRun, Covered, Index
  <2> QED BY <2>1, <2>2, <2>3, <2>4
<1> QED BY <1>1, <1>2, <1>3, <1>4, <1>5 DEF Next

LEMMA Invariance == Spec => []IInv
<1>1. Init => IInv
  BY InitInv
<1>2. IInv /\ [Next]_vars => IInv'
  BY Induction
<1> QED BY <1>1, <1>2, PTL DEF Spec

(***************************************************************************)
(* Type correctness of ram.c and the page allocator, with the bounds of     *)
(* every index into the table.                                              *)
(***************************************************************************)
THEOREM TypeCorrect == Spec => []TypeOK
<1>1. IInv => TypeOK
  BY DEF IInv
<1> QED BY <1>1, Invariance, PTL

(***************************************************************************)
(* alloc_kpages never gives the same page of RAM to two callers, whatever   *)
(* the size of RAM, the requests and the interleaving of the frees.         *)
(***************************************************************************)
THEOREM NoSharedPage == Spec => []HeldApart
<1>1. IInv => HeldApart
  <2> SUFFICES ASSUME IInv PROVE HeldApart
    OBVIOUS
  <2>1. held \subseteq [who : Threads, start : Nat, len : Nat \ {0}]
        /\ lo \in Nat /\ system_pages \in Nat /\ firstpaddr <= RamPages
        /\ firstpaddr \in Nat
    BY RamAssumption DEF IInv, TypeOK
  <2>2. CASE ~bootstrapped
    BY <2>1, <2>2, RamAssumption
       DEF IInv, StolenInv, StolenEnd, HeldApart
  <2>3. CASE bootstrapped
    <3>1. \A r \in held : r.start > 0 /\ r.start < lo =>
              FirstPage <= r.start /\ r.start + r.len <= lo
      BY <2>3 DEF IInv, StolenInv, StolenEnd
    <3>2. \A r \in held : r.start >= lo =>
              /\ r.start - lo \in Index /\ ipt[r.start - lo] = r.len
              /\ r.start + r.len <= RamPages
      BY <2>1, <2>3 DEF IInv, HeldInv, TableInv, UpInv
    <3>3. ASSUME NEW q \in held, NEW r \in held, q.start >= lo, q.start < r.start
          PROVE  q.start + q.len <= r.start
      <4>1. ipt[r.start - lo] > 0
        BY <3>2, <3>3, <2>1
      <4> QED BY <4>1, <3>2, <3>3, <2>1 DEF IInv, TableInv
    <3>4. ASSUME NEW q \in held, NEW r \in held, q # r, q.start > 0, r.start > 0
          PROVE  Apart(q, r)
      <4>1. CASE q.start < lo /\ r.start < lo
        BY <4>1, <3>4, <2>3 DEF IInv, StolenInv, StolenEnd
      <4>2. CASE q.start >= lo /\ r.start >= lo
        <5>1. q.start # r.start
          BY <4>2, <3>4, <2>3 DEF IInv, HeldInv
        <5> QED BY <5>1, <4>2, <3>3, <2>1 DEF Apart
      <4>3. CASE q.start < lo /\ r.start >= lo
        BY <4>3, <3>1, <3>4, <2>1 DEF Apart
      <4>4. CASE q.start >= lo /\ r.start < lo
        BY <4>4, <3>1, <3>4, <2>1 DEF Apart
      <4> QED BY <4>1, <4>2, <4>3, <4>4, <2>1
    <3>5. \A r \in held : r.start > 0 =>
              FirstPage <= r.start /\ r.start + r.len <= RamPages
      BY <3>1, <3>2, <2>1, <2>3, RamAssumption DEF IInv, UpInv
    <3> QED BY <3>4, <3>5 DEF HeldApart
  <2> QED BY <2>2, <2>3
<1> QED BY <1>1, Invariance, PTL

(***************************************************************************)
(* The pages the table itself lies in are never given to a caller: the      *)
(* reservation vm_bootstrap makes through the table it has just built       *)
(* cannot fail while there is a page left to hand out.                      *)
(***************************************************************************)
THEOREM TableSafe == Spec => []TableReserved
<1>1. IInv => TableReserved
  <2> SUFFICES ASSUME IInv, NEW r \in held, bootstrapped, r.start >= lo
               PROVE  (r.start - lo) * PtrsPerPage >= system_pages
    BY DEF TableReserved
  <2>1. /\ r.start - lo \in Index /\ r.start > lo /\ ipt[r.start - lo] = r.len
        /\ r.len > 0 /\ r.start \in Nat /\ lo \in Nat /\ system_pages \in Nat
    BY DEF IInv, HeldInv, TypeOK
  <2>2. system_pages >= 2 /\ call.who # Vm
    BY <2>1 DEF IInv, ReservedInv
  <2>3. 0 \in Index /\ ipt[0] = IptPages(system_pages) /\ ipt[0] > 0
    BY <2>1, <2>2, IptPagesSize DEF IInv, ReservedInv, Index
  <2>4. IptPages(system_pages) \in Nat
    BY <2>1, IptPagesSize
  <2>5. r.start - lo >= IptPages(system_pages)
    BY <2>1, <2>3, <2>4 DEF IInv, TableInv, Index
  <2>6. PICK d \in Nat : r.start - lo = IptPages(system_pages) + d
    <3>1. (r.start - lo) - IptPages(system_pages) \in Nat
      BY <2>1, <2>4, <2>5
    <3> QED BY <3>1, <2>1, <2>4
  <2> DEFINE k == IptPages(system_pages)
  <2>7. k \in Nat /\ PtrsPerPage \in Nat /\ k * PtrsPerPage >= system_pages
    BY <2>1, <2>4, IptPagesSize, SizeAssumption
  <2> HIDE DEF k
  <2>8. (k + d) * PtrsPerPage = k * PtrsPerPage + d * PtrsPerPage
        /\ d * PtrsPerPage \in Nat /\ k * PtrsPerPage \in Nat
    BY <2>7
  <2> QED BY <2>1, <2>6, <2>7, <2>8 DEF k
<1> QED BY <1>1, Invariance, PTL

(***************************************************************************)
(* The first-fit scan of alloc_ppages is complete up to the last page.      *)
(***************************************************************************)
THEOREM ScanComplete == Spec => []FailsOnlyWhenFull
<1>1. IInv => FailsOnlyWhenFull
  BY DEF IInv, MissInv, FailsOnlyWhenFull, TypeOK, CallType
<1> QED BY <1>1, Invariance, PTL

(***************************************************************************)
(* No region of the table is ever lost by a caller or by a free.            *)
(***************************************************************************)
THEOREM NothingLeaks == Spec => []NoLeak
<1>1. IInv => NoLeak
  BY DEF IInv
<1> QED BY <1>1, Invariance, PTL

------------------------------------------------------------------------------
(***************************************************************************)
(* The table and its scan implement the abstract allocator.                 *)
(***************************************************************************)
THEOREM Refinement == Spec => AbsSpec
<1>1. Init => Abs!Init
  BY DEF Init, Abs!Init, OwnedRegions, Index
<1>2. IInv /\ [Next]_vars => [Abs!Next]_OwnedRegions
  <2> SUFFICES ASSUME IInv, [Next]_vars
               PROVE  Abs!Next \/ OwnedRegions' = OwnedRegions
    OBVIOUS
  <2>1. CASE AllocFound
    <3>1. PICK b \in Index, n \in Nat \ {0} :
              /\ b + n < system_pages
              /\ ipt' = [ipt EXCEPT ![b] = n]
              /\ \A p \in Index : b <= p /\ p < b + n => ipt[p] = 0
              /\ \A s \in Index : ipt[s] > 0 /\ s < b + n => s + ipt[s] <= b
      BY <2>1, FoundFacts
    <3>2. /\ system_pages \in 0 .. RamPages /\ ipt \in [Index -> Nat]
          /\ Index' = Index /\ b \in Nat
      BY <2>1 DEF IInv, TypeOK, AllocFound, ram, Index
    <3> DEFINE g == [start |-> b, len |-> n]
    <3>3. g \in Abs!Region /\ g.start + g.len <= RamPages
      BY <3>1, <3>2, RamAssumption DEF Abs!Region
    <3>4. \A q \in OwnedRegions : Abs!Apart(q, g)
      <4> SUFFICES ASSUME NEW s \in Index, ipt[s] > 0
                   PROVE  s + ipt[s] <= b \/ b + n <= s
        BY DEF OwnedRegions, Abs!Apart
      <4>1. ~(b <= s /\ s < b + n)
        BY <3>1
      <4> QED BY <4>1, <3>1, <3>2 DEF Index
    <3>5. OwnedRegions' = OwnedRegions \cup {g}
      <4>1. ipt[b] = 0 /\ ipt'[b] = n
        BY <3>1, <3>2
      <4>2. \A s \in Index : s # b => ipt'[s] = ipt[s]
        BY <3>1, <3>2
      <4> QED BY <3>1, <3>2, <4>1, <4>2 DEF OwnedRegions
    <3> QED BY <3>3, <3>4, <3>5 DEF Abs!Next, Abs!Grant
  <2>2. ASSUME NEW t \in Threads, FreeClear(t) PROVE Abs!Next
    <3>1. PICK b \in Index : b = freeing[t].page /\ ipt[b] > 0
      BY <2>2 DEF IInv, FreeingInv, FreeClear
    <3>2. /\ system_pages \in 0 .. RamPages /\ ipt \in [Index -> Nat]
          /\ Index' = Index /\ ipt' = [ipt EXCEPT ![b] = 0]
      BY <2>2, <3>1 DEF IInv, TypeOK, FreeClear, ram, Index
    <3> DEFINE g == [start |-> b, len |-> ipt[b]]
    <3>3. g \in Abs!Region
      <4>1. b + ipt[b] <= system_pages
        BY <3>1 DEF IInv, TableInv
      <4> QED BY <4>1, <3>1, <3>2, RamAssumption DEF Abs!Region, Index
    <3>4. g \in OwnedRegions
      BY <3>1 DEF OwnedRegions
    <3>5. OwnedRegions' = OwnedRegions \ {g}
      <4>1. ipt'[b] = 0 /\ \A s \in Index : s # b => ipt'[s] = ipt[s]
        BY <3>2
      <4> QED BY <3>1, <3>2, <4>1 DEF OwnedRegions
    <3> QED BY <3>3, <3>4, <3>5 DEF Abs!Next, Abs!Release
  <2>3. CASE VmBootstrap
    BY <2>3 DEF IInv, BootInv, VmBootstrap, OwnedRegions, Index
  <2>4. CASE ScanSkip \/ ScanFree \/ AllocFail \/ UNCHANGED vars
    BY <2>4 DEF ScanSkip, ScanFree, AllocFail, vars, ram, OwnedRegions, Index
  <2>5. ASSUME NEW t \in Threads, NEW n \in 1 .. MaxReq,
               Steal(t, n) \/ StealFail(t, n) \/ AllocStart(t, n)
        PROVE  OwnedRegions' = OwnedRegions
    BY <2>5 DEF Steal, StealFail, AllocStart, ram, OwnedRegions, Index
  <2>6. ASSUME NEW t \in Threads, NEW r \in held, FreeStart(t, r) \/ FreeWild(t, r)
        PROVE  OwnedRegions' = OwnedRegions
    BY <2>6 DEF FreeStart, FreeWild, ram, OwnedRegions, Index
  <2>7. ASSUME NEW t \in Threads, FreeAdd(t)
        PROVE  OwnedRegions' = OwnedRegions
    BY <2>7 DEF FreeAdd, ram, OwnedRegions, Index
  <2> QED BY <2>1, <2>2, <2>3, <2>4, <2>5, <2>6, <2>7 DEF Next
<1> QED BY <1>1, <1>2, Invariance, PTL DEF Spec, AbsSpec, Abs!Spec

==============================================================================
