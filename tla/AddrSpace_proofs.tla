-------------------------- MODULE AddrSpace_proofs ---------------------------
(***************************************************************************)
(* Proofs about AddrSpace for every number of frames, programs, TLB slots   *)
(* and virtual pages.  IInv is the inductive invariant; it says frame by    *)
(* frame what FramesExclusive and FramesAccounted say of sets.              *)
(***************************************************************************)
EXTENDS AddrSpace, TLAPS

(* A thread without an address space has no page table. *)
EmptyInv ==
    \A t \in Programs : phase[t] \in {"none", "start"} =>
        /\ pt[t] = NoFrame
        /\ \A h \in HiIndex : node[t][h] = NoFrame
        /\ \A v \in VPages : leaf[t][v] = NoFrame

(* Frames of page tables are allocated, and not by the rest of the kernel. *)
Taken(f) == f \in used /\ f \notin kernel

TakenInv ==
    \A t \in Programs :
        /\ pt[t] # NoFrame => Taken(pt[t])
        /\ \A h \in HiIndex : node[t][h] # NoFrame => Taken(node[t][h])
        /\ \A v \in VPages : leaf[t][v] # NoFrame => Taken(leaf[t][v])

(* Each is in one place of one page table. *)
PlaceInv ==
    \A t, u \in Programs :
        /\ pt[t] # NoFrame /\ pt[t] = pt[u] => t = u
        /\ \A h \in HiIndex : node[t][h] # NoFrame =>
              /\ node[t][h] # pt[u]
              /\ \A i \in HiIndex : node[t][h] = node[u][i] => t = u /\ h = i
              /\ \A v \in VPages : node[t][h] # leaf[u][v]
        /\ \A v \in VPages : leaf[t][v] # NoFrame =>
              /\ leaf[t][v] # pt[u]
              /\ \A w \in VPages : leaf[t][v] = leaf[u][w] => t = u /\ v = w

(* A mapped page is in a node of the table. *)
NodeInv ==
    \A t \in Programs : \A v \in VPages :
        leaf[t][v] # NoFrame => node[t][Hi(v)] # NoFrame

(* Every allocated frame is somebody's. *)
Has(t, f) ==
    \/ pt[t] = f
    \/ \E h \in HiIndex : node[t][h] = f
    \/ \E v \in VPages : leaf[t][v] = f

OwnerInv == \A f \in used : f \in kernel \/ \E t \in Programs : Has(t, f)

(* A miss is only pending in a thread that may access user memory, and     *)
(* still misses when that thread runs.                                     *)
PendingInv ==
    \A t \in Programs : pending[t] # NoPage =>
        /\ phase[t] \in {"load", "user"}
        /\ curthread = t => \A s \in Slots : tlb[s].vpage # pending[t]

TlbInv ==
    /\ \A s \in Slots : tlb[s] = Invalid \/ tlb[s].vpage \in VPages
    /\ TlbUnique /\ TlbCoherent

IInv ==
    /\ TypeOK /\ EmptyInv /\ TakenInv /\ PlaceInv /\ NodeInv /\ OwnerInv
    /\ PendingInv /\ TlbInv /\ NoDataLeak

------------------------------------------------------------------------------
(* Steps that leave the page tables and the allocated frames alone. *)
LEMMA FramesStill ==
    ASSUME IInv, UNCHANGED <<pt, node, leaf, used, kernel>>
    PROVE  TakenInv' /\ PlaceInv' /\ NodeInv' /\ OwnerInv'
<1>1. TakenInv' /\ PlaceInv' /\ NodeInv'
  BY DEF IInv, TakenInv, Taken, PlaceInv, NodeInv, HiIndex, VPages
<1>2. OwnerInv'
  BY DEF IInv, OwnerInv, Has
<1> QED BY <1>1, <1>2

LEMMA InitInv == Init => IInv
<1> SUFFICES ASSUME Init PROVE IInv
  OBVIOUS
<1> USE SizeAssumption, MenuAssumption DEF Init
<1>1. TypeOK
  <2>1. as \in [Programs -> [vbase1 : Nat, npages1 : Nat, vbase2 : Nat,
                             npages2 : Nat, npages_s : Nat]]
    BY DEF NoAs
  <2>2. /\ pt \in [Programs -> Frames \cup {NoFrame}]
        /\ node \in [Programs -> [HiIndex -> Frames \cup {NoFrame}]]
        /\ leaf \in [Programs -> [VPages -> Frames \cup {NoFrame}]]
    BY DEF NoNodes, NoLeaves
  <2>3. /\ image \in [Programs -> Executables \cup {<<>>}]
        /\ nsegs \in [Programs -> Nat]
    OBVIOUS
  <2>4. tlb \in [Slots -> [vpage : VPages \cup {NoPage}, frame : Frames \cup {NoFrame}]]
    BY DEF EmptyTlb, Invalid
  <2>5. /\ curthread \in Threads /\ phase \in [Programs -> Phases]
        /\ pending \in [Programs -> VPages \cup {NoPage}]
        /\ mem \in [Frames -> Programs \cup {"other", "zero"}]
        /\ halted \in {"no", "handlers", "killed"}
        /\ used \subseteq Frames /\ kernel \subseteq used
    BY DEF Threads, Phases
  <2> QED BY <2>1, <2>2, <2>3, <2>4, <2>5 DEF TypeOK
<1>2. EmptyInv /\ TakenInv /\ PlaceInv /\ NodeInv /\ OwnerInv
  BY DEF EmptyInv, TakenInv, PlaceInv, NodeInv, OwnerInv, NoNodes, NoLeaves
<1>3. PendingInv /\ NoDataLeak
  BY DEF PendingInv, NoDataLeak, NoLeaves
<1>4. TlbInv
  <2>1. \A s \in Slots : tlb[s] = Invalid
    BY DEF EmptyTlb
  <2>2. \A t \in Programs : curthread # t
    OBVIOUS
  <2> QED BY <2>1, <2>2 DEF TlbInv, TlbUnique, TlbCoherent
<1> QED BY <1>1, <1>2, <1>3, <1>4 DEF IInv

------------------------------------------------------------------------------
(* Context switch, and the steps of runprogram and load_elf. *)
LEMMA SwitchStep == ASSUME IInv, NEW u \in Threads, Switch(u) PROVE IInv'
<1> USE SizeAssumption, MenuAssumption
    DEF IInv, Switch, SwitchTo, tables
<1>1. TypeOK'
  BY DEF TypeOK, Live, Threads, EmptyTlb, Invalid
<1>2. EmptyInv' /\ NoDataLeak'
  BY DEF EmptyInv, NoDataLeak
<1>3. PendingInv'
  BY DEF PendingInv, HasSpace, EmptyTlb, Invalid, NoPage, TypeOK
<1>4. TlbInv'
  BY DEF TlbInv, TlbUnique, TlbCoherent, HasSpace, EmptyTlb, Invalid, TypeOK
<1> QED BY <1>1, <1>2, <1>3, <1>4, FramesStill

(* Only the phase of t, its executable and its regions change. *)
LEMMA PhaseStep ==
    ASSUME IInv, NEW t \in Programs,
           UNCHANGED <<curthread, pt, node, leaf, pending, used, kernel, mem, tlb>>,
           TypeOK', pending[t] = NoPage,
           \A u \in Programs : u # t => phase'[u] = phase[u],
           phase[t] = "none" => phase'[t] = "start",
           phase[t] # "none" => phase'[t] \in {"define", "load", "user", "failed"},
           phase[t] \in {"start", "created", "failed"} => phase'[t] = "failed"
    PROVE  IInv'
<1> USE DEF IInv
<1>1. EmptyInv' /\ NoDataLeak'
  BY DEF EmptyInv, NoDataLeak, TypeOK
<1>2. PendingInv'
  BY DEF PendingInv
<1>3. TlbInv'
  <2>1. \A u \in Programs : phase'[u] \in {"define", "load", "user"} =>
            phase[u] \in {"define", "load", "user"}
    BY DEF TypeOK, Phases
  <2> QED BY <2>1 DEF TlbInv, TlbUnique, TlbCoherent
<1> QED BY <1>1, <1>2, <1>3, FramesStill

(* A thread that may not have a miss pending has none. *)
LEMMA NotPending ==
    ASSUME IInv, NEW t \in Programs, phase[t] \notin {"load", "user"}
    PROVE  pending[t] = NoPage
BY DEF IInv, PendingInv

LEMMA ForkStep ==
    ASSUME IInv, NEW t \in Programs, NEW x \in Executables, Fork(t, x)
    PROVE  IInv'
<1>1. TypeOK'
  <2>1. image' \in [Programs -> Executables \cup {<<>>}]
    BY DEF IInv, TypeOK, Fork
  <2>2. phase' \in [Programs -> Phases]
    BY DEF IInv, TypeOK, Fork, Phases
  <2> QED BY <2>1, <2>2 DEF IInv, TypeOK, Fork
<1>2. /\ phase'[t] = "start" /\ phase[t] = "none"
      /\ \A u \in Programs : u # t => phase'[u] = phase[u]
      /\ UNCHANGED <<curthread, pt, node, leaf, pending, used, kernel, mem, tlb>>
  BY DEF IInv, TypeOK, Fork
<1> QED BY <1>1, <1>2, NotPending, PhaseStep

LEMMA AsCreateStep ==
    ASSUME IInv, NEW t \in Programs, NEW f \in Frames, AsCreate(t, f)
    PROVE  IInv'
<1> USE DEF IInv
<1>1. /\ f \notin used /\ used' = used \cup {f} /\ f # NoFrame
      /\ phase[t] = "start" /\ phase'[t] = "created" /\ pt'[t] = f
      /\ \A u \in Programs : u # t => phase'[u] = phase[u] /\ pt'[u] = pt[u]
      /\ UNCHANGED <<node, leaf, kernel, tlb, curthread, pending>>
  BY DEF AsCreate, FirstFree, TypeOK, Frames, NoFrame
<1>2. TypeOK'
  <2>1. pt' \in [Programs -> Frames \cup {NoFrame}]
    BY DEF TypeOK, AsCreate
  <2>2. phase' \in [Programs -> Phases]
    BY DEF TypeOK, AsCreate, Phases
  <2>3. mem' \in [Frames -> Programs \cup {"other", "zero"}]
    BY DEF TypeOK, AsCreate
  <2> QED BY <2>1, <2>2, <2>3 DEF TypeOK, AsCreate
<1>3. EmptyInv'
  BY <1>1 DEF EmptyInv
<1>4. TakenInv'
  BY <1>1 DEF TakenInv, Taken, TypeOK
<1>5. \A u \in Programs :
          /\ pt[u] # f
          /\ \A h \in HiIndex : node[u][h] # f
          /\ \A v \in VPages : leaf[u][v] # f
  BY <1>1 DEF TakenInv, Taken
<1>6. PlaceInv'
  <2> SUFFICES ASSUME NEW a \in Programs, NEW b \in Programs
               PROVE  /\ pt'[a] # NoFrame /\ pt'[a] = pt'[b] => a = b
                      /\ \A h \in HiIndex : node[a][h] # NoFrame => node[a][h] # pt'[b]
                      /\ \A v \in VPages : leaf[a][v] # NoFrame => leaf[a][v] # pt'[b]
    BY <1>1 DEF PlaceInv
  <2> QED BY <1>1, <1>5 DEF PlaceInv
<1>7. OwnerInv'
  <2> SUFFICES ASSUME NEW g \in used', g \notin kernel
               PROVE  \E u \in Programs : Has(u, g)'
    BY <1>1 DEF OwnerInv
  <2>1. CASE g = f
    BY <2>1, <1>1 DEF Has
  <2>2. CASE g # f
    <3>1. PICK u \in Programs : Has(u, g)
      BY <2>2, <1>1 DEF OwnerInv
    <3>2. pt[t] = NoFrame /\ g # NoFrame
      BY <1>1, <2>2 DEF EmptyInv, TypeOK, Frames, NoFrame
    <3> QED BY <3>1, <3>2, <1>1 DEF Has
  <2> QED BY <2>1, <2>2
<1>8. PendingInv' /\ TlbInv' /\ NodeInv'
  BY <1>1 DEF PendingInv, TlbInv, TlbUnique, TlbCoherent, NodeInv
<1>9. NoDataLeak'
  BY <1>1, <1>5 DEF NoDataLeak, AsCreate, TypeOK
<1> QED BY <1>2, <1>3, <1>4, <1>6, <1>7, <1>8, <1>9

(* The machine stops without another change. *)
LEMMA HandlersLostStep == ASSUME IInv, HandlersLost PROVE IInv'
<1> USE DEF IInv, HandlersLost, tables
<1>1. TypeOK'
  BY DEF TypeOK
<1>2. EmptyInv' /\ PendingInv' /\ TlbInv' /\ NoDataLeak'
  BY DEF EmptyInv, PendingInv, TlbInv, TlbUnique, TlbCoherent, NoDataLeak
<1> QED BY <1>1, <1>2, FramesStill

LEMMA AsActivateStep ==
    ASSUME IInv, NEW t \in Programs, AsActivate(t)
    PROVE  IInv'
<1> USE DEF IInv, AsActivate, tables
<1>1. TypeOK'
  BY SizeAssumption DEF TypeOK, Phases, EmptyTlb, Invalid
<1>2. EmptyInv' /\ NoDataLeak'
  BY DEF EmptyInv, NoDataLeak, TypeOK
<1>3. PendingInv'
  BY DEF PendingInv, TypeOK, EmptyTlb, Invalid
<1>4. TlbInv'
  BY DEF TlbInv, TlbUnique, TlbCoherent, EmptyTlb, Invalid
<1> QED BY <1>1, <1>2, <1>3, <1>4, FramesStill

LEMMA DefineRegionStep ==
    ASSUME IInv, NEW t \in Programs, DefineRegion(t)
    PROVE  IInv'
<1> DEFINE g == image[t][nsegs[t] + 1]
           A == [vbase1 : Nat, npages1 : Nat, vbase2 : Nat, npages2 : Nat, npages_s : Nat]
<1>1. g[1] \div Unit \in Nat /\ NPages(g[1], g[2]) \in Nat
  <2>1. image[t] \in Seq(Nat \X Nat)
    <3>1. image[t] \in Executables \cup {<<>>}
      BY DEF IInv, TypeOK
    <3>2. <<>> \in Seq(Nat \X Nat)
      OBVIOUS
    <3> QED BY <3>1, <3>2, ExecutableAssumption
  <2>2. nsegs[t] + 1 \in 1 .. Len(image[t])
    BY <2>1 DEF DefineRegion, IInv, TypeOK
  <2>3. g \in Nat \X Nat
    BY <2>1, <2>2
  <2>4. g[1] \in Nat /\ g[2] \in Nat
    BY <2>3
  <2> QED BY <2>4, SizeAssumption DEF NPages
<1> HIDE DEF g
<1>2. as' \in [Programs -> A]
  <2>1. as \in [Programs -> A]
    BY DEF IInv, TypeOK
  <2> DEFINE b == g[1] \div Unit
             n == NPages(g[1], g[2])
  <2>2. \/ as' = [as EXCEPT ![t].vbase1 = b, ![t].npages1 = n]
        \/ as' = [as EXCEPT ![t].vbase2 = b, ![t].npages2 = n]
    BY DEF DefineRegion, g
  <2>3. b \in Nat /\ n \in Nat
    BY <1>1
  <2> HIDE DEF b, n
  <2>4. as[t] \in A
    BY <2>1
  <2>5. /\ [as[t] EXCEPT !.vbase1 = b, !.npages1 = n] \in A
        /\ [as[t] EXCEPT !.vbase2 = b, !.npages2 = n] \in A
    BY <2>3, <2>4
  <2>6. \/ as' = [as EXCEPT ![t] = [as[t] EXCEPT !.vbase1 = b, !.npages1 = n]]
        \/ as' = [as EXCEPT ![t] = [as[t] EXCEPT !.vbase2 = b, !.npages2 = n]]
    BY <2>1, <2>2
  <2> HIDE DEF A
  <2> QED BY <2>1, <2>5, <2>6
<1>3. TypeOK'
  <2>1. nsegs' \in [Programs -> Nat]
    BY DEF IInv, TypeOK, DefineRegion
  <2> QED BY <1>2, <2>1 DEF IInv, TypeOK, DefineRegion
<1>4. /\ phase[t] = "define" /\ phase' = phase
      /\ UNCHANGED <<curthread, pt, node, leaf, pending, used, kernel, mem, tlb>>
  BY DEF DefineRegion
<1> QED BY <1>3, <1>4, NotPending, PhaseStep

(* The ends of load_elf, good and bad. *)
LEMMA LoadStep ==
    ASSUME IInv, NEW t \in Programs,
           TooManyRegions(t) \/ LoadFail(t) \/ PrepareLoad(t) \/ EnterUser(t)
    PROVE  IInv'
<1>1. TypeOK'
  <2>1. phase' \in [Programs -> Phases]
    BY DEF IInv, TypeOK, TooManyRegions, LoadFail, PrepareLoad, EnterUser, Phases
  <2>2. as' \in [Programs -> [vbase1 : Nat, npages1 : Nat, vbase2 : Nat,
                              npages2 : Nat, npages_s : Nat]]
    <3>1. CASE EnterUser(t)
      <4>1. as' = [as EXCEPT ![t] = [as[t] EXCEPT !.npages_s = StackPages]]
        BY <3>1 DEF EnterUser, IInv, TypeOK
      <4> DEFINE A == [vbase1 : Nat, npages1 : Nat, vbase2 : Nat,
                       npages2 : Nat, npages_s : Nat]
      <4>2. as \in [Programs -> A] /\ as[t] \in A
        BY DEF IInv, TypeOK
      <4>5. StackPages \in Nat
        BY SizeAssumption
      <4>3. [as[t] EXCEPT !.npages_s = StackPages] \in A
        BY <4>2, <4>5
      <4> HIDE DEF A
      <4>4. as' \in [Programs -> A]
        BY <4>1, <4>2, <4>3
      <4> QED BY <4>4 DEF A
    <3>2. CASE as' = as
      BY <3>2 DEF IInv, TypeOK
    <3> QED BY <3>1, <3>2 DEF TooManyRegions, LoadFail, PrepareLoad, tables
  <2> QED BY <2>1, <2>2
          DEF IInv, TypeOK, TooManyRegions, LoadFail, PrepareLoad, EnterUser, tables
<1>2. /\ phase[t] \in {"define", "load"}
      /\ phase'[t] \in {"failed", "load", "user"}
      /\ \A u \in Programs : u # t => phase'[u] = phase[u]
      /\ UNCHANGED <<curthread, pt, node, leaf, pending, used, kernel, mem, tlb>>
  BY DEF IInv, TypeOK, TooManyRegions, LoadFail, PrepareLoad, EnterUser, tables
<1>3. pending[t] = NoPage
  BY NotPending DEF TooManyRegions, LoadFail, PrepareLoad, EnterUser
<1> QED BY <1>1, <1>2, <1>3, PhaseStep

------------------------------------------------------------------------------
(* Memory accesses. *)
LEMMA MissStep ==
    ASSUME IInv, NEW t \in Programs, NEW v \in VPages, Miss(t, v)
    PROVE  IInv'
<1> USE DEF IInv, Miss, MayAccess, tables
<1>1. TypeOK'
  BY DEF TypeOK
<1>2. EmptyInv' /\ TlbInv' /\ NoDataLeak'
  BY DEF EmptyInv, TlbInv, TlbUnique, TlbCoherent, NoDataLeak
<1>3. PendingInv'
  BY DEF PendingInv, Hits, TypeOK
<1> QED BY <1>1, <1>2, <1>3, FramesStill

(* A hit is in a valid entry, which agrees with the page table. *)
LEMMA StoreStep ==
    ASSUME IInv, NEW t \in Programs, NEW v \in VPages, NEW s \in Slots, Store(t, v, s)
    PROVE  IInv'
<1> USE DEF IInv
<1>1. /\ curthread = t /\ phase[t] \in {"load", "user"} /\ tlb[s].vpage = v
      /\ UNCHANGED <<curthread, phase, tables, pending, used, kernel, tlb, halted>>
      /\ mem' = [mem EXCEPT ![tlb[s].frame] = t]
  BY DEF Store, MayAccess, Hits
<1>2. tlb[s] # Invalid
  BY <1>1 DEF Invalid, VPages, NoPage
<1>3. leaf[t][v] = tlb[s].frame
  BY <1>1, <1>2 DEF TlbInv, TlbCoherent
<1>4. TypeOK'
  BY <1>1 DEF TypeOK, tables
<1>5. EmptyInv' /\ TlbInv' /\ PendingInv'
  BY <1>1 DEF EmptyInv, TlbInv, TlbUnique, TlbCoherent, PendingInv, tables
<1>6. NoDataLeak'
  <2> SUFFICES ASSUME NEW u \in Programs, NEW w \in VPages, leaf[u][w] # NoFrame
               PROVE  mem'[leaf[u][w]] \in {"zero", u}
    BY <1>1 DEF NoDataLeak, tables
  <2>1. leaf[u][w] = leaf[t][v] => u = t
    BY DEF PlaceInv
  <2>2. leaf[u][w] \in Frames
    BY DEF TypeOK
  <2> QED BY <1>1, <1>3, <2>1, <2>2 DEF NoDataLeak, TypeOK
<1> QED BY <1>1, <1>4, <1>5, <1>6, FramesStill DEF tables

(* vm_fault gives up: the miss is no longer pending. *)
LEMMA FaultErrorStep ==
    ASSUME IInv, NEW t \in Programs, Faulting(t), FaultError(t), curthread' = curthread,
           UNCHANGED <<pt, leaf, tlb>>
    PROVE  /\ phase' \in [Programs -> Phases] /\ halted' \in {"no", "handlers", "killed"}
           /\ pending' \in [Programs -> VPages \cup {NoPage}]
           /\ phase[t] \in {"load", "user"} /\ phase'[t] \in {"user", "failed"}
           /\ \A u \in Programs : u # t => phase'[u] = phase[u]
           /\ PendingInv' /\ TlbInv'
<1> USE DEF IInv, Faulting, FaultError
<1>1. /\ phase[t] \in {"load", "user"} /\ phase'[t] \in {"user", "failed"}
      /\ \A u \in Programs : u # t => phase'[u] = phase[u]
      /\ phase' \in [Programs -> Phases]
  BY DEF TypeOK, Phases, PendingInv
<1>2. /\ pending' \in [Programs -> VPages \cup {NoPage}]
      /\ halted' \in {"no", "handlers", "killed"}
  BY DEF TypeOK
<1>3. PendingInv'
  BY <1>1 DEF PendingInv, TypeOK
<1>4. TlbInv'
  BY <1>1 DEF TlbInv, TlbUnique, TlbCoherent
<1> QED BY <1>1, <1>2, <1>3, <1>4

LEMMA FaultIllegalStep ==
    ASSUME IInv, NEW t \in Programs, FaultIllegal(t)
    PROVE  IInv'
<1> USE DEF IInv, FaultIllegal, tables
<1>1. /\ phase' \in [Programs -> Phases] /\ halted' \in {"no", "handlers", "killed"}
      /\ pending' \in [Programs -> VPages \cup {NoPage}]
      /\ phase[t] \in {"load", "user"} /\ phase'[t] \in {"user", "failed"}
      /\ \A u \in Programs : u # t => phase'[u] = phase[u]
      /\ PendingInv' /\ TlbInv'
  BY FaultErrorStep
<1>2. TypeOK'
  BY <1>1 DEF TypeOK
<1>3. EmptyInv' /\ NoDataLeak'
  BY <1>1 DEF EmptyInv, NoDataLeak
<1> QED BY <1>1, <1>2, <1>3, FramesStill

(* A free frame is in no page table. *)
LEMMA FreeFrame ==
    ASSUME IInv, NEW g \in Frames, g \notin used, NEW u \in Programs
    PROVE  /\ pt[u] # g
           /\ \A h \in HiIndex : node[u][h] # g
           /\ \A v \in VPages : leaf[u][v] # g
<1> g # NoFrame
  BY DEF Frames, NoFrame
<1> QED BY DEF IInv, TakenInv, Taken

(* walk_pt: node n at index h and frame f at page v of t's table, each the  *)
(* one already there or one that was free; f stays NoFrame if there is no   *)
(* memory for it.                                                           *)
LEMMA WalkFrames ==
    ASSUME IInv, NEW t \in Programs, NEW h \in HiIndex, NEW v \in VPages, h = Hi(v),
           NEW n \in Frames, NEW f \in Frames \cup {NoFrame},
           n = node[t][h] \/ (node[t][h] = NoFrame /\ n \notin used),
           f = leaf[t][v] \/ (leaf[t][v] = NoFrame /\ f # NoFrame /\ f \notin used /\ f # n),
           pt' = pt, kernel' = kernel, used' = (used \cup {n, f}) \ {NoFrame},
           \A u \in Programs : \A i \in HiIndex :
               node'[u][i] = IF u = t /\ i = h THEN n ELSE node[u][i],
           \A u \in Programs : \A w \in VPages :
               leaf'[u][w] = IF u = t /\ w = v THEN f ELSE leaf[u][w]
    PROVE  TakenInv' /\ PlaceInv' /\ NodeInv' /\ OwnerInv'
<1>1. n # NoFrame /\ NoFrame \notin used /\ kernel \subseteq used
  BY DEF IInv, TypeOK, Frames, NoFrame
<1>2. /\ Taken(n)' 
      /\ f # NoFrame => Taken(f)'
  BY <1>1 DEF IInv, Taken, TakenInv
<1>3. \A g : g # NoFrame /\ Taken(g) => Taken(g)'
  BY DEF Taken
<1>4. TakenInv'
  <2> SUFFICES ASSUME NEW u \in Programs
               PROVE  /\ pt'[u] # NoFrame => Taken(pt[u])'
                      /\ \A i \in HiIndex : node'[u][i] # NoFrame => Taken(node[u][i])'
                      /\ \A w \in VPages : leaf'[u][w] # NoFrame => Taken(leaf[u][w])'
    BY DEF TakenInv, HiIndex, VPages
  <2>1. pt'[u] # NoFrame => Taken(pt[u])'
    BY DEF IInv, TakenInv, Taken
  <2>2. ASSUME NEW i \in HiIndex, node'[u][i] # NoFrame PROVE Taken(node[u][i])'
    BY <1>2, <2>2 DEF IInv, TakenInv, Taken
  <2>3. ASSUME NEW w \in VPages, leaf'[u][w] # NoFrame PROVE Taken(leaf[u][w])'
    BY <1>2, <2>3 DEF IInv, TakenInv, Taken
  <2> QED BY <2>1, <2>2, <2>3
<1>5. PlaceInv'
  <2>1. \A a \in Programs : n # pt[a] /\ \A w \in VPages : leaf[a][w] # n
    BY <1>1, FreeFrame DEF IInv, PlaceInv
  <2>2. \A a \in Programs, i \in HiIndex : node[a][i] = n => a = t /\ i = h
    BY <1>1, FreeFrame DEF IInv, PlaceInv
  <2>3. f # NoFrame => \A a \in Programs : f # pt[a] /\ \A i \in HiIndex : node[a][i] # f
    BY <1>1, FreeFrame DEF IInv, PlaceInv
  <2>4. f # NoFrame => \A a \in Programs, w \in VPages : leaf[a][w] = f => a = t /\ w = v
    BY <1>1, FreeFrame DEF IInv, PlaceInv
  <2>5. f # n
    BY <1>1, <2>1
  <2> SUFFICES ASSUME NEW a \in Programs, NEW b \in Programs
               PROVE
        /\ pt[a] # NoFrame /\ pt[a] = pt[b] => a = b
        /\ \A i \in HiIndex : node'[a][i] # NoFrame =>
              /\ node'[a][i] # pt[b]
              /\ \A j \in HiIndex : node'[a][i] = node'[b][j] => a = b /\ i = j
              /\ \A w \in VPages : node'[a][i] # leaf'[b][w]
        /\ \A w \in VPages : leaf'[a][w] # NoFrame =>
              /\ leaf'[a][w] # pt[b]
              /\ \A x \in VPages : leaf'[a][w] = leaf'[b][x] => a = b /\ w = x
    BY DEF PlaceInv, HiIndex, VPages
  <2>6. pt[a] # NoFrame /\ pt[a] = pt[b] => a = b
    BY DEF IInv, PlaceInv
  <2>7. ASSUME NEW i \in HiIndex, node'[a][i] # NoFrame
        PROVE  /\ node'[a][i] # pt[b]
               /\ \A j \in HiIndex : node'[a][i] = node'[b][j] => a = b /\ i = j
               /\ \A w \in VPages : node'[a][i] # leaf'[b][w]
    <3>1. CASE a = t /\ i = h
      BY <3>1, <2>1, <2>2, <2>5
    <3>2. CASE ~(a = t /\ i = h)
      <4>1. node'[a][i] = node[a][i] /\ node[a][i] # n
        BY <3>2, <2>2
      <4> QED BY <4>1, <2>7, <2>3 DEF IInv, PlaceInv
    <3> QED BY <3>1, <3>2
  <2>8. ASSUME NEW w \in VPages, leaf'[a][w] # NoFrame
        PROVE  /\ leaf'[a][w] # pt[b]
               /\ \A x \in VPages : leaf'[a][w] = leaf'[b][x] => a = b /\ w = x
    <3>1. CASE a = t /\ w = v
      BY <3>1, <2>3, <2>4, <2>8
    <3>2. CASE ~(a = t /\ w = v)
      <4>1. leaf'[a][w] = leaf[a][w] /\ leaf[a][w] # f
        BY <3>2, <2>4, <2>8
      <4> QED BY <4>1, <2>8 DEF IInv, PlaceInv
    <3> QED BY <3>1, <3>2
  <2> QED BY <2>6, <2>7, <2>8
<1>6. OwnerInv'
  <2> SUFFICES ASSUME NEW g \in used', g \notin kernel
               PROVE  \E u \in Programs : Has(u, g)'
    BY DEF OwnerInv
  <2>1. CASE g = n
    BY <2>1 DEF Has
  <2>2. CASE g = f
    BY <2>2 DEF Has
  <2>3. CASE g \in used /\ g # n /\ g # f
    <3>1. PICK u \in Programs : Has(u, g)
      BY <2>3 DEF IInv, OwnerInv
    <3>2. g # NoFrame
      BY <2>3, <1>1
    <3> QED BY <2>3, <3>1, <3>2 DEF Has
  <2> QED BY <2>1, <2>2, <2>3
<1>7. NodeInv'
  <2>1. \A w \in VPages : Hi(w) \in HiIndex
    BY DEF HiIndex
  <2> QED BY <1>1, <2>1 DEF IInv, NodeInv
<1> QED BY <1>4, <1>5, <1>6, <1>7

(* What vm_fault knows of the page it maps. *)
LEMMA FaultFacts ==
    ASSUME IInv, NEW t \in Programs, NEW n \in Frames, Faulting(t), NodeFor(t, n)
    PROVE  /\ pending[t] \in VPages /\ Hi(pending[t]) \in HiIndex
           /\ phase[t] \in {"load", "user"} /\ curthread = t
           /\ \/ ~NeedsNode(t) /\ n = node[t][Hi(pending[t])] /\ n \in used
              \/ NeedsNode(t) /\ node[t][Hi(pending[t])] = NoFrame /\ n \notin used
<1>1. /\ pending[t] \in VPages /\ phase[t] \in {"load", "user"} /\ curthread = t
  BY DEF IInv, TypeOK, PendingInv, Faulting
<1>2. Hi(pending[t]) \in HiIndex
  BY <1>1 DEF HiIndex
<1>3. n # NoFrame
  BY DEF Frames, NoFrame
<1> QED BY <1>1, <1>2, <1>3 DEF NodeFor, NeedsNode, FirstFree, IInv, TakenInv, Taken

LEMMA FaultNoMemStep ==
    ASSUME IInv, NEW t \in Programs, NEW n \in Frames, FaultNoMem(t, n)
    PROVE  IInv'
<1> DEFINE v == pending[t]
           h == Hi(pending[t])
<1>1. /\ v \in VPages /\ h \in HiIndex /\ h = Hi(v)
      /\ \/ ~NeedsNode(t) /\ n = node[t][h] /\ n \in used
         \/ NeedsNode(t) /\ node[t][h] = NoFrame /\ n \notin used
  BY FaultFacts DEF FaultNoMem
<1>2. /\ Faulting(t) /\ FaultError(t)
      /\ node' = [node EXCEPT ![t][h] = n]
      /\ mem' = IF NeedsNode(t) THEN [mem EXCEPT ![n] = "other"] ELSE mem
      /\ leaf[t][v] = NoFrame /\ used' = used \cup {n}
      /\ UNCHANGED <<curthread, as, pt, leaf, image, nsegs, kernel, tlb>>
  BY DEF FaultNoMem, NeedsLeaf
<1> HIDE DEF v, h
<1>3. /\ phase' \in [Programs -> Phases] /\ halted' \in {"no", "handlers", "killed"}
      /\ pending' \in [Programs -> VPages \cup {NoPage}]
      /\ phase[t] \in {"load", "user"} /\ phase'[t] \in {"user", "failed"}
      /\ \A u \in Programs : u # t => phase'[u] = phase[u]
      /\ PendingInv' /\ TlbInv'
  BY <1>2, FaultErrorStep
<1>4. TypeOK'
  <2>1. node' \in [Programs -> [HiIndex -> Frames \cup {NoFrame}]]
    BY <1>1, <1>2 DEF IInv, TypeOK
  <2>2. mem' \in [Frames -> Programs \cup {"other", "zero"}]
    BY <1>2 DEF IInv, TypeOK
  <2> QED BY <1>2, <1>3, <2>1, <2>2 DEF IInv, TypeOK
<1>5. EmptyInv'
  BY <1>1, <1>2, <1>3 DEF IInv, TypeOK, EmptyInv
<1>6. TakenInv' /\ PlaceInv' /\ NodeInv' /\ OwnerInv'
  <2>1. \A u \in Programs : \A i \in HiIndex :
            node'[u][i] = IF u = t /\ i = h THEN n ELSE node[u][i]
    BY <1>1, <1>2 DEF IInv, TypeOK
  <2>2. \A u \in Programs : \A w \in VPages :
            leaf'[u][w] = IF u = t /\ w = v THEN NoFrame ELSE leaf[u][w]
    BY <1>2
  <2>3. used' = (used \cup {n, NoFrame}) \ {NoFrame}
    BY <1>2 DEF IInv, TypeOK, Frames, NoFrame
  <2> QED BY <1>1, <1>2, <2>1, <2>2, <2>3, WalkFrames
<1>7. NoDataLeak'
  <2> SUFFICES ASSUME NEW u \in Programs, NEW w \in VPages, leaf[u][w] # NoFrame
               PROVE  mem'[leaf[u][w]] \in {"zero", u}
    BY <1>2 DEF NoDataLeak
  <2>1. leaf[u][w] \in Frames
    BY DEF IInv, TypeOK
  <2>2. NeedsNode(t) => leaf[u][w] # n
    BY <1>1, FreeFrame
  <2> QED BY <1>2, <2>1, <2>2 DEF IInv, NoDataLeak, TypeOK
<1> QED BY <1>3, <1>4, <1>5, <1>6, <1>7 DEF IInv

LEMMA FaultMapStep ==
    ASSUME IInv, NEW t \in Programs, NEW n \in Frames, NEW f \in Frames,
           NEW s \in Slots, FaultMap(t, n, f, s)
    PROVE  IInv'
<1> DEFINE v == pending[t]
           h == Hi(pending[t])
<1>1. /\ v \in VPages /\ h \in HiIndex /\ h = Hi(v)
      /\ phase[t] \in {"load", "user"} /\ curthread = t
      /\ \/ ~NeedsNode(t) /\ n = node[t][h] /\ n \in used
         \/ NeedsNode(t) /\ node[t][h] = NoFrame /\ n \notin used
  BY FaultFacts DEF FaultMap
<1>2. /\ f # NoFrame
      /\ \/ ~NeedsLeaf(t) /\ f = leaf[t][v] /\ f \in used
         \/ NeedsLeaf(t) /\ leaf[t][v] = NoFrame /\ f \notin used /\ f # n
  <2>1. f # NoFrame
    BY DEF Frames, NoFrame
  <2>2. CASE NeedsLeaf(t)
    BY <2>1, <2>2 DEF FaultMap, NeedsLeaf, FirstFree
  <2>3. CASE ~NeedsLeaf(t)
    BY <2>1, <2>3, <1>1 DEF FaultMap, NeedsLeaf, IInv, TakenInv, Taken
  <2> QED BY <2>1, <2>2, <2>3
<1>3. /\ node' = [node EXCEPT ![t][h] = n]
      /\ leaf' = [leaf EXCEPT ![t][v] = f]
      /\ mem' = [g \in Frames |-> CASE NeedsLeaf(t) /\ g = f -> "zero"
                                    [] NeedsNode(t) /\ g = n -> "other"
                                    [] OTHER -> mem[g]]
      /\ used' = used \cup {n, f}
      /\ tlb' = [tlb EXCEPT ![s] = [vpage |-> v, frame |-> f]]
      /\ pending' = [pending EXCEPT ![t] = NoPage]
      /\ UNCHANGED <<curthread, phase, as, pt, image, nsegs, kernel, halted>>
  BY DEF FaultMap, Cleared
<1>4. \A r \in Slots : tlb[r].vpage # v
  BY <1>1 DEF IInv, PendingInv, VPages, NoPage
<1> HIDE DEF v, h
<1>5. TypeOK'
  <2>1. node' \in [Programs -> [HiIndex -> Frames \cup {NoFrame}]]
    BY <1>1, <1>3 DEF IInv, TypeOK
  <2>2. leaf' \in [Programs -> [VPages -> Frames \cup {NoFrame}]]
    BY <1>1, <1>3 DEF IInv, TypeOK
  <2>3. mem' \in [Frames -> Programs \cup {"other", "zero"}]
    BY <1>3 DEF IInv, TypeOK
  <2>4. tlb' \in [Slots -> [vpage : VPages \cup {NoPage}, frame : Frames \cup {NoFrame}]]
    BY <1>1, <1>3 DEF IInv, TypeOK
  <2>5. pending' \in [Programs -> VPages \cup {NoPage}]
    BY <1>3 DEF IInv, TypeOK
  <2> QED BY <1>3, <2>1, <2>2, <2>3, <2>4, <2>5 DEF IInv, TypeOK
<1>6. /\ \A u \in Programs : \A i \in HiIndex :
            node'[u][i] = IF u = t /\ i = h THEN n ELSE node[u][i]
      /\ \A u \in Programs : \A w \in VPages :
            leaf'[u][w] = IF u = t /\ w = v THEN f ELSE leaf[u][w]
  BY <1>1, <1>3 DEF IInv, TypeOK
<1>7. EmptyInv'
  BY <1>1, <1>3, <1>6 DEF IInv, EmptyInv
<1>8. TakenInv' /\ PlaceInv' /\ NodeInv' /\ OwnerInv'
  <2>1. used' = (used \cup {n, f}) \ {NoFrame}
    BY <1>3 DEF IInv, TypeOK, Frames, NoFrame
  <2> QED BY <1>1, <1>2, <1>3, <1>6, <2>1, WalkFrames
<1>9. PendingInv'
  BY <1>1, <1>3 DEF IInv, PendingInv, TypeOK
<1>10. TlbInv'
  <2>1. /\ tlb'[s] = [vpage |-> v, frame |-> f] /\ tlb'[s].vpage = v /\ tlb'[s].frame = f
        /\ \A r \in Slots : r # s => tlb'[r] = tlb[r]
    BY <1>3 DEF IInv, TypeOK
  <2>2. \A r \in Slots : tlb'[r] = Invalid \/ tlb'[r].vpage \in VPages
    BY <1>1, <2>1 DEF IInv, TlbInv
  <2>3. TlbUnique'
    BY <1>4, <2>1 DEF IInv, TlbInv, TlbUnique
  <2>4. TlbCoherent'
    <3> SUFFICES ASSUME NEW r \in Slots, tlb'[r] # Invalid
                 PROVE  leaf'[t][tlb'[r].vpage] = tlb'[r].frame
      BY <1>1, <1>3 DEF TlbCoherent
    <3>1. CASE r = s
      BY <3>1, <2>1, <1>6, <1>1
    <3>2. CASE r # s
      BY <3>2, <2>1, <1>6, <1>1, <1>4 DEF IInv, TlbInv, TlbCoherent
    <3> QED BY <3>1, <3>2
  <2> QED BY <2>2, <2>3, <2>4 DEF TlbInv
<1>11. NoDataLeak'
  <2> SUFFICES ASSUME NEW u \in Programs, NEW w \in VPages, leaf'[u][w] # NoFrame
               PROVE  mem'[leaf'[u][w]] \in {"zero", u}
    BY DEF NoDataLeak
  <2>1. leaf'[u][w] \in Frames
    BY <1>5 DEF TypeOK
  <2>2. CASE u = t /\ w = v /\ NeedsLeaf(t)
    <3>1. mem'[f] = "zero"
      BY <2>2, <1>2, <1>3
    <3> QED BY <3>1, <2>2, <1>6
  <2>3. CASE ~(u = t /\ w = v /\ NeedsLeaf(t))
    <3>1. leaf'[u][w] = leaf[u][w]
      BY <2>3, <1>2, <1>6
    <3>2. NeedsLeaf(t) => leaf[u][w] # f
      BY <1>2, FreeFrame
    <3>3. NeedsNode(t) => leaf[u][w] # n
      BY <1>1, FreeFrame
    <3>4. mem'[leaf[u][w]] = mem[leaf[u][w]]
      BY <3>1, <3>2, <3>3, <2>1, <1>3
    <3> QED BY <3>1, <3>4 DEF IInv, NoDataLeak
  <2> QED BY <2>2, <2>3
<1> QED BY <1>5, <1>7, <1>8, <1>9, <1>10, <1>11 DEF IInv

------------------------------------------------------------------------------
(* thread_exit, and the rest of the kernel. *)
LEMMA FramesOfHas ==
    ASSUME NEW t \in Programs, NEW g, g # NoFrame
    PROVE  g \in FramesOf(t) <=> Has(t, g)
BY DEF FramesOf, Has

(* pt_destroy reaches every frame of the table. *)
LEMMA DestroyAll ==
    ASSUME IInv, NEW t \in Programs
    PROVE  \A g : g # NoFrame => (g \in PtDestroy(t) <=> g \in FramesOf(t))
<1>1. \A w \in VPages : Hi(w) \in HiIndex
  BY DEF HiIndex
<1> SUFFICES ASSUME NEW g, g # NoFrame PROVE g \in PtDestroy(t) <=> g \in FramesOf(t)
  OBVIOUS
<1>2. ASSUME g \in FramesOf(t) PROVE g \in PtDestroy(t)
  BY <1>1, <1>2 DEF FramesOf, PtDestroy, Nodes, IInv, NodeInv
<1>3. ASSUME g \in PtDestroy(t) PROVE g \in FramesOf(t)
  BY <1>3 DEF FramesOf, PtDestroy, Nodes
<1> QED BY <1>2, <1>3

LEMMA HasOne ==
    ASSUME IInv, NEW t \in Programs, NEW u \in Programs, NEW g, g # NoFrame,
           Has(t, g), Has(u, g)
    PROVE  t = u
BY DEF IInv, Has, PlaceInv

LEMMA ExitStep ==
    ASSUME IInv, NEW t \in Programs, NEW u \in Threads, Exit(t, u)
    PROVE  IInv'
<1>1. /\ curthread = t /\ phase[t] \in {"start", "failed", "user"} /\ pending[t] = NoPage
      /\ u \in Live /\ u # t /\ used' = used \ FramesOf(t) /\ phase'[t] = "none"
      /\ pt'[t] = NoFrame /\ node'[t] = NoNodes /\ leaf'[t] = NoLeaves
      /\ mem' = [f \in Frames |-> IF f \in FramesOf(t) THEN "other" ELSE mem[f]]
      /\ curthread' = u /\ tlb' = IF HasSpace(u) THEN EmptyTlb ELSE tlb
      /\ UNCHANGED <<pending, kernel, halted>>
  <2>1. used' = used \ FramesOf(t)
    <3>1. NoFrame \notin used
      BY DEF IInv, TypeOK, Frames, NoFrame
    <3>2. used' = used \ PtDestroy(t)
      BY DEF Exit
    <3> QED BY <3>1, <3>2, DestroyAll
  <2>2. mem' = [f \in Frames |-> IF f \in FramesOf(t) THEN "other" ELSE mem[f]]
    <3>1. \A f \in Frames : f \in PtDestroy(t) <=> f \in FramesOf(t)
      BY DestroyAll DEF Frames, NoFrame
    <3> QED BY <3>1 DEF Exit
  <2> QED BY <2>1, <2>2 DEF Exit, SwitchTo, IInv, TypeOK
<1>2. \A a \in Programs : a # t => phase'[a] = phase[a] /\ pt'[a] = pt[a]
                                 /\ node'[a] = node[a] /\ leaf'[a] = leaf[a]
  BY DEF Exit, IInv, TypeOK
<1>3. \A a \in Programs, g \in Frames : a # t /\ Has(a, g) => g \notin FramesOf(t)
  <2> \A g \in Frames : g # NoFrame
    BY DEF Frames, NoFrame
  <2> QED BY FramesOfHas, HasOne
<1>4. TypeOK'
  <2>1. as' \in [Programs -> [vbase1 : Nat, npages1 : Nat, vbase2 : Nat,
                              npages2 : Nat, npages_s : Nat]]
    <3>1. NoAs \in [vbase1 : Nat, npages1 : Nat, vbase2 : Nat, npages2 : Nat,
                    npages_s : Nat]
      BY DEF NoAs
    <3> QED BY <3>1 DEF Exit, IInv, TypeOK
  <2>2. /\ pt' \in [Programs -> Frames \cup {NoFrame}]
        /\ node' \in [Programs -> [HiIndex -> Frames \cup {NoFrame}]]
        /\ leaf' \in [Programs -> [VPages -> Frames \cup {NoFrame}]]
    BY DEF Exit, IInv, TypeOK, NoNodes, NoLeaves
  <2>3. /\ image' \in [Programs -> Executables \cup {<<>>}]
        /\ nsegs' \in [Programs -> Nat]
    BY DEF Exit, IInv, TypeOK
  <2>4. phase' \in [Programs -> Phases]
    BY DEF Exit, IInv, TypeOK, Phases
  <2>5. mem' \in [Frames -> Programs \cup {"other", "zero"}]
    BY <1>1 DEF IInv, TypeOK
  <2>6. tlb' \in [Slots -> [vpage : VPages \cup {NoPage}, frame : Frames \cup {NoFrame}]]
    BY <1>1 DEF IInv, TypeOK, EmptyTlb, Invalid
  <2>7. used' \subseteq Frames /\ kernel' \subseteq used'
    <3> SUFFICES ASSUME NEW g \in kernel PROVE g \notin FramesOf(t)
      BY <1>1 DEF IInv, TypeOK
    <3>1. g # NoFrame
      BY DEF IInv, TypeOK, Frames, NoFrame
    <3> QED BY <3>1, FramesOfHas DEF Has, IInv, TakenInv, Taken
  <2>8. /\ curthread' \in Threads /\ halted' \in {"no", "handlers", "killed"}
        /\ pending' \in [Programs -> VPages \cup {NoPage}]
    BY <1>1 DEF IInv, TypeOK
  <2> QED BY <2>1, <2>2, <2>3, <2>4, <2>5, <2>6, <2>7, <2>8 DEF TypeOK
<1>5. EmptyInv'
  BY <1>1, <1>2 DEF IInv, EmptyInv, NoNodes, NoLeaves
<1>6. TakenInv'
  <2> SUFFICES ASSUME NEW a \in Programs, NEW g \in Frames, a # t, Has(a, g), Taken(g)
               PROVE  g \in used' /\ g \notin kernel'
    <3>1. \A a \in Programs :
            /\ pt[a] \in Frames \cup {NoFrame}
            /\ \A h \in HiIndex : node[a][h] \in Frames \cup {NoFrame}
            /\ \A v \in VPages : leaf[a][v] \in Frames \cup {NoFrame}
      BY DEF IInv, TypeOK
    <3> QED BY <1>1, <1>2, <3>1 DEF IInv, TakenInv, Taken, Has, NoNodes, NoLeaves
  <2> QED BY <1>1, <1>3 DEF Taken
<1>7. PlaceInv' /\ NodeInv'
  BY <1>1, <1>2 DEF IInv, PlaceInv, NodeInv, NoNodes, NoLeaves
<1>8. OwnerInv'
  <2> SUFFICES ASSUME NEW g \in used', g \notin kernel
               PROVE  \E a \in Programs : Has(a, g)'
    BY <1>1 DEF OwnerInv
  <2>1. g \in used /\ g \notin FramesOf(t) /\ g # NoFrame
    BY <1>1 DEF IInv, TypeOK, Frames, NoFrame
  <2>2. PICK a \in Programs : Has(a, g)
    BY <2>1 DEF IInv, OwnerInv
  <2>3. a # t
    BY <2>1, <2>2, FramesOfHas
  <2> QED BY <1>2, <2>2, <2>3 DEF Has
<1>9. PendingInv'
  BY <1>1, <1>2 DEF IInv, PendingInv, HasSpace, EmptyTlb, Invalid, NoPage, TypeOK
<1>10. TlbInv'
  <2>1. CASE HasSpace(u)
    BY <1>1, <2>1 DEF TlbInv, TlbUnique, TlbCoherent, EmptyTlb
  <2>2. CASE ~HasSpace(u)
    <3>1. \A a \in Programs : curthread' = a => phase'[a] \notin {"define", "load", "user"}
      BY <1>1, <1>2, <2>2 DEF HasSpace
    <3> QED BY <1>1, <2>2, <3>1 DEF IInv, TlbInv, TlbUnique, TlbCoherent
  <2> QED BY <2>1, <2>2
<1>11. NoDataLeak'
  <2> SUFFICES ASSUME NEW a \in Programs, NEW v \in VPages, leaf'[a][v] # NoFrame
               PROVE  mem'[leaf'[a][v]] \in {"zero", a}
    BY DEF NoDataLeak
  <2>1. a # t /\ leaf'[a][v] = leaf[a][v]
    BY <1>1, <1>2 DEF NoLeaves
  <2>2. leaf[a][v] \in Frames /\ Has(a, leaf[a][v])
    BY <2>1 DEF IInv, TypeOK, Has
  <2>3. mem'[leaf[a][v]] = mem[leaf[a][v]]
    BY <1>1, <1>3, <2>1, <2>2
  <2> QED BY <2>1, <2>3 DEF IInv, NoDataLeak
<1> QED BY <1>4, <1>5, <1>6, <1>7, <1>8, <1>9, <1>10, <1>11 DEF IInv

LEMMA KernelAllocStep ==
    ASSUME IInv, NEW f \in Frames, KernelAlloc(f)
    PROVE  IInv'
<1> USE DEF IInv, KernelAlloc, FirstFree, tables
<1>1. TypeOK'
  BY DEF TypeOK
<1>2. EmptyInv' /\ PendingInv' /\ TlbInv'
  BY DEF EmptyInv, PendingInv, TlbInv, TlbUnique, TlbCoherent
<1>3. TakenInv'
  BY FreeFrame DEF TakenInv, Taken
<1>4. PlaceInv' /\ NodeInv'
  BY DEF PlaceInv, NodeInv
<1>5. OwnerInv'
  BY DEF OwnerInv, Has
<1>6. NoDataLeak'
  <2>1. \A u \in Programs, v \in VPages : leaf[u][v] # f
    BY FreeFrame
  <2>2. \A u \in Programs, v \in VPages : leaf[u][v] # NoFrame =>
            mem'[leaf[u][v]] = mem[leaf[u][v]]
    BY <2>1 DEF TypeOK
  <2> QED BY <2>2 DEF NoDataLeak
<1> QED BY <1>1, <1>2, <1>3, <1>4, <1>5, <1>6

LEMMA KernelFreeStep ==
    ASSUME IInv, NEW f \in kernel, KernelFree(f)
    PROVE  IInv'
<1> USE DEF IInv, KernelFree, tables
<1>1. TypeOK'
  BY DEF TypeOK
<1>2. EmptyInv' /\ PendingInv' /\ TlbInv' /\ NoDataLeak'
  BY DEF EmptyInv, PendingInv, TlbInv, TlbUnique, TlbCoherent, NoDataLeak
<1>3. TakenInv' /\ PlaceInv' /\ NodeInv'
  BY DEF TakenInv, Taken, PlaceInv, NodeInv
<1>4. OwnerInv'
  BY DEF OwnerInv, Has
<1> QED BY <1>1, <1>2, <1>3, <1>4

------------------------------------------------------------------------------
LEMMA Induction == IInv /\ [Next]_vars => IInv'
<1> SUFFICES ASSUME IInv, [Next]_vars PROVE IInv'
  OBVIOUS
<1>1. CASE UNCHANGED vars
  <2> USE <1>1 DEF IInv, vars
  <2>1. TypeOK'
    BY DEF TypeOK
  <2>2. EmptyInv' /\ PendingInv' /\ TlbInv' /\ NoDataLeak'
    BY DEF EmptyInv, PendingInv, TlbInv, TlbUnique, TlbCoherent, NoDataLeak
  <2> QED BY <2>1, <2>2, FramesStill
<1>2. ASSUME NEW t \in Programs, ProgramStep(t) PROVE IInv'
  <2>1. CASE \E x \in Executables : Fork(t, x)
    BY <2>1, ForkStep
  <2>2. CASE \E f \in Frames : AsCreate(t, f)
    BY <2>2, AsCreateStep
  <2>3. CASE AsCreateNoMem(t) \/ FaultNoNode(t)
    BY <2>3, HandlersLostStep DEF AsCreateNoMem, FaultNoNode
  <2>4. CASE AsActivate(t)
    BY <2>4, AsActivateStep
  <2>5. CASE DefineRegion(t)
    BY <2>5, DefineRegionStep
  <2>6. CASE TooManyRegions(t) \/ LoadFail(t) \/ PrepareLoad(t) \/ EnterUser(t)
    BY <2>6, LoadStep
  <2>7. CASE \E v \in VPages : Miss(t, v) \/ \E s \in Slots : Store(t, v, s)
    BY <2>7, MissStep, StoreStep
  <2>8. CASE FaultIllegal(t)
    BY <2>8, FaultIllegalStep
  <2>9. CASE \E n \in Frames : FaultNoMem(t, n)
    BY <2>9, FaultNoMemStep
  <2>10. CASE \E n, f \in Frames, s \in Slots : FaultMap(t, n, f, s)
    BY <2>10, FaultMapStep
  <2>11. CASE \E u \in Threads : Exit(t, u)
    BY <2>11, ExitStep
  <2> QED BY <1>2, <2>1, <2>2, <2>3, <2>4, <2>5, <2>6, <2>7, <2>8, <2>9, <2>10, <2>11
          DEF ProgramStep
<1> QED BY <1>1, <1>2, SwitchStep, KernelAllocStep, KernelFreeStep DEF Next

(* IInv holds in every reachable state. *)
LEMMA Invariance == Spec => []IInv
BY InitInv, Induction, PTL DEF Spec

------------------------------------------------------------------------------
(* The state keeps its types: page tables and TLB entries only ever hold    *)
(* managed frames and user pages (vm.c, addrspace.c).                       *)
THEOREM TypeCorrect == Spec => []TypeOK
<1>1. IInv => TypeOK
  BY DEF IInv
<1> QED BY <1>1, Invariance, PTL

(* Page tables are disjoint: walk_pt never installs a frame that is already *)
(* in this or another table, or that the kernel holds.                      *)
THEOREM FramesDisjoint == Spec => []FramesExclusive
<1>1. IInv => FramesExclusive
  <2> SUFFICES ASSUME IInv, NEW t \in Programs
               PROVE
        /\ FramesOf(t) \cap kernel = {}
        /\ \A u \in Programs : t # u => FramesOf(t) \cap FramesOf(u) = {}
        /\ \A h \in HiIndex : node[t][h] # NoFrame =>
              /\ node[t][h] # pt[t]
              /\ \A i \in HiIndex : node[t][h] = node[t][i] => h = i
              /\ \A v \in VPages : node[t][h] # leaf[t][v]
        /\ \A v \in VPages : leaf[t][v] # NoFrame =>
              /\ leaf[t][v] # pt[t]
              /\ \A w \in VPages : leaf[t][v] = leaf[t][w] => v = w
    BY DEF FramesExclusive
  <2>1. \A u \in Programs : \A g \in FramesOf(u) : g # NoFrame /\ Has(u, g)
    BY FramesOfHas DEF FramesOf
  <2>2. FramesOf(t) \cap kernel = {}
    BY <2>1 DEF IInv, TakenInv, Taken, Has
  <2>3. \A u \in Programs : t # u => FramesOf(t) \cap FramesOf(u) = {}
    BY <2>1, HasOne
  <2> QED BY <2>2, <2>3 DEF IInv, PlaceInv
<1> QED BY <1>1, Invariance, PTL

(* No frame is lost or freed too early: as_destroy returns exactly what     *)
(* as_create and walk_pt took.                                              *)
THEOREM FramesReturned == Spec => []FramesAccounted
<1>1. IInv => FramesAccounted
  <2> SUFFICES ASSUME IInv PROVE used = kernel \cup UNION {FramesOf(t) : t \in Programs}
    BY DEF FramesAccounted
  <2>1. ASSUME NEW g \in used PROVE g \in kernel \cup UNION {FramesOf(t) : t \in Programs}
    <3>1. g # NoFrame
      BY DEF IInv, TypeOK, Frames, NoFrame
    <3> QED BY <3>1, FramesOfHas DEF IInv, OwnerInv
  <2>2. ASSUME NEW t \in Programs, NEW g \in FramesOf(t) PROVE g \in used
    <3>1. g # NoFrame /\ Has(t, g)
      BY FramesOfHas DEF FramesOf
    <3> QED BY <3>1 DEF IInv, TakenInv, Taken, Has
  <2>3. kernel \subseteq used
    BY DEF IInv, TypeOK
  <2> QED BY <2>1, <2>2, <2>3
<1> QED BY <1>1, Invariance, PTL

(* The running program only ever translates through its own page table: the *)
(* flush in as_activate is enough, although thread_exit does not flush.     *)
THEOREM TranslationsOwn == Spec => []TlbCoherent
<1>1. IInv => TlbCoherent
  BY DEF IInv, TlbInv
<1> QED BY <1>1, Invariance, PTL

(* No page is ever twice in the TLB, even when a thread is switched out     *)
(* between its miss and vm_fault (mips_trap, vm_fault).                     *)
THEOREM TranslationsUnique == Spec => []TlbUnique
<1>1. IInv => TlbUnique
  BY DEF IInv, TlbInv
<1> QED BY <1>1, Invariance, PTL

(* Every page a program can reach holds zeros or its own data, whoever had  *)
(* the frame before: walk_pt clears a frame before it is mapped.            *)
THEOREM DataPrivate == Spec => []NoDataLeak
<1>1. IInv => NoDataLeak
  BY DEF IInv
<1> QED BY <1>1, Invariance, PTL

------------------------------------------------------------------------------
(* Segments and regions.  A region of no pages leaves its slot free, so a   *)
(* segment that has pages keeps the slot it was given.                      *)
Covered(a, g) ==
    LET base == g[1] \div Unit
        n    == NPages(g[1], g[2])
    IN  \/ n = 0
        \/ a.vbase1 = base /\ a.npages1 = n
        \/ a.vbase2 = base /\ a.npages2 = n

SegInv ==
    \A t \in Programs :
        /\ nsegs[t] <= Len(image[t])
        /\ phase[t] = "none" => nsegs[t] = 0
        /\ \A i \in 1 .. nsegs[t] : Covered(as[t], image[t][i])

(* The rounding of as_define_region: every page with a byte of the segment. *)
LEMMA Rounding ==
    ASSUME NEW a \in Nat, NEW m \in Nat \ {0}, NEW v \in Int,
           a \div Unit <= v, v <= (a + m - 1) \div Unit
    PROVE  /\ NPages(a, m) \in Nat /\ NPages(a, m) # 0
           /\ v < a \div Unit + NPages(a, m)
<1> DEFINE q == a \div Unit
           r == a % Unit
           e == (r + m - 1) \div Unit
<1>1. Unit \in Nat \ {0}
  BY SizeAssumption
<1>2. q \in Nat /\ r \in Nat /\ a = q * Unit + r
  BY <1>1
<1> HIDE DEF q, r
<1>3. e \in Nat
  BY <1>1, <1>2
<1>4. (r + m + Unit - 1) \div Unit = e + 1
  <2>1. r + m - 1 \in Nat /\ r + m + Unit - 1 = (r + m - 1) + Unit
    BY <1>1, <1>2
  <2> DEFINE x == r + m - 1
  <2>2. x \in Nat /\ (x + Unit) \div Unit = x \div Unit + 1
    <3> HIDE DEF x
    <3>1. x \in Nat
      BY <2>1 DEF x
    <3> QED BY <1>1, <3>1
  <2> QED BY <2>1, <2>2
<1>5. (a + m - 1) \div Unit = q + e
  <2> DEFINE x == r + m - 1
  <2>1. x \in Nat /\ a + m - 1 = q * Unit + x
    BY <1>1, <1>2
  <2> HIDE DEF x
  <2>2. (q * Unit + x) \div Unit = q + x \div Unit
    BY <1>1, <1>2, <2>1
  <2> QED BY <2>1, <2>2 DEF x
<1>6. NPages(a, m) = e + 1
  BY <1>4 DEF NPages, r
<1> HIDE DEF e
<1>7. v <= q + e /\ a \div Unit = q
  BY <1>5 DEF q
<1> QED BY <1>2, <1>3, <1>6, <1>7

LEMMA SegTyped ==
    ASSUME TypeOK, NEW t \in Programs
    PROVE  /\ image[t] \in Seq(Nat \X Nat) /\ nsegs[t] \in Nat
           /\ Len(image[t]) \in Nat
<1>1. image[t] \in Executables \cup {<<>>} /\ nsegs[t] \in Nat
  BY DEF TypeOK
<1>2. image[t] \in Seq(Nat \X Nat)
  <2>1. CASE image[t] \in Executables
    BY <2>1, ExecutableAssumption
  <2>2. CASE image[t] = <<>>
    BY <2>2
  <2> QED BY <1>1, <2>1, <2>2
<1> QED BY <1>1, <1>2

(* Regions that do not change keep covering. *)
LEMMA SegKept ==
    ASSUME SegInv, UNCHANGED <<image, nsegs>>,
           \A t \in Programs : /\ phase'[t] = "none" => phase[t] = "none"
                               /\ as'[t].vbase1 = as[t].vbase1
                               /\ as'[t].npages1 = as[t].npages1
                               /\ as'[t].vbase2 = as[t].vbase2
                               /\ as'[t].npages2 = as[t].npages2
    PROVE  SegInv'
BY DEF SegInv, Covered, NPages

LEMMA SegDefineRegion ==
    ASSUME TypeOK, SegInv, NEW t \in Programs, DefineRegion(t)
    PROVE  SegInv'
<1> DEFINE k == nsegs[t] + 1
           g == image[t][k]
           base == g[1] \div Unit
           n    == NPages(g[1], g[2])
<1>1. /\ k \in 1 .. Len(image[t]) /\ nsegs[t] \in Nat /\ Len(image[t]) \in Nat
      /\ as[t] \in [vbase1 : Nat, npages1 : Nat, vbase2 : Nat, npages2 : Nat,
                    npages_s : Nat]
      /\ phase[t] = "define"
  <2>1. /\ nsegs[t] \in Nat /\ Len(image[t]) \in Nat
    BY SegTyped
  <2>2. nsegs[t] < Len(image[t]) /\ phase[t] = "define"
    BY DEF DefineRegion
  <2>3. as[t] \in [vbase1 : Nat, npages1 : Nat, vbase2 : Nat, npages2 : Nat,
                   npages_s : Nat]
    BY DEF TypeOK
  <2>4. k \in 1 .. Len(image[t])
    BY <2>1, <2>2
  <2> HIDE DEF k
  <2> QED BY <2>1, <2>2, <2>3, <2>4
<1>2. /\ image' = image /\ phase' = phase
      /\ nsegs'[t] = k /\ \A u \in Programs : u # t => nsegs'[u] = nsegs[u]
      /\ \A u \in Programs : u # t => as'[u] = as[u]
  BY DEF DefineRegion, TypeOK
<1>3. \/ /\ as[t].npages1 = 0
         /\ as'[t] = [as[t] EXCEPT !.vbase1 = base, !.npages1 = n]
      \/ /\ as[t].npages1 # 0 /\ as[t].npages2 = 0
         /\ as'[t] = [as[t] EXCEPT !.vbase2 = base, !.npages2 = n]
  BY DEF DefineRegion, TypeOK
<1> HIDE DEF k, g, base, n
<1>4. \/ /\ as[t].npages1 = 0 /\ as'[t].vbase1 = base /\ as'[t].npages1 = n
         /\ as'[t].vbase2 = as[t].vbase2 /\ as'[t].npages2 = as[t].npages2
      \/ /\ as[t].npages2 = 0 /\ as'[t].vbase2 = base /\ as'[t].npages2 = n
         /\ as'[t].vbase1 = as[t].vbase1 /\ as'[t].npages1 = as[t].npages1
  BY <1>1, <1>3
<1>5. ASSUME NEW i \in 1 .. k PROVE Covered(as'[t], image[t][i])
  <2>1. CASE i = k
    BY <1>4, <2>1 DEF Covered, base, n, g
  <2>2. CASE i # k
    <3>1. i \in 1 .. nsegs[t]
      BY <1>1, <2>2 DEF k
    <3>2. Covered(as[t], image[t][i])
      BY <3>1 DEF SegInv
    <3> DEFINE j == image[t][i]
               b == j[1] \div Unit
               m == NPages(j[1], j[2])
    <3>3. \/ m = 0
          \/ as[t].vbase1 = b /\ as[t].npages1 = m
          \/ as[t].vbase2 = b /\ as[t].npages2 = m
      BY <3>2 DEF Covered
    <3> HIDE DEF j, b, m
    <3>4. \/ m = 0
          \/ as'[t].vbase1 = b /\ as'[t].npages1 = m
          \/ as'[t].vbase2 = b /\ as'[t].npages2 = m
      <4>1. CASE m = 0
        BY <4>1
      <4>2. CASE m # 0 /\ as[t].npages1 = m
        <5>1. as[t].npages1 # 0
          BY <4>2
        <5>2. as'[t].vbase1 = as[t].vbase1 /\ as'[t].npages1 = as[t].npages1
          BY <1>4, <5>1
        <5>3. CASE as[t].vbase1 = b
          BY <4>2, <5>2, <5>3
        <5>4. CASE as[t].vbase1 # b
          <6>1. as[t].vbase2 = b /\ as[t].npages2 = m
            BY <3>3, <4>2, <5>4
          <6> QED BY <1>4, <4>2, <6>1
        <5> QED BY <5>3, <5>4
      <4>3. CASE m # 0 /\ as[t].npages1 # m
        <5>1. as[t].vbase2 = b /\ as[t].npages2 = m
          BY <3>3, <4>3
        <5>2. as'[t].vbase2 = as[t].vbase2 /\ as'[t].npages2 = as[t].npages2
          BY <1>4, <4>3, <5>1
        <5> QED BY <5>1, <5>2
      <4> QED BY <4>1, <4>2, <4>3
    <3> QED BY <3>4 DEF Covered, j, b, m
  <2> QED BY <2>1, <2>2
<1>6. ASSUME NEW u \in Programs
      PROVE  /\ nsegs'[u] <= Len(image'[u])
             /\ phase'[u] = "none" => nsegs'[u] = 0
             /\ \A i \in 1 .. nsegs'[u] : Covered(as'[u], image'[u][i])
  <2>1. CASE u = t
    BY <1>1, <1>2, <1>5, <2>1
  <2>2. CASE u # t
    BY <1>2, <2>2 DEF SegInv
  <2> QED BY <2>1, <2>2
<1> QED BY <1>6 DEF SegInv, Covered, NPages

LEMMA SegFork ==
    ASSUME TypeOK, SegInv, NEW t \in Programs, NEW x \in Executables, Fork(t, x)
    PROVE  SegInv'
<1>1. /\ as' = as /\ nsegs' = nsegs /\ nsegs[t] = 0
      /\ \A u \in Programs : u # t => image'[u] = image[u] /\ phase'[u] = phase[u]
      /\ image'[t] = x /\ Len(x) \in Nat
  <2>1. Len(x) \in Nat
    BY ExecutableAssumption
  <2>2. as' = as /\ nsegs' = nsegs /\ phase[t] = "none" /\ nsegs[t] = 0
    BY DEF Fork, SegInv
  <2> QED BY <2>1, <2>2 DEF Fork, TypeOK
<1>2. ASSUME NEW u \in Programs
      PROVE  /\ nsegs'[u] <= Len(image'[u])
             /\ phase'[u] = "none" => nsegs'[u] = 0
             /\ \A i \in 1 .. nsegs'[u] : Covered(as'[u], image'[u][i])
  <2>1. CASE u = t
    <3>1. nsegs'[u] = 0
      BY <1>1, <2>1
    <3> QED BY <1>1, <2>1, <3>1
  <2>2. CASE u # t
    BY <1>1, <2>2 DEF SegInv
  <2> QED BY <2>1, <2>2
<1> QED BY <1>2 DEF SegInv, Covered, NPages

LEMMA SegExit ==
    ASSUME TypeOK, SegInv, NEW t \in Programs, NEW w \in Threads, Exit(t, w)
    PROVE  SegInv'
<1>1. /\ \A u \in Programs : u # t => /\ image'[u] = image[u]
                                      /\ phase'[u] = phase[u]
                                      /\ nsegs'[u] = nsegs[u]
                                      /\ as'[u] = as[u]
      /\ image'[t] = <<>> /\ nsegs'[t] = 0
  BY DEF Exit, TypeOK
<1>2. ASSUME NEW u \in Programs
      PROVE  /\ nsegs'[u] <= Len(image'[u])
             /\ phase'[u] = "none" => nsegs'[u] = 0
             /\ \A i \in 1 .. nsegs'[u] : Covered(as'[u], image'[u][i])
  <2>1. CASE u = t
    BY <1>1, <2>1
  <2>2. CASE u # t
    BY <1>1, <2>2 DEF SegInv
  <2> QED BY <2>1, <2>2
<1> QED BY <1>2 DEF SegInv, Covered, NPages

LEMMA SegStep == TypeOK /\ SegInv /\ [Next]_vars => SegInv'
<1> SUFFICES ASSUME TypeOK, SegInv, [Next]_vars PROVE SegInv'
  OBVIOUS
<1>1. CASE UNCHANGED vars
  BY <1>1, SegKept DEF vars
<1>2. ASSUME NEW t \in Programs, ProgramStep(t) PROVE SegInv'
  <2>1. CASE \E x \in Executables : Fork(t, x)
    BY <2>1, SegFork
  <2>2. CASE \E f \in Frames : AsCreate(t, f)
    BY <2>2, SegKept DEF AsCreate, TypeOK
  <2>3. CASE AsCreateNoMem(t) \/ FaultNoNode(t)
    BY <2>3, SegKept DEF AsCreateNoMem, FaultNoNode, HandlersLost, tables
  <2>4. CASE AsActivate(t) \/ TooManyRegions(t) \/ LoadFail(t) \/ PrepareLoad(t)
    BY <2>4, SegKept DEF AsActivate, TooManyRegions, LoadFail, PrepareLoad,
                         tables, TypeOK
  <2>5. CASE DefineRegion(t)
    BY <2>5, SegDefineRegion
  <2>6. CASE EnterUser(t)
    <3>1. phase' = [phase EXCEPT ![t] = "user"] /\ UNCHANGED <<image, nsegs>>
      BY <2>6 DEF EnterUser
    <3>2. \A u \in Programs : phase'[u] = "none" => phase[u] = "none"
      BY <3>1 DEF TypeOK
    <3>3. as'[t] = [as[t] EXCEPT !.npages_s = StackPages]
          /\ \A u \in Programs \ {t} : as'[u] = as[u]
      BY <2>6 DEF EnterUser, TypeOK
    <3>4. as[t] \in [vbase1 : Nat, npages1 : Nat, vbase2 : Nat,
                     npages2 : Nat, npages_s : Nat]
      BY <1>2 DEF TypeOK
    <3>5. /\ as'[t].vbase1 = as[t].vbase1
          /\ as'[t].npages1 = as[t].npages1
          /\ as'[t].vbase2 = as[t].vbase2
          /\ as'[t].npages2 = as[t].npages2
      BY <3>3, <3>4
    <3> QED BY <3>1, <3>2, <3>3, <3>5, SegKept
  <2>7. CASE \E v \in VPages : Miss(t, v) \/ \E s \in Slots : Store(t, v, s)
    BY <2>7, SegKept DEF Miss, Store, tables
  <2>8. CASE FaultIllegal(t)
    BY <2>8, SegKept DEF FaultIllegal, FaultError, tables, TypeOK
  <2>9. CASE \E n \in Frames : FaultNoMem(t, n)
    BY <2>9, SegKept DEF FaultNoMem, FaultError, TypeOK
  <2>10. CASE \E n, f \in Frames, s \in Slots : FaultMap(t, n, f, s)
    BY <2>10, SegKept DEF FaultMap
  <2>11. CASE \E u \in Threads : Exit(t, u)
    BY <2>11, SegExit
  <2> QED BY <1>2, <2>1, <2>2, <2>3, <2>4, <2>5, <2>6, <2>7, <2>8, <2>9, <2>10, <2>11
          DEF ProgramStep
<1>3. CASE \E u \in Threads : Switch(u)
  BY <1>3, SegKept DEF Switch, tables
<1>4. CASE (\E f \in Frames : KernelAlloc(f)) \/ \E f \in kernel : KernelFree(f)
  BY <1>4, SegKept DEF KernelAlloc, KernelFree, tables
<1> QED BY <1>1, <1>2, <1>3, <1>4 DEF Next

(* Every page with a byte of a defined segment is in a region: the rounding *)
(* of as_define_region loses none, whatever the base and length, and no     *)
(* later segment takes the slot of an earlier one.                          *)
THEOREM SegmentsReachable == Spec => []SegmentsAccessible
<1>1. Init => SegInv
  <2> SUFFICES ASSUME Init PROVE SegInv
    OBVIOUS
  <2>1. \A t \in Programs : nsegs[t] = 0 /\ image[t] = <<>>
    BY DEF Init
  <2>2. Len(<<>>) = 0 /\ 1 .. 0 = {}
    OBVIOUS
  <2>3. \A t \in Programs : nsegs[t] <= Len(image[t]) /\ 1 .. nsegs[t] = {}
    BY <2>1, <2>2
  <2> QED BY <2>1, <2>3 DEF SegInv
<1>2. ASSUME TypeOK, SegInv PROVE SegmentsAccessible
  <2> SUFFICES ASSUME NEW t \in Programs, NEW v \in SegmentPages(t)
               PROVE  AsCheckAccess(as[t], v)
    BY DEF SegmentsAccessible
  <2>1. PICK i \in 1 .. nsegs[t] :
            /\ image[t][i][2] > 0 /\ image[t][i][1] \div Unit <= v
            /\ v <= (image[t][i][1] + image[t][i][2] - 1) \div Unit
    BY DEF SegmentPages
  <2> DEFINE a == image[t][i][1]
             m == image[t][i][2]
  <2>2. a \in Nat /\ m \in Nat \ {0} /\ v \in Int
    <3>1. /\ image[t] \in Seq(Nat \X Nat) /\ nsegs[t] \in Nat
          /\ Len(image[t]) \in Nat
      BY <1>2, SegTyped
    <3>2. nsegs[t] <= Len(image[t])
      BY <1>2 DEF SegInv
    <3>3. image[t][i] \in Nat \X Nat
      <4>1. i \in 1 .. Len(image[t])
        BY <3>1, <3>2
      <4> QED BY <3>1, <4>1
    <3>4. v \in Int
      BY SizeAssumption DEF SegmentPages, VPages
    <3> QED BY <2>1, <3>3, <3>4
  <2>3. /\ NPages(a, m) # 0 /\ a \div Unit <= v
        /\ v < a \div Unit + NPages(a, m)
    <3>1. a \div Unit <= v /\ v <= (a + m - 1) \div Unit
      BY <2>1
    <3> HIDE DEF a, m
    <3> QED BY <2>2, <3>1, Rounding
  <2>4. Covered(as[t], image[t][i])
    BY <1>2 DEF SegInv
  <2> QED BY <2>3, <2>4 DEF Covered, AsCheckAccess
<1>3. IInv => TypeOK
  BY DEF IInv
<1>4. TypeOK /\ SegInv => SegmentsAccessible
  BY <1>2
<1> QED BY <1>1, <1>3, <1>4, Invariance, SegStep, PTL DEF Spec

==============================================================================
