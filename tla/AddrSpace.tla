------------------------------ MODULE AddrSpace ------------------------------
(***************************************************************************)
(* Address spaces, page tables and the TLB: the fault side of               *)
(* kern/arch/mips/mips/vm.c, kern/vm/addrspace.c, and the places that call  *)
(* them: runprogram and load_elf (kern/userprog), the TLB miss in mips_trap,*)
(* the context switch and exit of kern/thread/thread.c.                     *)
(*                                                                          *)
(* All allocations here are of one page, so alloc_ppages reduces to the     *)
(* choice of one frame (PhysMem models it in full).  A frame is the index   *)
(* of a managed page plus one; NoFrame is paddr 0 and a null pointer.       *)
(* A virtual address is a number; Unit is PAGE_SIZE.  The kernel menu       *)
(* starts one program at a time; the model lets every program thread run    *)
(* beside the others, as the context-switch code is written to allow.       *)
(***************************************************************************)
EXTENDS Integers, Sequences, FiniteSets

CONSTANTS
    Programs,       \* threads that run user programs
    Menu,           \* the boot/menu thread: it has no address space
    NFrames,        \* system_pages
    NumTlb,         \* NUM_TLB
    Fanout,         \* PT_FANOUT
    UserTop,        \* USERSTACK in pages
    StackPages,     \* STACKPAGES
    Unit,           \* PAGE_SIZE
    Executables,    \* each a sequence of PT_LOAD segments <<p_vaddr, p_memsz>>
    MaxKernel       \* bound of the model: pages the rest of the kernel holds

ASSUME SizeAssumption ==
    /\ NFrames \in Nat /\ NumTlb \in Nat \ {0} /\ Fanout \in Nat \ {0}
    /\ UserTop \in Nat /\ StackPages \in 0 .. UserTop /\ Unit \in Nat \ {0}
    /\ MaxKernel \in Nat
ASSUME ExecutableAssumption == \A x \in Executables : x \in Seq(Nat \X Nat)
ASSUME MenuAssumption == Menu \notin Programs

VARIABLES
    curthread,   \* the running thread
    phase,       \* how far each program thread is in runprogram
    as,          \* region fields of each t_vmspace
    pt,          \* frame of each top-level table
    node,        \* frames of its second-level nodes
    leaf,        \* frame mapped at each virtual page
    image,       \* the executable each program runs
    nsegs,       \* how many of its segments load_elf has defined
    pending,     \* the virtual page of a TLB miss not yet handled
    used,        \* allocated frames (ipt)
    kernel,      \* those allocated by the rest of the kernel
    mem,         \* what a frame holds: zeros, a live program's data, or data
                 \*   that is not any live program's to see ("other")
    tlb,         \* the TLB
    halted       \* why the machine stopped, if it did

vars == <<curthread, phase, as, pt, node, leaf, image, nsegs, pending, used,
          kernel, mem, tlb, halted>>

tables == <<as, pt, node, leaf, image, nsegs>>

Threads == Programs \cup {Menu}
NoFrame == 0
Frames == 1 .. NFrames
Slots == 1 .. NumTlb
VPages == 0 .. UserTop - 1
Hi(v) == v \div Fanout
HiIndex == {Hi(v) : v \in VPages}

NoPage == -1
Invalid == [vpage |-> NoPage, frame |-> NoFrame]
EmptyTlb == [s \in Slots |-> Invalid]

NoAs == [vbase1 |-> 0, npages1 |-> 0, vbase2 |-> 0, npages2 |-> 0, npages_s |-> 0]
NoNodes == [h \in HiIndex |-> NoFrame]
NoLeaves == [v \in VPages |-> NoFrame]

(* Threads the scheduler can pick. *)
Live == {Menu} \cup {t \in Programs : phase[t] # "none"}

(* t_vmspace is not NULL. *)
HasSpace(t) == t \in Programs /\ phase[t] \in {"created", "define", "load", "user", "failed"}

(* Operators named M_... are deliberate mistakes: each differs from the      *)
(* definition that follows it in one respect, and breaks a property.        *)

M_FirstFree(u, f) ==                          \* the page itself is not looked at
    /\ f \in 1 .. NFrames - 1
    /\ \A g \in 1 .. f - 1 : g \in u

(* alloc_ppages(1) with the pages u in use returns the first free page; it *)
(* fails if there is none, and also if that is the last page of memory.    *)
FirstFree(u, f) ==
    /\ f \in 1 .. NFrames - 1 /\ f \notin u
    /\ \A g \in 1 .. f - 1 : g \in u
NoneFree(u) == \A f \in 1 .. NFrames - 1 : f \in u

(* as_check_access on page v. *)
AsCheckAccess(a, v) ==
    \/ a.vbase1 <= v /\ v < a.vbase1 + a.npages1
    \/ a.vbase2 <= v /\ v < a.vbase2 + a.npages2
    \/ UserTop - a.npages_s <= v /\ v < UserTop

M_NPages(vaddr, memsz) == (memsz + Unit - 1) \div Unit   \* offset in page ignored

(* Pages from the one vaddr is in to the one its last byte is in. *)
NPages(vaddr, memsz) == ((vaddr % Unit) + memsz + Unit - 1) \div Unit

------------------------------------------------------------------------------
Init ==
    /\ curthread = Menu
    /\ phase = [t \in Programs |-> "none"]
    /\ as = [t \in Programs |-> NoAs]
    /\ pt = [t \in Programs |-> NoFrame]
    /\ node = [t \in Programs |-> NoNodes]
    /\ leaf = [t \in Programs |-> NoLeaves]
    /\ image = [t \in Programs |-> <<>>]
    /\ nsegs = [t \in Programs |-> 0]
    /\ pending = [t \in Programs |-> NoPage]
    /\ used = {} /\ kernel = {}
    /\ mem = [f \in Frames |-> "other"]
    /\ tlb = EmptyTlb
    /\ halted = "no"

M_SwitchTo(u) ==                              \* the TLB is not flushed
    /\ curthread' = u
    /\ UNCHANGED tlb

(* The tail of mi_switch in the thread switched to, and mi_threadstart:    *)
(* as_activate, which flushes the TLB, if it has an address space.         *)
SwitchTo(u) ==
    /\ curthread' = u
    /\ tlb' = IF HasSpace(u) THEN EmptyTlb ELSE tlb

(* A context switch between two steps of the running thread: the clock     *)
(* interrupt, or a sleep in the disk driver while loading.                 *)
Switch(u) ==
    /\ u \in Live /\ u # curthread
    /\ SwitchTo(u)
    /\ UNCHANGED <<phase, tables, pending, used, kernel, mem, halted>>

(* thread_fork from the menu, to run executable x. *)
Fork(t, x) ==
    /\ curthread = Menu
    /\ phase[t] = "none"
    /\ phase' = [phase EXCEPT ![t] = "start"]
    /\ image' = [image EXCEPT ![t] = x]
    /\ UNCHANGED <<curthread, as, pt, node, leaf, nsegs, pending, used, kernel,
                   mem, tlb, halted>>

(* runprogram: curthread->t_vmspace = as_create(), with pt_create inside. *)
AsCreate(t, f) ==
    /\ curthread = t /\ phase[t] = "start"
    /\ FirstFree(used, f)
    /\ used' = used \cup {f}
    /\ pt' = [pt EXCEPT ![t] = f]
    /\ mem' = [mem EXCEPT ![f] = "other"]
    /\ phase' = [phase EXCEPT ![t] = "created"]
    /\ UNCHANGED <<curthread, as, node, leaf, image, nsegs, pending, kernel,
                   tlb, halted>>

(* pt_create or pt_node_create without memory: alloc_kpages returns the    *)
(* kernel address of page 0, the test for NULL passes, and the exception   *)
(* handlers are overwritten with zeros.                                    *)
HandlersLost ==
    /\ halted' = "handlers"
    /\ UNCHANGED <<curthread, phase, tables, pending, used, kernel, mem, tlb>>

AsCreateNoMem(t) ==
    /\ curthread = t /\ phase[t] = "start"
    /\ NoneFree(used)
    /\ HandlersLost

(* runprogram: as_activate(curthread->t_vmspace). *)
AsActivate(t) ==
    /\ curthread = t /\ phase[t] = "created"
    /\ tlb' = EmptyTlb
    /\ phase' = [phase EXCEPT ![t] = "define"]
    /\ UNCHANGED <<curthread, tables, pending, used, kernel, mem, halted>>

(* load_elf, first loop: as_define_region for the next segment.  A region  *)
(* of no pages leaves its slot free for the next one.                      *)
DefineRegion(t) ==
    LET g    == image[t][nsegs[t] + 1]
        base == g[1] \div Unit
        n    == NPages(g[1], g[2])
    IN
    /\ curthread = t /\ phase[t] = "define" /\ nsegs[t] < Len(image[t])
    /\ \/ /\ as[t].npages1 = 0
          /\ as' = [as EXCEPT ![t].vbase1 = base, ![t].npages1 = n]
       \/ /\ as[t].npages1 # 0 /\ as[t].npages2 = 0
          /\ as' = [as EXCEPT ![t].vbase2 = base, ![t].npages2 = n]
    /\ nsegs' = [nsegs EXCEPT ![t] = @ + 1]
    /\ UNCHANGED <<curthread, phase, pt, node, leaf, image, pending, used, kernel,
                   mem, tlb, halted>>

(* EUNIMP for a third region. *)
TooManyRegions(t) ==
    /\ curthread = t /\ phase[t] = "define" /\ nsegs[t] < Len(image[t])
    /\ as[t].npages1 # 0 /\ as[t].npages2 # 0
    /\ phase' = [phase EXCEPT ![t] = "failed"]
    /\ UNCHANGED <<curthread, tables, pending, used, kernel, mem, tlb, halted>>

(* A file load_elf cannot read or rejects: runprogram returns the error    *)
(* and the thread goes on to thread_exit.                                  *)
LoadFail(t) ==
    /\ curthread = t /\ phase[t] \in {"define", "load"} /\ pending[t] = NoPage
    /\ phase' = [phase EXCEPT ![t] = "failed"]
    /\ UNCHANGED <<curthread, tables, pending, used, kernel, mem, tlb, halted>>

(* The second loop of load_elf starts once all segments are defined. *)
PrepareLoad(t) ==
    /\ curthread = t /\ phase[t] = "define" /\ nsegs[t] = Len(image[t])
    /\ phase' = [phase EXCEPT ![t] = "load"]
    /\ UNCHANGED <<curthread, tables, pending, used, kernel, mem, tlb, halted>>

(* as_define_stack and md_usermode. *)
EnterUser(t) ==
    /\ curthread = t /\ phase[t] = "load" /\ pending[t] = NoPage
    /\ as' = [as EXCEPT ![t].npages_s = StackPages]
    /\ phase' = [phase EXCEPT ![t] = "user"]
    /\ UNCHANGED <<curthread, pt, node, leaf, image, nsegs, pending, used,
                   kernel, mem, tlb, halted>>

------------------------------------------------------------------------------
(* Memory accesses: by the program in user mode, or by load_segment, which *)
(* copies the file to the segment's user addresses through the same TLB.   *)
SegmentPages(t) ==
    {v \in VPages : \E i \in 1 .. nsegs[t] :
        LET g == image[t][i]
        IN  g[2] > 0 /\ g[1] \div Unit <= v /\ v <= (g[1] + g[2] - 1) \div Unit}

MayAccess(t, v) ==
    /\ curthread = t /\ pending[t] = NoPage
    /\ phase[t] = "user" \/ (phase[t] = "load" /\ v \in SegmentPages(t))

Hits(v) == {s \in Slots : tlb[s].vpage = v}

(* A store that hits in the TLB. *)
Store(t, v, s) ==
    /\ MayAccess(t, v)
    /\ s \in Hits(v)
    /\ mem' = [mem EXCEPT ![tlb[s].frame] = t]
    /\ UNCHANGED <<curthread, phase, tables, pending, used, kernel, tlb, halted>>

(* A miss: mips_trap lowers spl before it calls vm_fault, so a switch can  *)
(* come in between.                                                        *)
Miss(t, v) ==
    /\ MayAccess(t, v)
    /\ Hits(v) = {}
    /\ pending' = [pending EXCEPT ![t] = v]
    /\ UNCHANGED <<curthread, phase, tables, used, kernel, mem, tlb, halted>>

(* vm_fault, all of it at splhigh, on page v = pending[t]. *)
Faulting(t) == curthread = t /\ pending[t] # NoPage
NeedsNode(t) == node[t][Hi(pending[t])] = NoFrame
NeedsLeaf(t) == leaf[t][pending[t]] = NoFrame

(* n is the second-level node walk_pt uses, a new one if there is none.    *)
NodeFor(t, n) ==
    IF NeedsNode(t) THEN FirstFree(used, n) ELSE n = node[t][Hi(pending[t])]

(* vm_fault returned an error: fatal in user mode (kill_curthread panics); *)
(* while loading, copyfail makes the copy fail with EFAULT.                *)
FaultError(t) ==
    /\ pending' = [pending EXCEPT ![t] = NoPage]
    /\ IF phase[t] = "user"
       THEN halted' = "killed" /\ phase' = phase
       ELSE halted' = halted /\ phase' = [phase EXCEPT ![t] = "failed"]

(* EFAULT: the page is in no region. *)
FaultIllegal(t) ==
    /\ Faulting(t)
    /\ ~AsCheckAccess(as[t], pending[t])
    /\ FaultError(t)
    /\ UNCHANGED <<curthread, tables, used, kernel, mem, tlb>>

(* walk_pt needs a node and there is no memory for it. *)
FaultNoNode(t) ==
    /\ Faulting(t)
    /\ AsCheckAccess(as[t], pending[t])
    /\ NeedsNode(t) /\ NoneFree(used)
    /\ HandlersLost

(* ENOMEM: the node exists or was just installed, the page has no frame.   *)
FaultNoMem(t, n) ==
    /\ Faulting(t)
    /\ AsCheckAccess(as[t], pending[t])
    /\ NodeFor(t, n)
    /\ NeedsLeaf(t) /\ NoneFree(used \cup {n})
    /\ node' = [node EXCEPT ![t][Hi(pending[t])] = n]
    /\ mem' = IF NeedsNode(t) THEN [mem EXCEPT ![n] = "other"] ELSE mem
    /\ used' = used \cup {n}
    /\ FaultError(t)
    /\ UNCHANGED <<curthread, as, pt, leaf, image, nsegs, kernel, tlb>>

M_Cleared(f) == mem[f]                        \* the page is not zeroed

(* What walk_pt leaves in a page it has just allocated. *)
Cleared(f) == "zero"

(* The fault is resolved: frame f, the one mapped already or a new one     *)
(* filled with zeros, goes to a random slot of the TLB.                    *)
FaultMap(t, n, f, s) ==
    /\ Faulting(t)
    /\ AsCheckAccess(as[t], pending[t])
    /\ NodeFor(t, n)
    /\ IF NeedsLeaf(t) THEN FirstFree(used \cup {n}, f) ELSE f = leaf[t][pending[t]]
    /\ node' = [node EXCEPT ![t][Hi(pending[t])] = n]
    /\ leaf' = [leaf EXCEPT ![t][pending[t]] = f]
    /\ mem' = [g \in Frames |-> CASE NeedsLeaf(t) /\ g = f -> Cleared(f)
                                 [] NeedsNode(t) /\ g = n -> "other"
                                 [] OTHER -> mem[g]]
    /\ used' = used \cup {n, f}
    /\ tlb' = [tlb EXCEPT ![s] = [vpage |-> pending[t], frame |-> f]]
    /\ pending' = [pending EXCEPT ![t] = NoPage]
    /\ UNCHANGED <<curthread, phase, as, pt, image, nsegs, kernel, halted>>

------------------------------------------------------------------------------
Nodes(t) == {h \in HiIndex : node[t][h] # NoFrame}

M_PtDestroy(t) ==                             \* the node itself is not freed
    {pt[t]} \cup {leaf[t][v] : v \in {w \in VPages : Hi(w) \in Nodes(t)}}

(* The frames pt_destroy frees: the pages it finds in each node, the nodes  *)
(* and the top-level table.  An empty entry (NoFrame) frees nothing.        *)
PtDestroy(t) ==
    {pt[t]} \cup {node[t][h] : h \in Nodes(t)}
            \cup {leaf[t][v] : v \in {w \in VPages : Hi(w) \in Nodes(t)}}

(* thread_exit: t_vmspace is cleared, as_destroy frees the page table, and *)
(* the processor goes to another thread.  The frames keep the data of the  *)
(* dead program, and nothing flushes the TLB here.  A thread whose vfs_open *)
(* failed exits from "start", without an address space.                    *)
Exit(t, u) ==
    /\ curthread = t /\ phase[t] \in {"start", "failed", "user"} /\ pending[t] = NoPage
    /\ u \in Live /\ u # t
    /\ used' = used \ PtDestroy(t)
    /\ phase' = [phase EXCEPT ![t] = "none"]
    /\ as' = [as EXCEPT ![t] = NoAs]
    /\ pt' = [pt EXCEPT ![t] = NoFrame]
    /\ node' = [node EXCEPT ![t] = NoNodes]
    /\ leaf' = [leaf EXCEPT ![t] = NoLeaves]
    /\ image' = [image EXCEPT ![t] = <<>>]
    /\ nsegs' = [nsegs EXCEPT ![t] = 0]
    /\ mem' = [f \in Frames |-> IF f \in PtDestroy(t) THEN "other" ELSE mem[f]]
    /\ SwitchTo(u)
    /\ UNCHANGED <<pending, kernel, halted>>

(* Other kernel code takes a page (kmalloc) and writes to it... *)
KernelAlloc(f) ==
    /\ FirstFree(used, f)
    /\ Cardinality(kernel) < MaxKernel
    /\ used' = used \cup {f}
    /\ kernel' = kernel \cup {f}
    /\ mem' = [mem EXCEPT ![f] = "other"]
    /\ UNCHANGED <<curthread, phase, tables, pending, tlb, halted>>

M_KernelFree(f) ==                            \* freed, and still in use
    /\ used' = used \ {f}
    /\ UNCHANGED <<curthread, phase, tables, pending, kernel, mem, tlb, halted>>

(* ... and frees it (kfree). *)
KernelFree(f) ==
    /\ used' = used \ {f}
    /\ kernel' = kernel \ {f}
    /\ UNCHANGED <<curthread, phase, tables, pending, mem, tlb, halted>>

------------------------------------------------------------------------------
ProgramStep(t) ==
    \/ \E x \in Executables : Fork(t, x)
    \/ \E f \in Frames : AsCreate(t, f)
    \/ AsCreateNoMem(t) \/ AsActivate(t)
    \/ DefineRegion(t) \/ TooManyRegions(t)
    \/ LoadFail(t) \/ PrepareLoad(t) \/ EnterUser(t)
    \/ \E v \in VPages : Miss(t, v) \/ \E s \in Slots : Store(t, v, s)
    \/ FaultIllegal(t) \/ FaultNoNode(t)
    \/ \E n \in Frames : FaultNoMem(t, n)
    \/ \E n, f \in Frames, s \in Slots : FaultMap(t, n, f, s)
    \/ \E u \in Threads : Exit(t, u)

Next ==
    /\ halted = "no"
    /\ \/ \E u \in Threads : Switch(u)
       \/ \E t \in Programs : ProgramStep(t)
       \/ \E f \in Frames : KernelAlloc(f)
       \/ \E f \in kernel : KernelFree(f)

Spec == Init /\ [][Next]_vars

------------------------------------------------------------------------------
Phases == {"none", "start", "created", "define", "load", "user", "failed"}

(***************************************************************************)
(* Types of the state: what alloc_ppages hands to page tables and to the    *)
(* kernel is memory of the machine that the allocator knows to be in use.   *)
(***************************************************************************)
TypeOK ==
    /\ curthread \in Threads
    /\ phase \in [Programs -> Phases]
    /\ as \in [Programs -> [vbase1 : Nat, npages1 : Nat, vbase2 : Nat,
                            npages2 : Nat, npages_s : Nat]]
    /\ pt \in [Programs -> Frames \cup {NoFrame}]
    /\ node \in [Programs -> [HiIndex -> Frames \cup {NoFrame}]]
    /\ leaf \in [Programs -> [VPages -> Frames \cup {NoFrame}]]
    /\ image \in [Programs -> Executables \cup {<<>>}]
    /\ nsegs \in [Programs -> Nat]
    /\ pending \in [Programs -> VPages \cup {NoPage}]
    /\ used \subseteq Frames /\ kernel \subseteq used
    /\ mem \in [Frames -> Programs \cup {"other", "zero"}]
    /\ tlb \in [Slots -> [vpage : VPages \cup {NoPage}, frame : Frames \cup {NoFrame}]]
    /\ halted \in {"no", "handlers", "killed"}

(* All frames of t's page table. *)
FramesOf(t) ==
    ({pt[t]} \cup {node[t][h] : h \in HiIndex} \cup {leaf[t][v] : v \in VPages})
        \ {NoFrame}

(***************************************************************************)
(* Every frame has one user: no two page tables share a frame, no frame is  *)
(* both a table and a page of data or used twice in one table, and none is  *)
(* also in the hands of the rest of the kernel.                             *)
(***************************************************************************)
FramesExclusive ==
    \A t \in Programs :
        /\ FramesOf(t) \cap kernel = {}
        /\ \A u \in Programs : t # u => FramesOf(t) \cap FramesOf(u) = {}
        /\ \A h \in HiIndex : node[t][h] # NoFrame =>
              /\ node[t][h] # pt[t]
              /\ \A i \in HiIndex : node[t][h] = node[t][i] => h = i
              /\ \A v \in VPages : node[t][h] # leaf[t][v]
        /\ \A v \in VPages : leaf[t][v] # NoFrame =>
              /\ leaf[t][v] # pt[t]
              /\ \A w \in VPages : leaf[t][v] = leaf[t][w] => v = w

(***************************************************************************)
(* Frames are neither lost nor freed while a table still refers to them:    *)
(* the allocated frames are those of the live page tables and of the        *)
(* kernel.  In particular as_destroy gives back everything walk_pt took.    *)
(***************************************************************************)
FramesAccounted ==
    used = kernel \cup UNION {FramesOf(t) : t \in Programs}

(***************************************************************************)
(* When the running thread can touch user memory, every valid TLB entry     *)
(* agrees with its own page table: no translation of another or of a        *)
(* destroyed address space survives the context switch.                     *)
(***************************************************************************)
TlbCoherent ==
    \A t \in Programs :
        curthread = t /\ phase[t] \in {"define", "load", "user"} =>
            \A s \in Slots : tlb[s] # Invalid =>
                leaf[t][tlb[s].vpage] = tlb[s].frame

(***************************************************************************)
(* The TLB never holds two entries for one page: TLB_Random is only used    *)
(* for a page that still misses, even if the thread was switched out        *)
(* between the miss and vm_fault.                                           *)
(***************************************************************************)
TlbUnique ==
    \A r, s \in Slots : tlb[r] # Invalid /\ tlb[r].vpage = tlb[s].vpage => r = s

(***************************************************************************)
(* A program never sees data of the kernel or of another program in its     *)
(* memory: what its page table maps holds zeros or its own data.            *)
(***************************************************************************)
NoDataLeak ==
    \A t \in Programs : \A v \in VPages :
        leaf[t][v] # NoFrame => mem[leaf[t][v]] \in {"zero", t}

(***************************************************************************)
(* Every byte of a segment load_elf has defined is in a region of the       *)
(* address space: vm_fault will not reject an access the executable's       *)
(* headers allow.                                                           *)
(***************************************************************************)
SegmentsAccessible ==
    \A t \in Programs : \A v \in SegmentPages(t) : AsCheckAccess(as[t], v)

==============================================================================
