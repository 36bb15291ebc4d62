------------------------------- MODULE PhysMem -------------------------------
(***************************************************************************)
(* Physical memory of the kernel: kern/arch/mips/mips/ram.c (the bump       *)
(* allocator of early boot) and the page allocator of                       *)
(* kern/arch/mips/mips/vm.c (vm_bootstrap, alloc_kpages, alloc_ppages,      *)
(* free_kpages, free_ppages).                                               *)
(*                                                                          *)
(* Addresses are page numbers: a paddr of the code is PAGE_SIZE times ours. *)
(* alloc_kpages raises the interrupt level for the whole of its scan, so    *)
(* no other thread runs between two iterations; they are steps of their own *)
(* here (ScanSkip, ScanFree) and `call` says that one is under way.         *)
(* free_ppages does not raise it, and kfree calls it at whatever level its  *)
(* caller runs: its load-add-store of avail_pages and its store to the      *)
(* table are three steps that other threads interleave with.                *)
(***************************************************************************)
EXTENDS Integers, FiniteSets

CONSTANTS
    Threads,        \* kernel threads that allocate and free pages
    RamPages,       \* size of RAM in pages (lastpaddr after ram_bootstrap)
    FirstPage,      \* first page after the kernel image (firstfree, start.S)
    PtrsPerPage,    \* PAGE_SIZE / sizeof(struct pmem_info)
    MaxReq,         \* largest request, in pages
    AvailMin,       \* bounds of the model: an allocation starts only at
    AvailMax,       \*   avail_pages >= AvailMin, a free only at <= AvailMax
    NoThread, Vm    \* no call under way; the call vm_bootstrap makes itself

ASSUME RamAssumption ==
    /\ RamPages \in Nat /\ FirstPage \in Nat
    /\ 0 < FirstPage /\ FirstPage < RamPages    \* page 0: exception handlers
ASSUME SizeAssumption == PtrsPerPage \in Nat /\ PtrsPerPage >= 2
ASSUME BoundAssumption ==
    /\ MaxReq \in Nat \ {0}
    /\ AvailMin \in Int /\ AvailMax \in Int
ASSUME ThreadAssumption ==
    NoThread \notin Threads /\ Vm \notin Threads /\ NoThread # Vm

VARIABLES
    firstpaddr, lastpaddr,   \* ram.c: what ram_stealmem may still hand out
    bootstrapped,            \* vm_bootstrap has run
    lo,                      \* first page managed by the table
    system_pages,            \* pages managed by the table
    ipt,                     \* alloc_len of each managed page
    avail_pages,             \* the kernel's count of available pages
    call,                    \* locals of the alloc_ppages under way
    freeing,                 \* locals of each thread's free_ppages
    held,                    \* what callers were given and have not freed
    wild                     \* a table entry outside the table was accessed

vars == <<firstpaddr, lastpaddr, bootstrapped, lo, system_pages, ipt,
          avail_pages, call, freeing, held, wild>>

ram == <<firstpaddr, lastpaddr, bootstrapped, lo, system_pages>>

(* Operators named M_... are deliberate mistakes: each differs from the      *)
(* definition that follows it in one respect, and breaks a property.        *)

M_IptPages(n) == n \div PtrsPerPage          \* no rounding up

(* N_PAGES(n * sizeof(struct pmem_info)) *)
IptPages(n) == (n + PtrsPerPage - 1) \div PtrsPerPage

Index == 0 .. system_pages - 1

NoCall == [who |-> NoThread, npages |-> 0, i |-> 0, len |-> 0]
NoFree == [pc |-> "idle", page |-> 0, sum |-> 0]

(* Nobody is inside alloc_kpages, which runs with interrupts off. *)
InterruptsOn == call.who = NoThread /\ ~wild

Begin(who, n) == [who |-> who, npages |-> n, i |-> 0, len |-> 0]

Grant(who, page, n) == [who |-> who, start |-> page, len |-> n]

------------------------------------------------------------------------------
(* The state ram_bootstrap leaves. *)
Init ==
    /\ firstpaddr = FirstPage
    /\ lastpaddr = RamPages
    /\ bootstrapped = FALSE
    /\ lo = 0
    /\ system_pages = 0
    /\ ipt = [p \in {} |-> 0]
    /\ avail_pages = 0
    /\ call = NoCall
    /\ freeing = [t \in Threads |-> NoFree]
    /\ held = {}
    /\ wild = FALSE

(* alloc_kpages before vm_bootstrap: ram_stealmem bumps firstpaddr... *)
Steal(t, n) ==
    /\ ~bootstrapped
    /\ firstpaddr + n <= lastpaddr
    /\ held' = held \cup {Grant(t, firstpaddr, n)}
    /\ firstpaddr' = firstpaddr + n
    /\ UNCHANGED <<lastpaddr, bootstrapped, lo, system_pages, ipt,
                   avail_pages, call, freeing, wild>>

(* ... or returns 0, which PADDR_TO_KVADDR turns into the kernel address   *)
(* of page 0: the caller's test for NULL passes and it uses that page.     *)
StealFail(t, n) ==
    /\ ~bootstrapped
    /\ firstpaddr + n > lastpaddr
    /\ held' = held \cup {Grant(t, 0, n)}
    /\ UNCHANGED <<ram, ipt, avail_pages, call, freeing, wild>>

(* vm_bootstrap up to its own call of alloc_kpages, which reserves the     *)
(* pages the table itself lies in.  ram_getsize zeroes both ram variables. *)
VmBootstrap ==
    /\ ~bootstrapped
    /\ lo' = firstpaddr
    /\ system_pages' = lastpaddr - firstpaddr
    /\ avail_pages' = lastpaddr - firstpaddr
    /\ firstpaddr' = 0 /\ lastpaddr' = 0
    /\ ipt' = [p \in 0 .. (lastpaddr - firstpaddr) - 1 |-> 0]
    /\ bootstrapped' = TRUE
    /\ call' = Begin(Vm, IptPages(lastpaddr - firstpaddr))
    /\ UNCHANGED <<freeing, held, wild>>

------------------------------------------------------------------------------
(* alloc_kpages with the table up: splhigh, then alloc_ppages(n). *)
AllocStart(t, n) ==
    /\ bootstrapped /\ InterruptsOn
    /\ avail_pages >= AvailMin
    /\ freeing[t] = NoFree
    /\ call' = Begin(t, n)
    /\ UNCHANGED <<ram, ipt, avail_pages, freeing, held, wild>>

Looping ==
    /\ call.who # NoThread
    /\ call.len < call.npages
    /\ call.i < system_pages

M_ScanSkipKeep ==                             \* the candidate is not dropped
    /\ Looping
    /\ ipt[call.i] > 0
    /\ call' = [call EXCEPT !.i = @ + ipt[call.i]]
    /\ UNCHANGED <<ram, ipt, avail_pages, freeing, held, wild>>
M_ScanSkipStay ==                             \* no progress
    /\ Looping
    /\ ipt[call.i] > 0
    /\ call' = [call EXCEPT !.len = 0]
    /\ UNCHANGED <<ram, ipt, avail_pages, freeing, held, wild>>

(* Page i starts an allocated region: skip all of it. *)
ScanSkip ==
    /\ Looping
    /\ ipt[call.i] > 0
    /\ call' = [call EXCEPT !.i = @ + ipt[call.i], !.len = 0]
    /\ UNCHANGED <<ram, ipt, avail_pages, freeing, held, wild>>

M_ScanFree ==                                 \* the length is not counted
    /\ Looping
    /\ ipt[call.i] = 0
    /\ call' = [call EXCEPT !.i = @ + 1, !.len = 1]
    /\ UNCHANGED <<ram, ipt, avail_pages, freeing, held, wild>>

(* Page i is not allocated: it extends the candidate region. *)
ScanFree ==
    /\ Looping
    /\ ipt[call.i] = 0
    /\ call' = [call EXCEPT !.i = @ + 1, !.len = @ + 1]
    /\ UNCHANGED <<ram, ipt, avail_pages, freeing, held, wild>>

(* The value alloc_kpages returns; vm_bootstrap ignores it. *)
Return(page) ==
    held' = IF call.who = Vm THEN held
            ELSE held \cup {Grant(call.who, page, call.npages)}

(* The scan ended at the end of the table: the return value is paddr 0,    *)
(* and avail_pages is decremented all the same.                            *)
AllocFail ==
    /\ call.who # NoThread /\ ~Looping
    /\ call.i = system_pages
    /\ Return(0)
    /\ avail_pages' = avail_pages - call.npages
    /\ call' = NoCall
    /\ UNCHANGED <<ram, ipt, freeing, wild>>

(* The scan ended before it: the region is the npages before i. *)
AllocFound ==
    /\ call.who # NoThread /\ ~Looping
    /\ call.i # system_pages
    /\ ipt' = [ipt EXCEPT ![call.i - call.npages] = call.npages]
    /\ Return(lo + (call.i - call.npages))
    /\ avail_pages' = avail_pages - call.npages
    /\ call' = NoCall
    /\ UNCHANGED <<ram, freeing, wild>>

------------------------------------------------------------------------------
M_FreeStart(t, r) ==                          \* lo is not subtracted
    /\ bootstrapped /\ InterruptsOn
    /\ avail_pages <= AvailMax
    /\ freeing[t] = NoFree
    /\ r.start >= lo
    /\ held' = held \ {r}
    /\ freeing' = [freeing EXCEPT ![t] =
                      [pc |-> "add", page |-> r.start,
                       sum |-> avail_pages + r.len]]
    /\ UNCHANGED <<ram, ipt, avail_pages, call, wild>>

(* free_kpages(r): `page` is the index free_ppages computes; addr - lo is  *)
(* unsigned, so for page 0 it is far beyond the table.  Callers keep the   *)
(* documented contract not to free what ram_stealmem gave them.            *)
FreeStart(t, r) ==
    /\ bootstrapped /\ InterruptsOn
    /\ avail_pages <= AvailMax
    /\ freeing[t] = NoFree
    /\ r.start >= lo
    /\ held' = held \ {r}
    /\ freeing' = [freeing EXCEPT ![t] =
                      [pc |-> "add", page |-> r.start - lo,
                       sum |-> avail_pages + ipt[r.start - lo]]]
    /\ UNCHANGED <<ram, ipt, avail_pages, call, wild>>

(* Freeing the page 0 that a failed allocation returned: the access is     *)
(* outside the table and what happens next is not defined.                 *)
FreeWild(t, r) ==
    /\ bootstrapped /\ InterruptsOn
    /\ freeing[t] = NoFree
    /\ r.start = 0
    /\ held' = held \ {r}
    /\ wild' = TRUE
    /\ UNCHANGED <<ram, ipt, avail_pages, call, freeing>>

(* The store of avail_pages += ipt[page].alloc_len. *)
FreeAdd(t) ==
    /\ InterruptsOn
    /\ freeing[t].pc = "add"
    /\ avail_pages' = freeing[t].sum
    /\ freeing' = [freeing EXCEPT ![t].pc = "clear"]
    /\ UNCHANGED <<ram, ipt, call, held, wild>>

M_FreeClear(t) ==                             \* the entry is not reset
    /\ InterruptsOn
    /\ freeing[t].pc = "clear"
    /\ freeing' = [freeing EXCEPT ![t] = NoFree]
    /\ UNCHANGED <<ram, ipt, avail_pages, call, held, wild>>

(* ipt[page].alloc_len = 0 *)
FreeClear(t) ==
    /\ InterruptsOn
    /\ freeing[t].pc = "clear"
    /\ ipt' = [ipt EXCEPT ![freeing[t].page] = 0]
    /\ freeing' = [freeing EXCEPT ![t] = NoFree]
    /\ UNCHANGED <<ram, avail_pages, call, held, wild>>

------------------------------------------------------------------------------
Scan == ScanSkip \/ ScanFree \/ AllocFail \/ AllocFound

Next ==
    \/ VmBootstrap
    \/ ScanSkip \/ ScanFree \/ AllocFail \/ AllocFound
    \/ \E t \in Threads :
        \/ \E n \in 1 .. MaxReq :
              Steal(t, n) \/ StealFail(t, n) \/ AllocStart(t, n)
        \/ \E r \in held : FreeStart(t, r) \/ FreeWild(t, r)
        \/ FreeAdd(t) \/ FreeClear(t)

(* Interrupts are off during the scan, so nothing but the loop itself can  *)
(* run: the processor keeps executing it.                                  *)
Spec == Init /\ [][Next]_vars /\ WF_vars(Scan)

------------------------------------------------------------------------------
(* Page p of the table lies in an allocated region. *)
Covered(p) == \E s \in Index : ipt[s] > 0 /\ s <= p /\ p < s + ipt[s]

FreeRun(s, n) == \A p \in s .. s + n - 1 : ~Covered(p)

CallType ==
    [who : Threads \cup {NoThread, Vm}, npages : Nat, i : Nat, len : Nat]

(***************************************************************************)
(* Types, and the bounds of every index: the scan of alloc_ppages never     *)
(* runs past the end of the table (its exit test is i == system_pages, so   *)
(* overshooting would count as success) and free_ppages indexes inside it.  *)
(***************************************************************************)
TypeOK ==
    /\ firstpaddr \in 0 .. RamPages /\ lastpaddr \in 0 .. RamPages
    /\ bootstrapped \in BOOLEAN /\ wild \in BOOLEAN
    /\ lo \in 0 .. RamPages /\ system_pages \in 0 .. RamPages
    /\ ipt \in [Index -> Nat]
    /\ avail_pages \in Int
    /\ call \in CallType
    /\ call.i <= system_pages /\ call.len <= call.i
    /\ freeing \in [Threads ->
          [pc : {"idle", "add", "clear"}, page : Nat, sum : Int]]
    /\ \A t \in Threads : freeing[t].pc # "idle" => freeing[t].page \in Index
    /\ held \subseteq [who : Threads, start : Nat, len : Nat \ {0}]

(* Two regions that have no page in common. *)
Apart(q, r) == q.start + q.len <= r.start \/ r.start + r.len <= q.start

(***************************************************************************)
(* No page of RAM is in two callers' hands: the regions granted by          *)
(* ram_stealmem and alloc_ppages and not yet freed are pairwise apart and   *)
(* lie in RAM above the kernel image.  (Grants of page 0 are failures: see  *)
(* FailureIsNull.)                                                          *)
(***************************************************************************)
HeldApart ==
    /\ \A q, r \in held :
          q # r /\ q.start > 0 /\ r.start > 0 => Apart(q, r)
    /\ \A r \in held : r.start > 0 =>
          FirstPage <= r.start /\ r.start + r.len <= RamPages

(***************************************************************************)
(* The table lies at lo, in memory it manages itself: what alloc_ppages     *)
(* grants begins after its last entry, PtrsPerPage entries to the page.     *)
(***************************************************************************)
TableReserved ==
    \A r \in held :
        bootstrapped /\ r.start >= lo => (r.start - lo) * PtrsPerPage >= system_pages

(***************************************************************************)
(* When the scan of alloc_ppages has reached the end of the table, no run   *)
(* of npages free pages ends before the last page: outside that boundary    *)
(* case the allocator never reports a failure it could have avoided.        *)
(***************************************************************************)
FailsOnlyWhenFull ==
    call.who # NoThread /\ call.i = system_pages =>
        \A s \in 0 .. system_pages - 1 - call.npages : ~FreeRun(s, call.npages)

(***************************************************************************)
(* No page leaks: every region marked in the table is in a caller's hands,  *)
(* being freed by a thread inside free_ppages, or the table's own.          *)
(***************************************************************************)
NoLeak ==
    \A s \in Index : ipt[s] > 0 =>
        \/ s = 0
        \/ \E r \in held : r.start = lo + s /\ r.len = ipt[s]
        \/ \E t \in Threads : freeing[t].pc # "idle" /\ freeing[t].page = s

(***************************************************************************)
(* alloc_ppages, which runs with interrupts off, terminates.                *)
(***************************************************************************)
AllocTerminates == call.who # NoThread ~> call.who = NoThread

(***************************************************************************)
(* The table implements the abstract allocator: its non-zero entries are    *)
(* the owned regions, every grant is of ownerless pages and every release   *)
(* of a whole region.                                                       *)
(***************************************************************************)
OwnedRegions == {[start |-> s, len |-> ipt[s]] : s \in {p \in Index : ipt[p] > 0}}

Abs == INSTANCE PageAllocator WITH Pages <- RamPages, owned <- OwnedRegions

AbsSpec == Abs!Spec

------------------------------------------------------------------------------
(* Statements of comments in the code that the code does not keep.          *)

(***************************************************************************)
(* vm.c in alloc_ppages, on returning NULL: "We got to the end of the IPT   *)
(* without finding a region."                                               *)
(***************************************************************************)
FailMeansNoRegion ==
    [][AllocFail /\ call.who \in Threads =>
         \A s \in 0 .. system_pages - call.npages : ~FreeRun(s, call.npages)]_vars

(***************************************************************************)
(* vm.h on PADDR_TO_KVADDR: "check the paddr for being 0 *before* you use   *)
(* this macro": a failed allocation must not look like a grant of page 0.   *)
(***************************************************************************)
FailureIsNull == \A r \in held : r.start > 0

==============================================================================
