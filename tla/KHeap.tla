-------------------------------- MODULE KHeap --------------------------------
(***************************************************************************)
(* The kernel heap kern/lib/kheap.c: kmalloc and kfree, with the subpage    *)
(* allocator that cuts pages into blocks of one size.                       *)
(*                                                                          *)
(* subpage_kmalloc and subpage_kfree run with interrupts off from end to    *)
(* end, so each call is one step.  Pages come from alloc_kpages: before     *)
(* vm_bootstrap from ram_stealmem, after it from the table of vm.c, which   *)
(* is used here through its specification, PageAllocator.  An allocation    *)
(* that fails there yields page 0, the exception handlers' (see PhysMem):   *)
(* the heap then writes its free list or its caller's data over them and    *)
(* nothing more is known of the machine.  The same holds of a free of a     *)
(* page the table does not manage.  `wild` marks both; no step follows.     *)
(*                                                                          *)
(* Addresses are a page number and an offset in it.                         *)
(***************************************************************************)
EXTENDS Integers, Sequences, FiniteSets, SequencesExt

CONSTANTS
    RamPages,    \* size of RAM in pages
    FirstPage,   \* first page after the kernel image
    TablePages,  \* pages vm_bootstrap reserves for its table
    PageSize,    \* PAGE_SIZE
    Sizes,       \* sizes[]: the block sizes
    Requests,    \* arguments of kmalloc
    NPageRefs    \* NPAGEREFS

ASSUME RamAssumption ==
    /\ RamPages \in Nat /\ FirstPage \in Nat /\ TablePages \in Nat \ {0}
    /\ 0 < FirstPage /\ FirstPage + TablePages < RamPages
ASSUME SizeAssumption ==
    /\ PageSize \in Nat \ {0} /\ Sizes # {} /\ IsFiniteSet(Sizes)
    /\ \A s \in Sizes : s \in 1 .. PageSize \div 2 /\ PageSize % s = 0
    /\ Requests \subseteq Nat \ {0}
ASSUME RefAssumption == NPageRefs \in Nat \ {0}

VARIABLES
    pagerefs,        \* pagerefs[]: page, block size, free list, nfree
    pagerefs_inuse,
    sizebases,       \* next_samesize lists, one for each block size
    allbase,         \* next_all list
    firstpaddr,      \* ram.c: next page ram_stealmem hands out
    bootstrapped, lo,    \* vm_bootstrap has run; first page of the table
    owned,           \* the regions granted by the table
    held,            \* what callers of kmalloc were given and have not freed
    wild             \* memory the kernel does not own was written

vars == <<pagerefs, pagerefs_inuse, sizebases, allbase, firstpaddr,
          bootstrapped, lo, owned, held, wild>>

lists == <<pagerefs, pagerefs_inuse, sizebases, allbase>>
pages == <<firstpaddr, bootstrapped, lo, owned>>

Phys == INSTANCE PageAllocator WITH Pages <- RamPages

Ref == 1 .. NPageRefs
Unused == [page |-> 0, size |-> 0, freelist |-> <<>>, nfree |-> 0]

Init ==
    /\ pagerefs = [r \in Ref |-> Unused]
    /\ pagerefs_inuse = {}
    /\ sizebases = [s \in Sizes |-> <<>>]
    /\ allbase = <<>>
    /\ firstpaddr = FirstPage
    /\ bootstrapped = FALSE /\ lo = 0
    /\ owned = {}
    /\ held = {}
    /\ wild = FALSE

------------------------------------------------------------------------------
(* alloc_kpages(n) returns page p.  The table never grants its last page    *)
(* (PhysMem, FailMeansNoRegion).                                            *)
CanGrant(p, n) ==
    IF ~bootstrapped
    THEN p = firstpaddr /\ p + n <= RamPages
    ELSE /\ lo <= p /\ p + n < RamPages
         /\ \A q \in owned : Phys!Apart(q, [start |-> p, len |-> n])

AllocKpages(p, n) ==
    /\ CanGrant(p, n)
    /\ IF ~bootstrapped
       THEN firstpaddr' = p + n /\ UNCHANGED owned
       ELSE Phys!Grant([start |-> p, len |-> n]) /\ UNCHANGED firstpaddr
    /\ UNCHANGED <<bootstrapped, lo, wild>>

OutOfPages(n) == \A p \in 0 .. RamPages : ~CanGrant(p, n)

(* free_kpages(p) *)
FreeKpages(p) ==
    LET region == {q \in owned : q.start = p}
    IN  /\ owned' = owned \ region
        /\ wild' = (region = {})
        /\ UNCHANGED <<firstpaddr, bootstrapped, lo>>

M_VmBootstrap ==            \* the table's own pages are not reserved
    /\ ~wild /\ ~bootstrapped
    /\ firstpaddr + TablePages < RamPages
    /\ bootstrapped' = TRUE
    /\ lo' = firstpaddr
    /\ owned' = {}
    /\ UNCHANGED <<lists, firstpaddr, held, wild>>

(* The table lies at the start of the memory it manages. *)
VmBootstrap ==
    /\ ~wild /\ ~bootstrapped
    /\ firstpaddr + TablePages < RamPages
    /\ bootstrapped' = TRUE
    /\ lo' = firstpaddr
    /\ owned' = {[start |-> firstpaddr, len |-> TablePages]}
    /\ UNCHANGED <<lists, firstpaddr, held, wild>>

------------------------------------------------------------------------------
LargestSize == CHOOSE s \in Sizes : \A x \in Sizes : x <= s

Small(sz) == sz < LargestSize

(* The smallest block a request fits in. *)
blocktype(sz) == CHOOSE s \in Sizes :
                    sz <= s /\ \A x \in Sizes : sz <= x => s <= x

Capacity(s) == PageSize \div s

M_PopBlock(r, refs) ==      \* nfree is not decremented
    LET fl == refs[r].freelist
    IN  /\ pagerefs' = [refs EXCEPT ![r].freelist = Tail(fl)]
        /\ held' = held \cup {[page |-> refs[r].page, off |-> Head(fl),
                               size |-> refs[r].size]}

(* doalloc: the first block of pageref r's free list is given out. *)
PopBlock(r, refs) ==
    LET fl == refs[r].freelist
    IN  /\ pagerefs' = [refs EXCEPT ![r].freelist = Tail(fl),
                                    ![r].nfree = @ - 1]
        /\ held' = held \cup {[page |-> refs[r].page, off |-> Head(fl),
                               size |-> refs[r].size]}

WithRoom(s) == {i \in DOMAIN sizebases[s] : pagerefs[sizebases[s][i]].nfree > 0}

(* subpage_kmalloc: the first page of the size that has a free block. *)
KmallocBlock(sz) ==
    /\ ~wild /\ Small(sz)
    /\ LET s == blocktype(sz)
       IN  \E i \in WithRoom(s) :
              /\ \A j \in WithRoom(s) : i <= j
              /\ PopBlock(sizebases[s][i], pagerefs)
    /\ UNCHANGED <<pagerefs_inuse, sizebases, allbase, pages, wild>>

(* The free list of a new page: its blocks from the last to the first. *)
FreshList(s) == [k \in 1 .. Capacity(s) |-> (Capacity(s) - k) * s]

FreeRefs == Ref \ pagerefs_inuse

(* No page of the size has a free block: a new page is cut up. *)
KmallocNewPage(sz) ==
    /\ ~wild /\ Small(sz)
    /\ WithRoom(blocktype(sz)) = {} /\ FreeRefs # {}
    /\ LET s == blocktype(sz)
           r == CHOOSE x \in FreeRefs : \A y \in FreeRefs : x <= y
       IN  \E p \in 1 .. RamPages :
              /\ AllocKpages(p, 1)
              /\ PopBlock(r, [pagerefs EXCEPT ![r] =
                     [page |-> p, size |-> s, freelist |-> FreshList(s),
                      nfree |-> Capacity(s)]])
              /\ pagerefs_inuse' = pagerefs_inuse \cup {r}
              /\ sizebases' = [sizebases EXCEPT ![s] = <<r>> \o @]
              /\ allbase' = <<r>> \o allbase

(* No pageref is left: NULL is returned, and nothing was touched. *)
KmallocNoRef(sz) ==
    /\ ~wild /\ Small(sz)
    /\ WithRoom(blocktype(sz)) = {} /\ FreeRefs = {}
    /\ UNCHANGED vars

PagesFor(sz) == (sz + PageSize - 1) \div PageSize

(* A large request gets pages of its own. *)
KmallocPages(sz) ==
    /\ ~wild /\ ~Small(sz)
    /\ \E p \in 1 .. RamPages :
          /\ AllocKpages(p, PagesFor(sz))
          /\ held' = held \cup {[page |-> p, off |-> 0,
                                 size |-> PagesFor(sz) * PageSize]}
    /\ UNCHANGED lists

(* alloc_kpages fails: the heap, or its caller, writes to page 0. *)
KmallocWild(sz) ==
    /\ ~wild
    /\ IF Small(sz)
       THEN WithRoom(blocktype(sz)) = {} /\ FreeRefs # {} /\ OutOfPages(1)
       ELSE OutOfPages(PagesFor(sz))
    /\ wild' = TRUE
    /\ UNCHANGED <<lists, pages, held>>

------------------------------------------------------------------------------
(* The pageref whose page p lies on, by the search of subpage_kfree. *)
RefsOf(p) == {i \in DOMAIN allbase : pagerefs[allbase[i]].page = p}

PushBlock(r, off) ==
    [pagerefs EXCEPT ![r].freelist = <<off>> \o @, ![r].nfree = @ + 1]

(* The block goes back on its page's free list... *)
KfreeBlock(b) ==
    /\ ~wild
    /\ \E i \in RefsOf(b.page) :
          LET r == allbase[i]
          IN  /\ pagerefs[r].nfree + 1 < Capacity(pagerefs[r].size)
              /\ pagerefs' = PushBlock(r, b.off)
    /\ held' = held \ {b}
    /\ UNCHANGED <<pagerefs_inuse, sizebases, allbase, pages, wild>>

M_remove_lists(r, s) ==     \* stays on the list of its size
    /\ sizebases' = sizebases
    /\ allbase' = RemoveFirst(allbase, r)

remove_lists(r, s) ==
    /\ sizebases' = [sizebases EXCEPT ![s] = RemoveFirst(@, r)]
    /\ allbase' = RemoveFirst(allbase, r)

M_freepage(p) ==            \* the page is not given back
    UNCHANGED <<pages, wild>>

freepage(p) == FreeKpages(p)

(* ... and when that makes the whole page free, the page goes back too: to  *)
(* free_kpages, whoever it came from.                                       *)
KfreeLastBlock(b) ==
    /\ ~wild
    /\ \E i \in RefsOf(b.page) :
          LET r == allbase[i]
          IN  /\ pagerefs[r].nfree + 1 = Capacity(pagerefs[r].size)
              /\ remove_lists(r, pagerefs[r].size)
              /\ freepage(b.page)
              /\ pagerefs' = [pagerefs EXCEPT ![r] = Unused]
              /\ pagerefs_inuse' = pagerefs_inuse \ {r}
    /\ held' = held \ {b}

(* Not on a subpage page: a large allocation. *)
KfreePages(b) ==
    /\ ~wild
    /\ RefsOf(b.page) = {}
    /\ FreeKpages(b.page)
    /\ held' = held \ {b}
    /\ UNCHANGED lists

Next ==
    \/ VmBootstrap
    \/ \E sz \in Requests :
          \/ KmallocBlock(sz) \/ KmallocNewPage(sz) \/ KmallocNoRef(sz)
          \/ KmallocPages(sz) \/ KmallocWild(sz)
    \/ \E b \in held : KfreeBlock(b) \/ KfreeLastBlock(b) \/ KfreePages(b)

Spec == Init /\ [][Next]_vars

------------------------------------------------------------------------------
(* The blocks of pageref r's page that callers hold. *)
Live(r) == {b \in held : b.page = pagerefs[r].page}

(***************************************************************************)
(* On every page of the subpage allocator each block is in exactly one      *)
(* place: on the free list, once, or in one caller's hands; and nfree, by   *)
(* which kfree decides that a page is empty, counts the free list exactly.  *)
(* This is what checksubpage asserts, for all the blocks and not only the   *)
(* free ones.                                                               *)
(***************************************************************************)
BlocksPartitioned ==
    \A r \in pagerefs_inuse :
        LET s    == pagerefs[r].size
            free == pagerefs[r].freelist
        IN  /\ pagerefs[r].nfree = Len(free)
            /\ IsInjective(free)
            /\ \A b \in Live(r) : b.size = s
            /\ ToSet(free) \cap {b.off : b \in Live(r)} = {}
            /\ ToSet(free) \cup {b.off : b \in Live(r)} =
                  {k * s : k \in 0 .. Capacity(s) - 1}

(***************************************************************************)
(* A pageref is in use exactly when it is on the list of all pages and on   *)
(* the list of its block size, once on each (the sc==ac of checksubpages),  *)
(* and no page has two.                                                     *)
(***************************************************************************)
ListsAgree ==
    /\ ToSet(allbase) = pagerefs_inuse /\ IsInjective(allbase)
    /\ \A s \in Sizes :
          /\ ToSet(sizebases[s]) = {r \in pagerefs_inuse : pagerefs[r].size = s}
          /\ IsInjective(sizebases[s])
    /\ \A q, r \in pagerefs_inuse : pagerefs[q].page = pagerefs[r].page => q = r

Overlap(b, c) ==
    /\ b.page * PageSize + b.off < c.page * PageSize + c.off + c.size
    /\ c.page * PageSize + c.off < b.page * PageSize + b.off + b.size

(***************************************************************************)
(* No two callers of kmalloc are given overlapping memory, whether blocks   *)
(* or whole pages, stolen at boot or granted by the table, and none is      *)
(* given the kernel image or the pages of the table.                        *)
(***************************************************************************)
HeldApart ==
    /\ \A b, c \in held : b # c => ~Overlap(b, c)
    /\ \A b \in held : /\ b.page >= FirstPage
                       /\ bootstrapped => b.page \notin lo .. lo + TablePages - 1

(***************************************************************************)
(* The regions the table has granted are its own pages, the pages in use    *)
(* by the subpage allocator and the large allocations: a page is given back *)
(* when its last block is, never earlier, and none is forgotten.            *)
(***************************************************************************)
PagesAccounted ==
    bootstrapped /\ ~wild =>
        owned = {[start |-> lo, len |-> TablePages]}
                \cup {q \in {[start |-> pagerefs[r].page, len |-> 1] :
                                r \in pagerefs_inuse} : q.start >= lo}
                \cup {[start |-> b.page, len |-> b.size \div PageSize] :
                        b \in {x \in held : x.size >= PageSize /\ x.page >= lo}}
==============================================================================
