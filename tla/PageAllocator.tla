---------------------------- MODULE PageAllocator ----------------------------
(***************************************************************************)
(* What the physical page allocator of kern/arch/mips/mips/vm.c promises    *)
(* to the rest of the kernel, with no table and no scan: a set of regions   *)
(* of contiguous pages, each granted whole out of pages that nobody owns    *)
(* and given back whole.  Pages are numbered from the base `lo` of the      *)
(* managed memory.  PhysMem implements this specification.                  *)
(***************************************************************************)
EXTENDS Integers

CONSTANT Pages        \* number of physical pages of the machine

VARIABLE owned        \* the regions that have an owner

Region == [start : 0 .. Pages, len : 1 .. Pages]

(* Two regions that have no page in common. *)
Apart(q, r) == q.start + q.len <= r.start \/ r.start + r.len <= q.start

Init == owned = {}

(* alloc_ppages hands out a region of pages that have no owner. *)
Grant(r) ==
    /\ r.start + r.len <= Pages
    /\ \A q \in owned : Apart(q, r)
    /\ owned' = owned \cup {r}

(* free_ppages takes a whole region back. *)
Release(r) ==
    /\ r \in owned
    /\ owned' = owned \ {r}

Next == \E r \in Region : Grant(r) \/ Release(r)

Spec == Init /\ [][Next]_owned

(***************************************************************************)
(* No physical page belongs to two regions: the guarantee every user of     *)
(* alloc_kpages relies on when it writes to the pages it was given.         *)
(***************************************************************************)
OwnedApart == \A q, r \in owned : q # r => Apart(q, r)

==============================================================================
