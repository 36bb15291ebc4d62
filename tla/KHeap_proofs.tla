----------------------------- MODULE KHeap_proofs -----------------------------
(***************************************************************************)
(* Proofs about KHeap: the subpage allocator's lists agree and partition    *)
(* the blocks, and neither blocks nor pages are ever given out twice.       *)
(***************************************************************************)
EXTENDS KHeap, ListFacts

(***************************************************************************)
(* The inductive invariant.                                                 *)
(***************************************************************************)
RefType == [page : Nat, size : Nat, freelist : Seq(Nat), nfree : Int]
Block   == [page : Nat, off : Nat, size : Nat \ {0}]
Extent  == [start : Nat, len : Nat \ {0}]

Types ==
    /\ pagerefs \in [Ref -> RefType]
    /\ pagerefs_inuse \subseteq Ref
    /\ sizebases \in [Sizes -> Seq(Ref)] /\ allbase \in Seq(Ref)
    /\ firstpaddr \in Nat /\ FirstPage <= firstpaddr
    /\ bootstrapped \in BOOLEAN /\ wild \in BOOLEAN /\ lo \in Nat
    /\ owned \subseteq Extent
    /\ held \subseteq Block
    /\ \A r \in pagerefs_inuse : pagerefs[r].size \in Sizes

(* A page's blocks: where each is. *)
Offsets(s) == {k * s : k \in 0 .. Capacity(s) - 1}

(* The blocks of a page, `ref` its pageref and hs what is held: each is in   *)
(* one place.                                                               *)
OffsOn(p, hs) == {b.off : b \in {x \in hs : x.page = p}}

Parted(ref, hs) ==
    /\ ref.nfree = Len(ref.freelist) /\ IsInjective(ref.freelist)
    /\ \A b \in hs : b.page = ref.page => b.size = ref.size
    /\ ToSet(ref.freelist) \cap OffsOn(ref.page, hs) = {}
    /\ ToSet(ref.freelist) \cup OffsOn(ref.page, hs) = Offsets(ref.size)

BlocksInv == \A r \in pagerefs_inuse : Parted(pagerefs[r], held)

(* What is held is a block on a page of the subpage allocator, or pages of  *)
(* its own.                                                                 *)
Large(b)  == b.size >= PageSize
NPages(b) == b.size \div PageSize

HeldInv ==
    \A b \in held :
        /\ Large(b) => /\ b.off = 0 /\ NPages(b) \in Nat \ {0}
                       /\ b.size = NPages(b) * PageSize
        /\ ~Large(b) => \E r \in pagerefs_inuse : b.page = pagerefs[r].page

(* The regions of memory the heap uses.                                     *)
Region(p, n) == [start |-> p, len |-> n]
RefRegions   == {Region(pagerefs[r].page, 1) : r \in pagerefs_inuse}
LargeRegions == {Region(b.page, NPages(b)) : b \in {x \in held : Large(x)}}
InUse        == RefRegions \cup LargeRegions

(* They were stolen at boot or are granted by the table... *)
Placed(q) ==
    /\ FirstPage <= q.start
    /\ IF bootstrapped THEN q.start + q.len <= lo \/ q \in owned
                       ELSE q.start + q.len <= firstpaddr

PlaceInv == \A q \in InUse : Placed(q)

(* ... and no page is in two. *)
ApartInv ==
    /\ RefRegions \cap LargeRegions = {}
    /\ \A q, u \in InUse : q # u => Phys!Apart(q, u)

(* The table's regions: apart, its own first, and each in use. *)
Table == Region(lo, TablePages)

OwnInv ==
    /\ \A q \in owned : lo <= q.start
    /\ \A q, u \in owned : q # u => Phys!Apart(q, u)
    /\ IF bootstrapped THEN Table \in owned \ InUse ELSE owned = {}
    /\ bootstrapped => FirstPage <= lo
    /\ ~wild => owned \subseteq {Table} \cup InUse

IInv == Types /\ BlocksInv /\ ListsAgree /\ HeldInv /\ PlaceInv /\ ApartInv /\ OwnInv

------------------------------------------------------------------------------
(* Arithmetic of blocks and pages. *)
LEMMA MulStep ==
    ASSUME NEW a \in Int, NEW b \in Int, NEW c \in Nat, a < b
    PROVE  a * c + c <= b * c
BY SMT

LEMMA MulMono ==
    ASSUME NEW a \in Int, NEW b \in Int, NEW c \in Nat, a <= b
    PROVE  a * c <= b * c
BY SMT

LEMMA MulInj ==
    ASSUME NEW a \in Int, NEW b \in Int, NEW c \in Nat \ {0}, a * c = b * c
    PROVE  a = b
BY SMT

LEMMA MulNat ==
    ASSUME NEW a \in Nat, NEW b \in Nat PROVE a * b \in Nat
BY SMT

LEMMA DivMul ==
    ASSUME NEW n \in Nat, NEW c \in Nat \ {0} PROVE (n * c) \div c = n
BY SMT

LEMMA DivUp ==
    ASSUME NEW n \in Nat \ {0}, NEW c \in Nat \ {0}
    PROVE  (n + c - 1) \div c \in Nat \ {0}
BY SMT

LEMMA DivExact ==
    ASSUME NEW s \in Nat \ {0}, NEW c \in Nat \ {0}, c % s = 0, s <= c \div 2
    PROVE  /\ c \div s \in Nat /\ c \div s >= 2 /\ (c \div s) * s = c
           /\ s < c
BY SMT

LEMMA SizeFacts ==
    ASSUME NEW s \in Sizes
    PROVE  /\ s \in Nat \ {0} /\ s < PageSize /\ PageSize \in Nat \ {0}
           /\ Capacity(s) \in Nat /\ Capacity(s) >= 2
           /\ Capacity(s) * s = PageSize
<1>1. s \in Nat \ {0} /\ s <= PageSize \div 2 /\ PageSize % s = 0
  BY SizeAssumption
<1> QED BY <1>1, SizeAssumption, DivExact DEF Capacity

(* Blocks of a page lie inside it and apart. *)
LEMMA OffsetsFit ==
    ASSUME NEW s \in Sizes, NEW o \in Offsets(s)
    PROVE  o \in Nat /\ o + s <= PageSize
<1>1. PICK k \in 0 .. Capacity(s) - 1 : o = k * s
  BY DEF Offsets
<1>2. k \in Nat /\ k < Capacity(s) /\ s \in Nat
  BY SizeFacts
<1>3. o \in Nat
  BY <1>1, <1>2, MulNat
<1>4. k * s + s <= Capacity(s) * s
  BY <1>2, MulStep, SizeFacts
<1> QED BY <1>1, <1>3, <1>4, SizeFacts

LEMMA OffsetsApart ==
    ASSUME NEW s \in Sizes, NEW o \in Offsets(s), NEW u \in Offsets(s), o # u
    PROVE  o + s <= u \/ u + s <= o
<1>1. PICK k \in 0 .. Capacity(s) - 1 : o = k * s
  BY DEF Offsets
<1>2. PICK l \in 0 .. Capacity(s) - 1 : u = l * s
  BY DEF Offsets
<1>3. k \in Int /\ l \in Int /\ s \in Nat
  BY SizeFacts
<1>4. k # l
  BY <1>1, <1>2
<1>5. CASE k < l
  BY <1>1, <1>2, <1>3, <1>5, MulStep
<1>6. CASE l < k
  BY <1>1, <1>2, <1>3, <1>6, MulStep
<1> QED BY <1>3, <1>4, <1>5, <1>6

(* A new page's free list holds each of its blocks once. *)
LEMMA Fresh ==
    ASSUME NEW s \in Sizes
    PROVE  /\ FreshList(s) \in Seq(Nat) /\ Len(FreshList(s)) = Capacity(s)
           /\ IsInjective(FreshList(s)) /\ ToSet(FreshList(s)) = Offsets(s)
<1> DEFINE n == Capacity(s)
           f == FreshList(s)
<1>1. n \in Nat /\ s \in Nat \ {0}
  BY SizeFacts
<1>2. DOMAIN f = 1 .. n /\ \A k \in 1 .. n : f[k] = (n - k) * s
  BY DEF FreshList
<1>3. \A k \in 1 .. n : f[k] \in Nat
  <2> SUFFICES ASSUME NEW k \in 1 .. n PROVE (n - k) * s \in Nat
    BY <1>2
  <2>1. n - k \in Nat
    BY <1>1
  <2> QED BY <1>1, <2>1, MulNat
<1>4. f \in [1 .. n -> Nat]
  BY <1>3 DEF FreshList
<1>5. f \in Seq(Nat) /\ Len(f) = n
  BY <1>1, <1>4, IsASeq
<1> HIDE DEF f
<1>6. IsInjective(f)
  <2> SUFFICES ASSUME NEW i \in 1 .. n, NEW j \in 1 .. n, f[i] = f[j]
               PROVE  i = j
    BY <1>2 DEF IsInjective
  <2>1. (n - i) * s = (n - j) * s
    BY <1>2
  <2>2. n - i \in Int /\ n - j \in Int
    BY <1>1
  <2>3. n - i = n - j
    BY <1>1, <2>1, <2>2, MulInj
  <2> QED BY <1>1, <2>3
<1>7. ToSet(f) = {f[k] : k \in 1 .. n}
  BY <1>5, ToSetIs
<1>8. \A k \in 1 .. n : f[k] \in Offsets(s)
  <2> SUFFICES ASSUME NEW k \in 1 .. n PROVE (n - k) * s \in Offsets(s)
    BY <1>2
  <2>1. n - k \in 0 .. n - 1
    BY <1>1
  <2> QED BY <2>1 DEF Offsets
<1>9. \A o \in Offsets(s) : \E k \in 1 .. n : o = f[k]
  <2> SUFFICES ASSUME NEW l \in 0 .. n - 1 PROVE \E k \in 1 .. n : l * s = f[k]
    BY DEF Offsets
  <2>1. n - l \in 1 .. n /\ n - (n - l) = l
    BY <1>1
  <2>2. f[n - l] = l * s
    BY <1>2, <2>1
  <2> QED BY <2>1, <2>2
<1> QED BY <1>5, <1>6, <1>7, <1>8, <1>9 DEF f

(* A small request has a block size. *)
LEMMA BlockType ==
    ASSUME NEW sz \in Requests, Small(sz)
    PROVE  blocktype(sz) \in Sizes
<1>1. sz \in Nat /\ PageSize \in Nat /\ \A s \in Sizes : s \in Nat /\ s <= PageSize
  BY SizeAssumption, SizeFacts
<1>2. PICK big \in Sizes : \A x \in Sizes : x <= big
  <2> DEFINE T == {PageSize - s : s \in Sizes}
  <2>1. T \in SUBSET Nat /\ T # {}
    BY <1>1, SizeAssumption
  <2>2. PICK m \in T : \A k \in T : m <= k
    <3> HIDE DEF T
    <3> QED BY <2>1, Least
  <2>3. PICK s \in Sizes : m = PageSize - s
    OBVIOUS
  <2>4. \A x \in Sizes : PageSize - s <= PageSize - x
    BY <2>2, <2>3
  <2> QED BY <1>1, <2>4
<1>3. LargestSize \in Sizes
  BY <1>2 DEF LargestSize
<1> DEFINE T == {s \in Sizes : sz <= s}
<1>4. T \in SUBSET Nat /\ T # {}
  BY <1>1, <1>3 DEF Small
<1>5. PICK m \in T : \A k \in T : m <= k
  <2> HIDE DEF T
  <2> QED BY <1>4, Least
<1> QED BY <1>5 DEF blocktype

------------------------------------------------------------------------------
(* The blocks of one page, one block moving. *)
Popped(ref) == [ref EXCEPT !.freelist = Tail(ref.freelist), !.nfree = ref.nfree - 1]
Pushed(ref, o) == [ref EXCEPT !.freelist = <<o>> \o ref.freelist, !.nfree = ref.nfree + 1]
FirstBlock(ref) == [page |-> ref.page, off |-> Head(ref.freelist), size |-> ref.size]

LEMMA RefParts ==
    ASSUME NEW ref \in RefType, NEW o
    PROVE  /\ Popped(ref).page = ref.page /\ Popped(ref).size = ref.size
           /\ Popped(ref).freelist = Tail(ref.freelist)
           /\ Popped(ref).nfree = ref.nfree - 1
           /\ Pushed(ref, o).page = ref.page /\ Pushed(ref, o).size = ref.size
           /\ Pushed(ref, o).freelist = <<o>> \o ref.freelist
           /\ Pushed(ref, o).nfree = ref.nfree + 1
           /\ ref.page \in Nat /\ ref.size \in Nat /\ ref.freelist \in Seq(Nat)
           /\ ref.nfree \in Int
BY DEF RefType, Popped, Pushed

LEMMA RefTyped ==
    ASSUME NEW ref \in RefType
    PROVE  /\ ref.freelist # <<>> => Popped(ref) \in RefType
           /\ \A o \in Nat : Pushed(ref, o) \in RefType
<1>1. ref.freelist \in Seq(Nat) /\ ref.nfree \in Int
  BY DEF RefType
<1>2. ref.freelist # <<>> => Tail(ref.freelist) \in Seq(Nat)
  BY <1>1, ToSetTail
<1>3. \A o \in Nat : <<o>> \o ref.freelist \in Seq(Nat)
  BY <1>1, SMT
<1>4. ref.nfree - 1 \in Int /\ ref.nfree + 1 \in Int
  BY <1>1
<1>5. ref.freelist # <<>> => Popped(ref) \in RefType
  BY <1>2, <1>4 DEF Popped, RefType
<1>6. ASSUME NEW o \in Nat PROVE Pushed(ref, o) \in RefType
  <2> DEFINE fl == <<o>> \o ref.freelist
  <2>1. fl \in Seq(Nat)
    BY <1>3
  <2> HIDE DEF fl
  <2>2. [ref EXCEPT !.freelist = fl, !.nfree = ref.nfree + 1] \in RefType
    BY <2>1, <1>4 DEF RefType
  <2> QED BY <2>2 DEF Pushed, fl
<1> QED BY <1>5, <1>6

LEMMA PopParted ==
    ASSUME NEW ref \in RefType, NEW hs \in SUBSET Block, Parted(ref, hs),
           ref.freelist # <<>>
    PROVE  /\ Parted(Popped(ref), hs \cup {FirstBlock(ref)})
           /\ Head(ref.freelist) \in Nat
<1> DEFINE fl == ref.freelist
           b  == FirstBlock(ref)
           q  == Popped(ref)
<1>1. /\ fl \in Seq(Nat) /\ Head(fl) \in ToSet(fl) /\ Tail(fl) \in Seq(Nat)
      /\ IsInjective(Tail(fl)) /\ ToSet(Tail(fl)) = ToSet(fl) \ {Head(fl)}
  BY RefParts, ToSetTail DEF Parted
<1>2. Head(fl) \in Nat
  BY <1>1, ToSetIs
<1>3. Len(Tail(fl)) = Len(fl) - 1
  BY <1>1, SMT
<1>4. /\ q.page = ref.page /\ q.size = ref.size /\ q.freelist = Tail(fl)
      /\ q.nfree = ref.nfree - 1
  BY RefParts
<1>5. b.page = ref.page /\ b.off = Head(fl) /\ b.size = ref.size
  BY DEF FirstBlock
<1> HIDE DEF fl, b, q
<1>6. OffsOn(ref.page, hs \cup {b}) = OffsOn(ref.page, hs) \cup {Head(fl)}
  BY <1>5 DEF OffsOn
<1>7. q.nfree = Len(q.freelist)
  BY <1>3, <1>4 DEF Parted, fl
<1>8. \A c \in hs \cup {b} : c.page = q.page => c.size = q.size
  BY <1>4, <1>5 DEF Parted
<1>9. Parted(q, hs \cup {b})
  BY <1>1, <1>4, <1>6, <1>7, <1>8 DEF Parted, fl
<1> QED BY <1>2, <1>9 DEF fl, b, q

LEMMA PushParted ==
    ASSUME NEW ref \in RefType, NEW hs \in SUBSET Block, Parted(ref, hs),
           NEW b \in hs, b.page = ref.page
    PROVE  Parted(Pushed(ref, b.off), hs \ {b})
<1> DEFINE fl == ref.freelist
           q  == Pushed(ref, b.off)
<1>1. /\ fl \in Seq(Nat) /\ b.off \in Nat /\ IsInjective(fl)
      /\ b.off \notin ToSet(fl)
  <2>1. b.off \in OffsOn(ref.page, hs)
    BY DEF OffsOn
  <2> QED BY <2>1, RefParts DEF Parted, Block
<1>2. /\ <<b.off>> \o fl \in Seq(Nat) /\ IsInjective(<<b.off>> \o fl)
      /\ ToSet(<<b.off>> \o fl) = ToSet(fl) \cup {b.off}
      /\ Len(<<b.off>> \o fl) = Len(fl) + 1
  BY <1>1, InjPush
<1>3. /\ q.page = ref.page /\ q.size = ref.size /\ q.freelist = <<b.off>> \o fl
      /\ q.nfree = ref.nfree + 1
  BY RefParts
<1>4. ASSUME NEW c \in hs, c.page = ref.page, c.off = b.off PROVE c = b
  <2>1. c.size = b.size
    BY <1>4 DEF Parted
  <2> QED BY <1>4, <2>1 DEF Block
<1> HIDE DEF fl, q
<1>5. OffsOn(ref.page, hs \ {b}) = OffsOn(ref.page, hs) \ {b.off}
  <2>1. OffsOn(ref.page, hs \ {b}) \subseteq OffsOn(ref.page, hs) \ {b.off}
    BY <1>4 DEF OffsOn
  <2>2. OffsOn(ref.page, hs) \ {b.off} \subseteq OffsOn(ref.page, hs \ {b})
    BY DEF OffsOn
  <2> QED BY <2>1, <2>2
<1>6. b.off \in OffsOn(ref.page, hs)
  BY DEF OffsOn
<1>7. q.nfree = Len(q.freelist)
  BY <1>2, <1>3 DEF Parted, fl
<1>8. Parted(q, hs \ {b})
  BY <1>2, <1>3, <1>5, <1>6, <1>7 DEF Parted, fl
<1> QED BY <1>8 DEF q

(* With all blocks but one free, that one is all that is held of the page. *)
LEMMA LastOne ==
    ASSUME NEW ref \in RefType, ref.size \in Sizes, NEW hs \in SUBSET Block,
           Parted(ref, hs), NEW b \in hs, b.page = ref.page,
           ref.nfree + 1 = Capacity(ref.size)
    PROVE  {x \in hs : x.page = ref.page} = {b}
<1> DEFINE q == Pushed(ref, b.off)
           s == ref.size
<1>1. Parted(q, hs \ {b})
  BY PushParted
<1>2. /\ q.page = ref.page /\ q.size = s /\ q.freelist \in Seq(Nat)
      /\ q.nfree = Capacity(s)
  <2>1. b.off \in Nat
    BY DEF Block
  <2>2. q \in RefType
    BY <2>1, RefTyped
  <2> QED BY <2>2, RefParts
<1> HIDE DEF q
<1>3. IsFiniteSet(ToSet(q.freelist)) /\ Cardinality(ToSet(q.freelist)) = Capacity(s)
  <2>1. Len(q.freelist) = Capacity(s) /\ IsInjective(q.freelist)
    BY <1>1, <1>2 DEF Parted
  <2> QED BY <1>2, <2>1, InjLength
<1>4. IsFiniteSet(Offsets(s)) /\ Cardinality(Offsets(s)) = Capacity(s)
  BY Fresh, InjLength
<1>5. ToSet(q.freelist) \in SUBSET Offsets(s)
  BY <1>1, <1>2 DEF Parted
<1>6. ToSet(q.freelist) = Offsets(s)
  BY <1>3, <1>4, <1>5, FS_Subset
<1>7. OffsOn(ref.page, hs \ {b}) = {}
  BY <1>1, <1>2, <1>6 DEF Parted
<1> QED BY <1>7 DEF OffsOn

(* What is held on other pages does not matter. *)
LEMMA OtherPages ==
    ASSUME NEW ref, NEW hs, NEW gs, Parted(ref, hs),
           {b \in hs : b.page = ref.page} = {b \in gs : b.page = ref.page}
    PROVE  Parted(ref, gs)
<1>1. OffsOn(ref.page, hs) = OffsOn(ref.page, gs)
  BY DEF OffsOn
<1>2. \A b \in gs : b.page = ref.page => b \in hs
  OBVIOUS
<1> QED BY <1>1, <1>2 DEF Parted

LEMMA FreshParted ==
    ASSUME NEW s \in Sizes, NEW p \in Nat, NEW hs, \A b \in hs : b.page # p
    PROVE  LET ref == [page |-> p, size |-> s, freelist |-> FreshList(s),
                       nfree |-> Capacity(s)]
           IN  ref \in RefType /\ ref.freelist # <<>> /\ Parted(ref, hs)
<1> DEFINE ref == [page |-> p, size |-> s, freelist |-> FreshList(s),
                   nfree |-> Capacity(s)]
<1>1. /\ FreshList(s) \in Seq(Nat) /\ Len(FreshList(s)) = Capacity(s)
      /\ IsInjective(FreshList(s)) /\ ToSet(FreshList(s)) = Offsets(s)
      /\ Capacity(s) \in Nat /\ Capacity(s) >= 2 /\ s \in Nat
  BY Fresh, SizeFacts
<1>2. FreshList(s) # <<>>
  BY <1>1, LenProperties
<1>3. ref \in RefType
  BY <1>1 DEF RefType
<1>4. OffsOn(p, hs) = {}
  BY DEF OffsOn
<1>5. Parted(ref, hs)
  BY <1>1, <1>4 DEF Parted
<1> QED BY <1>2, <1>3, <1>5

------------------------------------------------------------------------------
(* The regions in use, one coming or going. *)
Memory == Types /\ HeldInv /\ PlaceInv /\ ApartInv /\ OwnInv

LEMMA RegionsTyped ==
    ASSUME Types, HeldInv
    PROVE  /\ RefRegions \in SUBSET Extent /\ LargeRegions \in SUBSET Extent
           /\ InUse \in SUBSET Extent
<1>1. ASSUME NEW r \in pagerefs_inuse PROVE Region(pagerefs[r].page, 1) \in Extent
  <2>1. pagerefs[r].page \in Nat
    BY DEF Types, RefType
  <2> QED BY <2>1 DEF Region, Extent
<1>2. ASSUME NEW b \in held, Large(b) PROVE Region(b.page, NPages(b)) \in Extent
  <2>1. b.page \in Nat /\ NPages(b) \in Nat \ {0}
    BY <1>2 DEF Types, HeldInv, Block
  <2> QED BY <2>1 DEF Region, Extent
<1> QED BY <1>1, <1>2 DEF RefRegions, LargeRegions, InUse

LEMMA RegionParts ==
    ASSUME NEW p, NEW n
    PROVE  Region(p, n).start = p /\ Region(p, n).len = n
BY DEF Region

LEMMA ExtentParts ==
    ASSUME NEW q \in Extent
    PROVE  q.start \in Nat /\ q.len \in Nat /\ q.len > 0 /\ q.start + q.len > q.start
<1>1. q.start \in Nat /\ q.len \in Nat \ {0}
  BY DEF Extent
<1> QED BY <1>1

LEMMA ApartFacts ==
    ASSUME NEW q \in Extent, NEW u \in Extent
    PROVE  /\ Phys!Apart(q, u) => Phys!Apart(u, q) /\ q # u /\ q.start # u.start
BY ExtentParts DEF Phys!Apart

LEMMA NewApart ==
    ASSUME Memory, NEW p \in 1 .. RamPages, NEW n \in Nat \ {0}, CanGrant(p, n)
    PROVE  /\ Region(p, n) \in Extent /\ Region(p, n) \notin InUse
           /\ \A q \in InUse : Phys!Apart(q, Region(p, n))
<1> DEFINE g == Region(p, n)
<1>1. g \in Extent /\ g.start = p /\ g.len = n /\ p \in Nat /\ n \in Nat
  <2>1. p \in Nat
    BY RamAssumption
  <2> QED BY <2>1 DEF Region, Extent
<1> HIDE DEF g
<1>2. ASSUME NEW q \in InUse PROVE Phys!Apart(q, g)
  <2>1. q \in Extent /\ Placed(q) /\ lo \in Nat /\ firstpaddr \in Nat
    BY RegionsTyped DEF Memory, PlaceInv, Types
  <2>2. q.start \in Nat /\ q.len \in Nat
    BY <2>1, ExtentParts
  <2>3. CASE ~bootstrapped
    BY <1>1, <2>1, <2>2, <2>3 DEF Placed, CanGrant, Phys!Apart
  <2>4. CASE bootstrapped /\ q.start + q.len <= lo
    BY <1>1, <2>1, <2>2, <2>4 DEF CanGrant, Phys!Apart
  <2>5. CASE bootstrapped /\ q \in owned
    BY <2>5 DEF CanGrant, g, Region
  <2> QED BY <2>1, <2>3, <2>4, <2>5 DEF Placed
<1>3. g \notin InUse
  BY <1>1, <1>2, ApartFacts
<1> QED BY <1>1, <1>2, <1>3 DEF g

LEMMA GrantKeeps ==
    ASSUME Memory, NEW p \in 1 .. RamPages, NEW n \in Nat \ {0}, AllocKpages(p, n),
           InUse' = InUse \cup {Region(p, n)}, RefRegions' \cap LargeRegions' = {}
    PROVE  PlaceInv' /\ ApartInv' /\ OwnInv'
<1> DEFINE g == Region(p, n)
<1>1. g.start = p /\ g.len = n /\ p \in Nat /\ n \in Nat
  <2>1. p \in Nat
    BY RamAssumption
  <2> QED BY <2>1, RegionParts
<1>2. /\ g \in Extent /\ g \notin InUse /\ \A q \in InUse : Phys!Apart(q, g)
      /\ \A q \in InUse : q \in Extent
  BY NewApart, RegionsTyped DEF AllocKpages, Memory
<1>3. /\ CanGrant(p, n) /\ bootstrapped' = bootstrapped /\ lo' = lo
      /\ wild' = wild
      /\ ~bootstrapped => firstpaddr' = p + n /\ owned' = owned
      /\ bootstrapped => /\ owned' = owned \cup {g} /\ firstpaddr' = firstpaddr
                         /\ \A q \in owned : Phys!Apart(q, g)
  BY DEF AllocKpages, Phys!Grant, g, Region
<1>4. /\ firstpaddr \in Nat /\ FirstPage <= firstpaddr /\ FirstPage \in Nat
      /\ lo \in Nat /\ RamPages \in Nat /\ owned \in SUBSET Extent
      /\ Table' = Table
  BY <1>3, RamAssumption DEF Memory, Types, Table, Region
<1>5. /\ bootstrapped => lo <= p /\ FirstPage <= lo
      /\ ~bootstrapped => p = firstpaddr
  BY <1>3 DEF CanGrant, Memory, OwnInv
<1>6. InUse' = InUse \cup {g}
  OBVIOUS
<1> HIDE DEF g
<1>7. PlaceInv'
  <2> SUFFICES ASSUME NEW q \in InUse' PROVE Placed(q)'
    BY DEF PlaceInv
  <2>1. CASE q \in InUse
    <3>1. Placed(q) /\ q.start \in Nat /\ q.len \in Nat
      BY <1>2, <2>1, ExtentParts DEF Memory, PlaceInv
    <3> QED BY <1>1, <1>3, <1>4, <1>5, <3>1 DEF Placed
  <2>2. CASE q = g
    BY <1>1, <1>3, <1>4, <1>5, <2>2 DEF Placed
  <2> QED BY <1>6, <2>1, <2>2
<1>8. ApartInv'
  <2>1. \A q \in InUse : Phys!Apart(g, q)
    BY <1>2, ApartFacts
  <2>2. \A q, u \in InUse : q # u => Phys!Apart(q, u)
    BY DEF Memory, ApartInv
  <2>3. \A q, u \in InUse' : q # u => Phys!Apart(q, u)
    BY <1>2, <1>6, <2>1, <2>2
  <2> QED BY <2>3 DEF ApartInv, Phys!Apart
<1>9. OwnInv'
  <2>1. CASE ~bootstrapped
    <3>1. owned = {}
      BY <2>1 DEF Memory, OwnInv
    <3> QED BY <1>3, <2>1, <3>1 DEF OwnInv
  <2>2. CASE bootstrapped
    <3>1. /\ \A q \in owned : lo <= q.start
          /\ \A q, u \in owned : q # u => Phys!Apart(q, u)
          /\ Table \in owned \ InUse /\ FirstPage <= lo
          /\ ~wild => owned \subseteq {Table} \cup InUse
      BY <2>2 DEF Memory, OwnInv
    <3>2. owned' = owned \cup {g} /\ \A q \in owned : Phys!Apart(q, g)
      BY <1>3, <2>2
    <3>3. \A q \in owned' : lo' <= q.start
      BY <1>1, <1>3, <1>5, <2>2, <3>1, <3>2
    <3>4. \A q \in owned : Phys!Apart(g, q) /\ q # g
      BY <1>2, <1>4, <3>2, ApartFacts
    <3>5. \A q, u \in owned' : q # u => Phys!Apart(q, u)
      BY <3>1, <3>2, <3>4
    <3>6. Table' \in owned' \ InUse'
      BY <1>4, <1>6, <3>1, <3>2, <3>4
    <3>7. ~wild' => owned' \subseteq {Table'} \cup InUse'
      BY <1>3, <1>4, <1>6, <3>1, <3>2
    <3> QED BY <1>3, <2>2, <3>1, <3>3, <3>5, <3>6, <3>7 DEF OwnInv, Phys!Apart
  <2> QED BY <2>1, <2>2
<1> QED BY <1>7, <1>8, <1>9

LEMMA FreeKeeps ==
    ASSUME Memory, ~wild, NEW g \in InUse, FreeKpages(g.start),
           InUse' = InUse \ {g}, RefRegions' \cap LargeRegions' = {}
    PROVE  PlaceInv' /\ ApartInv' /\ OwnInv'
<1> DEFINE region == {q \in owned : q.start = g.start}
<1>1. /\ owned' = owned \ region /\ wild' = (region = {})
      /\ firstpaddr' = firstpaddr /\ bootstrapped' = bootstrapped /\ lo' = lo
  BY DEF FreeKpages
<1>2. /\ g \in Extent /\ \A q \in InUse : q \in Extent
      /\ owned \in SUBSET Extent /\ lo \in Nat /\ Table' = Table
  BY <1>1, RegionsTyped DEF Memory, Types, Table, Region
<1>3. /\ \A q \in owned : lo <= q.start
      /\ \A q, u \in owned : q # u => Phys!Apart(q, u)
      /\ IF bootstrapped THEN Table \in owned \ InUse ELSE owned = {}
      /\ bootstrapped => FirstPage <= lo
      /\ owned \subseteq {Table} \cup InUse
  BY DEF Memory, OwnInv
<1>4. IF g \in owned THEN region = {g} ELSE region = {}
  <2>1. CASE g \in owned
    <3>1. \A q \in owned : q # g => q.start # g.start
      BY <1>2, <1>3, <2>1, ApartFacts
    <3> QED BY <2>1, <3>1
  <2>2. CASE g \notin owned
    <3>1. CASE bootstrapped
      <4>1. g.start + g.len <= lo
        BY <2>2, <3>1 DEF Memory, PlaceInv, Placed
      <4>2. g.start < lo
        BY <1>2, <4>1, ExtentParts
      <4>3. \A q \in owned : q.start # g.start
        <5> SUFFICES ASSUME NEW q \in owned PROVE q.start # g.start
          OBVIOUS
        <5>1. lo <= q.start /\ q.start \in Nat /\ g.start \in Nat
          BY <1>2, <1>3, ExtentParts
        <5> QED BY <1>2, <4>2, <5>1
      <4> QED BY <2>2, <4>3
    <3>2. CASE ~bootstrapped
      BY <1>3, <2>2, <3>2
    <3> QED BY <3>1, <3>2
  <2> QED BY <2>1, <2>2
<1> HIDE DEF region
<1>5. owned' = owned \ {g} /\ (wild' = (g \notin owned))
  BY <1>1, <1>4
<1>6. PlaceInv'
  <2> SUFFICES ASSUME NEW q \in InUse, q # g PROVE Placed(q)'
    BY DEF PlaceInv
  <2>1. Placed(q)
    BY DEF Memory, PlaceInv
  <2> QED BY <1>1, <1>5, <2>1 DEF Placed
<1>7. ApartInv'
  <2>1. \A q, u \in InUse' : q # u => Phys!Apart(q, u)
    BY DEF Memory, ApartInv
  <2> QED BY <2>1 DEF ApartInv, Phys!Apart
<1>8. OwnInv'
  <2>1. \A q, u \in owned' : q # u => Phys!Apart(q, u)
    BY <1>3, <1>5
  <2>2. IF bootstrapped' THEN Table' \in owned' \ InUse' ELSE owned' = {}
    BY <1>1, <1>2, <1>3, <1>5
  <2>3. owned' \subseteq {Table'} \cup InUse'
    BY <1>2, <1>3, <1>5
  <2> QED BY <1>1, <1>3, <1>5, <2>1, <2>2, <2>3 DEF OwnInv, Phys!Apart
<1> QED BY <1>6, <1>7, <1>8

LEMMA SameKeeps ==
    ASSUME PlaceInv, ApartInv, OwnInv, UNCHANGED pages, wild => wild',
           RefRegions' = RefRegions, LargeRegions' = LargeRegions
    PROVE  PlaceInv' /\ ApartInv' /\ OwnInv'
<1>1. /\ bootstrapped' = bootstrapped /\ lo' = lo /\ owned' = owned
      /\ firstpaddr' = firstpaddr /\ InUse' = InUse /\ Table' = Table
  BY DEF pages, InUse, Table, Region
<1>2. PlaceInv'
  BY <1>1 DEF PlaceInv, Placed
<1>3. ApartInv'
  BY <1>1 DEF ApartInv, Phys!Apart
<1>4. OwnInv'
  BY <1>1 DEF OwnInv, Phys!Apart
<1> QED BY <1>2, <1>3, <1>4

------------------------------------------------------------------------------
(* The pagerefs in use and what is held of their pages. *)
LEMMA RefFacts ==
    ASSUME Types, NEW r \in pagerefs_inuse
    PROVE  /\ r \in Ref /\ pagerefs[r] \in RefType /\ pagerefs[r].size \in Sizes
           /\ pagerefs[r].page \in Nat
<1>1. r \in Ref /\ pagerefs[r] \in RefType /\ pagerefs[r].size \in Sizes
  BY DEF Types
<1> QED BY <1>1, RefParts

LEMMA OnAPage ==
    ASSUME Types, BlocksInv, NEW r \in pagerefs_inuse, NEW b \in held,
           b.page = pagerefs[r].page
    PROVE  b.size = pagerefs[r].size /\ ~Large(b)
<1>1. b.size = pagerefs[r].size
  BY DEF BlocksInv, Parted
<1>2. pagerefs[r].size < PageSize /\ pagerefs[r].size \in Nat /\ PageSize \in Nat
  BY RefFacts, SizeFacts
<1> QED BY <1>1, <1>2 DEF Large

(* What is held lies in a region in use. *)
LEMMA HeldRegion ==
    ASSUME HeldInv, NEW b \in held
    PROVE  \E g \in InUse :
              /\ g.start = b.page
              /\ IF Large(b) THEN g = Region(b.page, NPages(b)) /\ g \in LargeRegions
                 ELSE g = Region(b.page, 1) /\ g \in RefRegions
<1>1. CASE Large(b)
  <2>1. Region(b.page, NPages(b)) \in LargeRegions
    BY <1>1 DEF LargeRegions
  <2> QED BY <1>1, <2>1, RegionParts DEF InUse
<1>2. CASE ~Large(b)
  <2>1. PICK r \in pagerefs_inuse : b.page = pagerefs[r].page
    BY <1>2 DEF HeldInv
  <2>2. Region(b.page, 1) \in RefRegions
    BY <2>1 DEF RefRegions
  <2> QED BY <1>2, <2>2, RegionParts DEF InUse
<1> QED BY <1>1, <1>2

(* A page about to be granted holds nothing. *)
LEMMA NothingThere ==
    ASSUME Memory, NEW p \in 1 .. RamPages, NEW n \in Nat \ {0}, CanGrant(p, n)
    PROVE  /\ \A b \in held : b.page # p
           /\ \A r \in pagerefs_inuse : pagerefs[r].page # p
<1> DEFINE g == Region(p, n)
<1>1. /\ g \in Extent /\ g.start = p
      /\ \A q \in InUse : q \in Extent /\ Phys!Apart(q, g)
  BY NewApart, RegionsTyped, RegionParts DEF Memory
<1> HIDE DEF g
<1>2. \A q \in InUse : q.start # p
  BY <1>1, ApartFacts
<1>3. \A b \in held : b.page # p
  BY <1>2, HeldRegion DEF Memory
<1>4. ASSUME NEW r \in pagerefs_inuse PROVE pagerefs[r].page # p
  <2>1. Region(pagerefs[r].page, 1) \in InUse
    BY DEF RefRegions, InUse
  <2> QED BY <1>2, <2>1, RegionParts
<1> QED BY <1>3, <1>4

------------------------------------------------------------------------------
(* A block goes from its page's free list to a caller, or back. *)
LEMMA OneRefChanges ==
    ASSUME IInv, NEW r \in pagerefs_inuse, NEW ref \in RefType,
           ref.page = pagerefs[r].page, ref.size = pagerefs[r].size,
           pagerefs' = [pagerefs EXCEPT ![r] = ref],
           held' \in SUBSET Block, Parted(ref, held'),
           {b \in held' : b.page # ref.page} = {b \in held : b.page # ref.page},
           UNCHANGED <<pagerefs_inuse, sizebases, allbase, pages, wild>>
    PROVE  IInv'
<1>1. /\ pagerefs_inuse' = pagerefs_inuse /\ sizebases' = sizebases
      /\ allbase' = allbase /\ UNCHANGED pages /\ wild' = wild
      /\ firstpaddr' = firstpaddr /\ bootstrapped' = bootstrapped /\ lo' = lo
      /\ owned' = owned
  BY DEF pages
<1>2. /\ Types /\ BlocksInv /\ ListsAgree /\ HeldInv /\ PlaceInv /\ ApartInv
      /\ OwnInv
  BY DEF IInv
<1>3. /\ r \in Ref /\ pagerefs[r] \in RefType /\ pagerefs[r].size \in Sizes
      /\ pagerefs \in [Ref -> RefType]
  BY <1>2, RefFacts DEF Types
<1>4. /\ pagerefs'[r] = ref /\ pagerefs' \in [Ref -> RefType]
      /\ \A q \in Ref : q # r => pagerefs'[q] = pagerefs[q]
  BY <1>3
<1>5. \A q \in Ref : /\ pagerefs'[q].page = pagerefs[q].page
                     /\ pagerefs'[q].size = pagerefs[q].size
  BY <1>4
<1>6. pagerefs_inuse \subseteq Ref
  BY <1>2 DEF Types
<1>7. Types'
  BY <1>1, <1>2, <1>4, <1>5, <1>6 DEF Types
<1>8. BlocksInv'
  <2> SUFFICES ASSUME NEW q \in pagerefs_inuse PROVE Parted(pagerefs'[q], held')
    BY <1>1 DEF BlocksInv
  <2>1. CASE q = r
    BY <1>4, <2>1
  <2>2. CASE q # r
    <3>1. Parted(pagerefs[q], held) /\ pagerefs'[q] = pagerefs[q]
      BY <1>2, <1>4, <1>6, <2>2 DEF BlocksInv
    <3>2. pagerefs[q].page # ref.page
      BY <1>2, <2>2 DEF ListsAgree
    <3>3. {b \in held : b.page = pagerefs[q].page}
             = {b \in held' : b.page = pagerefs[q].page}
      BY <3>2
    <3> QED BY <3>1, <3>3, OtherPages
  <2> QED BY <2>1, <2>2
<1>9. ListsAgree'
  <2>1. \A s \in Sizes : {q \in pagerefs_inuse' : pagerefs'[q].size = s}
                            = {q \in pagerefs_inuse : pagerefs[q].size = s}
    BY <1>1, <1>5, <1>6
  <2>2. \A q, u \in pagerefs_inuse' :
           pagerefs'[q].page = pagerefs'[u].page => q = u
    BY <1>1, <1>2, <1>5, <1>6 DEF ListsAgree
  <2> QED BY <1>1, <1>2, <2>1, <2>2 DEF ListsAgree
<1>10. \A b \in held' : b.page = ref.page => ~Large(b) /\ b.size = ref.size
  <2>1. ref.size < PageSize /\ ref.size \in Nat /\ PageSize \in Nat
    BY <1>3, SizeFacts
  <2> QED BY <2>1 DEF Parted, Large
<1>11. HeldInv'
  <2> SUFFICES ASSUME NEW b \in held'
               PROVE  /\ Large(b) => /\ b.off = 0 /\ NPages(b) \in Nat \ {0}
                                     /\ b.size = NPages(b) * PageSize
                      /\ ~Large(b) => \E q \in pagerefs_inuse' :
                                         b.page = pagerefs'[q].page
    BY DEF HeldInv, Large, NPages
  <2>1. CASE b.page = ref.page
    BY <1>1, <1>4, <1>10, <2>1
  <2>2. CASE b.page # ref.page
    <3>1. b \in held
      BY <2>2
    <3> QED BY <1>1, <1>2, <1>5, <1>6, <3>1 DEF HeldInv
  <2> QED BY <2>1, <2>2
<1>12. RefRegions' = RefRegions
  BY <1>1, <1>5, <1>6 DEF RefRegions, Region
<1>13. LargeRegions' = LargeRegions
  <2>1. \A b \in held : b.page = ref.page => ~Large(b)
    BY <1>2, OnAPage
  <2>2. {b \in held' : Large(b)} = {b \in held : Large(b)}
    BY <1>10, <2>1
  <2> QED BY <2>2 DEF LargeRegions, Large, Region, NPages
<1>14. PlaceInv' /\ ApartInv' /\ OwnInv'
  BY <1>1, <1>2, <1>12, <1>13, SameKeeps
<1> QED BY <1>7, <1>8, <1>9, <1>11, <1>14 DEF IInv

LEMMA PopIs ==
    ASSUME NEW refs \in [Ref -> RefType], NEW r \in Ref, PopBlock(r, refs)
    PROVE  /\ pagerefs' = [refs EXCEPT ![r] = Popped(refs[r])]
           /\ held' = held \cup {FirstBlock(refs[r])}
<1>1. held' = held \cup {FirstBlock(refs[r])}
  BY DEF PopBlock, FirstBlock
<1>2. pagerefs' = [refs EXCEPT ![r].freelist = Tail(refs[r].freelist),
                               ![r].nfree = @ - 1]
  BY DEF PopBlock
<1>3. refs[r] \in RefType
  OBVIOUS
<1>4. [refs EXCEPT ![r].freelist = Tail(refs[r].freelist), ![r].nfree = @ - 1]
         = [refs EXCEPT ![r] = Popped(refs[r])]
  BY <1>3 DEF Popped, RefType
<1> QED BY <1>1, <1>2, <1>4

LEMMA FirstBlockTyped ==
    ASSUME NEW ref \in RefType, ref.size \in Sizes, Head(ref.freelist) \in Nat
    PROVE  FirstBlock(ref) \in Block
<1>1. ref.size \in Nat \ {0} /\ ref.page \in Nat
  BY SizeFacts, RefParts
<1> QED BY <1>1 DEF FirstBlock, Block

LEMMA KmallocBlockStep ==
    ASSUME IInv, NEW sz \in Requests, KmallocBlock(sz)
    PROVE  IInv'
<1> DEFINE s == blocktype(sz)
<1>1. s \in Sizes
  BY BlockType DEF KmallocBlock
<1>2. PICK i \in WithRoom(s) : PopBlock(sizebases[s][i], pagerefs)
  BY DEF KmallocBlock
<1> HIDE DEF s
<1> DEFINE r == sizebases[s][i]
           ref == Popped(pagerefs[r])
<1>3. Types /\ BlocksInv /\ ListsAgree
  BY DEF IInv
<1>4. i \in DOMAIN sizebases[s] /\ pagerefs[r].nfree > 0
  BY DEF WithRoom
<1>5. r \in pagerefs_inuse /\ pagerefs[r].size = s
  <2>1. r \in ToSet(sizebases[s])
    BY <1>4 DEF ToSet
  <2> QED BY <1>1, <1>3, <2>1 DEF ListsAgree
<1>6. /\ r \in Ref /\ pagerefs[r] \in RefType /\ pagerefs \in [Ref -> RefType]
      /\ held \in SUBSET Block /\ Parted(pagerefs[r], held)
  BY <1>3, <1>5, RefFacts DEF Types, BlocksInv
<1> HIDE DEF r
<1>7. pagerefs[r].freelist # <<>>
  BY <1>4, <1>6 DEF Parted
<1>8. /\ pagerefs' = [pagerefs EXCEPT ![r] = ref]
      /\ held' = held \cup {FirstBlock(pagerefs[r])}
  BY <1>2, <1>6, PopIs DEF r
<1>9. /\ ref \in RefType /\ ref.page = pagerefs[r].page
      /\ ref.size = pagerefs[r].size
  BY <1>6, <1>7, RefTyped, RefParts
<1>10. Parted(ref, held') /\ Head(pagerefs[r].freelist) \in Nat
  BY <1>6, <1>7, <1>8, PopParted
<1>11. held' \in SUBSET Block
  BY <1>1, <1>5, <1>6, <1>8, <1>10, FirstBlockTyped
<1>12. FirstBlock(pagerefs[r]).page = ref.page
  BY <1>9 DEF FirstBlock
<1> HIDE DEF ref
<1>13. {b \in held' : b.page # ref.page} = {b \in held : b.page # ref.page}
  BY <1>8, <1>12
<1>14. UNCHANGED <<pagerefs_inuse, sizebases, allbase, pages, wild>>
  BY DEF KmallocBlock
<1> QED BY <1>5, <1>8, <1>9, <1>10, <1>11, <1>13, <1>14, OneRefChanges

LEMMA RefsOfIs ==
    ASSUME IInv, NEW p
    PROVE  /\ \A i \in RefsOf(p) : /\ allbase[i] \in pagerefs_inuse
                                   /\ pagerefs[allbase[i]].page = p
           /\ RefsOf(p) = {} => \A r \in pagerefs_inuse : pagerefs[r].page # p
BY DEF IInv, ListsAgree, ToSet, RefsOf

LEMMA KfreeBlockStep ==
    ASSUME IInv, NEW b \in held, KfreeBlock(b)
    PROVE  IInv'
<1>1. PICK i \in RefsOf(b.page) : pagerefs' = PushBlock(allbase[i], b.off)
  BY DEF KfreeBlock
<1> DEFINE r == allbase[i]
           ref == Pushed(pagerefs[r], b.off)
<1>2. r \in pagerefs_inuse /\ pagerefs[r].page = b.page
  BY RefsOfIs
<1> HIDE DEF r
<1>3. Types /\ BlocksInv /\ ListsAgree
  BY DEF IInv
<1>4. /\ r \in Ref /\ pagerefs[r] \in RefType /\ pagerefs \in [Ref -> RefType]
      /\ held \in SUBSET Block /\ Parted(pagerefs[r], held) /\ b.off \in Nat
  BY <1>2, <1>3, RefFacts DEF Types, BlocksInv, Block
<1>5. pagerefs' = [pagerefs EXCEPT ![r] = ref]
  <2>1. pagerefs' = [pagerefs EXCEPT ![r].freelist = <<b.off>> \o @,
                                     ![r].nfree = @ + 1]
    BY <1>1 DEF r, PushBlock
  <2> QED BY <1>4, <2>1 DEF Pushed, RefType
<1>6. /\ ref \in RefType /\ ref.page = pagerefs[r].page
      /\ ref.size = pagerefs[r].size
  BY <1>4, RefTyped, RefParts
<1>7. held' = held \ {b}
  BY DEF KfreeBlock
<1>8. Parted(ref, held')
  BY <1>2, <1>4, <1>7, PushParted
<1> HIDE DEF ref
<1>9. {c \in held' : c.page # ref.page} = {c \in held : c.page # ref.page}
  BY <1>2, <1>6, <1>7
<1>10. UNCHANGED <<pagerefs_inuse, sizebases, allbase, pages, wild>>
  BY DEF KfreeBlock
<1>11. held' \in SUBSET Block
  BY <1>4, <1>7
<1> QED BY <1>2, <1>5, <1>6, <1>8, <1>9, <1>10, <1>11, OneRefChanges

------------------------------------------------------------------------------
(* A page comes to the subpage allocator. *)
LEMMA KmallocNewPageStep ==
    ASSUME IInv, NEW sz \in Requests, KmallocNewPage(sz)
    PROVE  IInv'
<1> DEFINE s == blocktype(sz)
           r == CHOOSE x \in FreeRefs : \A y \in FreeRefs : x <= y
           new(p) == [page |-> p, size |-> s, freelist |-> FreshList(s),
                      nfree |-> Capacity(s)]
<1>1. s \in Sizes
  BY BlockType DEF KmallocNewPage
<1>2. PICK p \in 1 .. RamPages :
          /\ AllocKpages(p, 1)
          /\ PopBlock(r, [pagerefs EXCEPT ![r] = new(p)])
          /\ pagerefs_inuse' = pagerefs_inuse \cup {r}
          /\ sizebases' = [sizebases EXCEPT ![s] = <<r>> \o @]
          /\ allbase' = <<r>> \o allbase
  BY DEF KmallocNewPage
<1>3. r \in Ref /\ r \notin pagerefs_inuse
  <2>1. FreeRefs \in SUBSET Nat /\ FreeRefs # {}
    BY RefAssumption DEF KmallocNewPage, FreeRefs, Ref
  <2>2. \E x \in FreeRefs : \A y \in FreeRefs : x <= y
    BY <2>1, Least
  <2>3. r \in FreeRefs
    BY <2>2
  <2> QED BY <2>3 DEF FreeRefs
<1> HIDE DEF s, r
<1>4. /\ Types /\ BlocksInv /\ ListsAgree /\ HeldInv /\ PlaceInv /\ ApartInv
      /\ OwnInv /\ Memory
  BY DEF IInv, Memory
<1>5. /\ CanGrant(p, 1) /\ p \in Nat /\ 1 \in Nat \ {0}
      /\ bootstrapped' = bootstrapped /\ lo' = lo /\ wild' = wild
  BY <1>2, RamAssumption DEF AllocKpages
<1>6. /\ \A b \in held : b.page # p
      /\ \A q \in pagerefs_inuse : pagerefs[q].page # p
      /\ Region(p, 1) \in Extent /\ Region(p, 1) \notin InUse
  BY <1>4, <1>5, NothingThere, NewApart
<1>7. /\ new(p) \in RefType /\ new(p).freelist # <<>> /\ Parted(new(p), held)
      /\ new(p).page = p /\ new(p).size = s
  BY <1>1, <1>5, <1>6, FreshParted
<1> DEFINE first == FirstBlock(new(p))
           ref == Popped(new(p))
<1>8. pagerefs' = [pagerefs EXCEPT ![r] = ref] /\ held' = held \cup {first}
  <2> DEFINE refs == [pagerefs EXCEPT ![r] = new(p)]
  <2>1. refs \in [Ref -> RefType] /\ refs[r] = new(p)
    BY <1>3, <1>4, <1>7 DEF Types
  <2>2. PopBlock(r, refs)
    BY <1>2
  <2>3. pagerefs' = [refs EXCEPT ![r] = ref] /\ held' = held \cup {first}
    <3> HIDE DEF refs
    <3> QED BY <1>3, <2>1, <2>2, PopIs
  <2>4. pagerefs \in [Ref -> RefType]
    BY <1>4 DEF Types
  <2> HIDE DEF ref, new
  <2>5. [refs EXCEPT ![r] = ref] = [pagerefs EXCEPT ![r] = ref]
    BY <2>4
  <2> QED BY <2>3, <2>5
<1>9. /\ ref \in RefType /\ ref.page = p /\ ref.size = s
      /\ Parted(ref, held') /\ Head(new(p).freelist) \in Nat
  <2>1. held \in SUBSET Block
    BY <1>4 DEF Types
  <2> HIDE DEF new
  <2> QED BY <1>7, <1>8, <2>1, RefTyped, RefParts, PopParted
<1>10. first \in Block /\ first.page = p /\ first.size = s
  <2> HIDE DEF new
  <2>1. first \in Block
    BY <1>1, <1>7, <1>9, FirstBlockTyped
  <2> QED BY <1>7, <2>1 DEF FirstBlock
<1>11. s < PageSize /\ s \in Nat /\ PageSize \in Nat
  BY <1>1, SizeFacts
<1> HIDE DEF first, ref, new
<1>12. ~Large(first)
  BY <1>10, <1>11 DEF Large
<1>13. /\ pagerefs'[r] = ref /\ pagerefs' \in [Ref -> RefType]
       /\ \A q \in pagerefs_inuse : q \in Ref /\ pagerefs'[q] = pagerefs[q]
  BY <1>3, <1>4, <1>8, <1>9 DEF Types
<1>14. pagerefs_inuse' = pagerefs_inuse \cup {r}
  BY <1>2
<1>15. ListsAgree' /\ sizebases' \in [Sizes -> Seq(Ref)] /\ allbase' \in Seq(Ref)
  <2>1. /\ allbase \in Seq(Ref) /\ sizebases \in [Sizes -> Seq(Ref)]
        /\ ToSet(allbase) = pagerefs_inuse /\ IsInjective(allbase)
        /\ \A x \in Sizes :
              /\ ToSet(sizebases[x]) = {q \in pagerefs_inuse : pagerefs[q].size = x}
              /\ IsInjective(sizebases[x])
    BY <1>4 DEF Types, ListsAgree
  <2>2. /\ allbase' \in Seq(Ref) /\ IsInjective(allbase')
        /\ ToSet(allbase') = pagerefs_inuse'
    <3>1. r \notin ToSet(allbase) /\ allbase' = <<r>> \o allbase
      BY <1>2, <1>3, <2>1
    <3> QED BY <1>3, <1>14, <2>1, <3>1, InjPush
  <2> DEFINE l == <<r>> \o sizebases[s]
  <2>3. l \in Seq(Ref) /\ IsInjective(l) /\ ToSet(l) = ToSet(sizebases[s]) \cup {r}
    <3>1. r \notin ToSet(sizebases[s]) /\ sizebases[s] \in Seq(Ref)
      BY <1>1, <1>3, <2>1
    <3> QED BY <1>1, <1>3, <2>1, <3>1, InjPush
  <2>4. sizebases' = [sizebases EXCEPT ![s] = l]
    BY <1>2
  <2> HIDE DEF l
  <2>5. /\ sizebases' \in [Sizes -> Seq(Ref)] /\ sizebases'[s] = l
        /\ \A x \in Sizes : x # s => sizebases'[x] = sizebases[x]
    BY <1>1, <2>1, <2>3, <2>4
  <2>6. ASSUME NEW x \in Sizes
        PROVE  /\ ToSet(sizebases'[x]) = {q \in pagerefs_inuse' : pagerefs'[q].size = x}
               /\ IsInjective(sizebases'[x])
    <3>1. CASE x = s
      <4>1. {q \in pagerefs_inuse' : pagerefs'[q].size = s}
               = {q \in pagerefs_inuse : pagerefs[q].size = s} \cup {r}
        BY <1>9, <1>13, <1>14
      <4> QED BY <1>1, <2>1, <2>3, <2>5, <3>1, <4>1
    <3>2. CASE x # s
      <4>1. {q \in pagerefs_inuse' : pagerefs'[q].size = x}
               = {q \in pagerefs_inuse : pagerefs[q].size = x}
        BY <1>9, <1>13, <1>14, <3>2
      <4> QED BY <2>1, <2>5, <3>2, <4>1
    <3> QED BY <3>1, <3>2
  <2>7. \A q, u \in pagerefs_inuse' :
           pagerefs'[q].page = pagerefs'[u].page => q = u
    <3>1. \A q, u \in pagerefs_inuse :
             pagerefs[q].page = pagerefs[u].page => q = u
      BY <1>4 DEF ListsAgree
    <3> QED BY <1>6, <1>9, <1>13, <1>14, <3>1
  <2> QED BY <2>2, <2>5, <2>6, <2>7 DEF ListsAgree
<1>16. Types'
  <2>1. pagerefs_inuse' \subseteq Ref
    BY <1>3, <1>13, <1>14
  <2>2. /\ firstpaddr' \in Nat /\ FirstPage <= firstpaddr'
        /\ owned' \subseteq Extent
    <3>1. /\ firstpaddr \in Nat /\ FirstPage <= firstpaddr /\ owned \subseteq Extent
          /\ FirstPage \in Nat
      BY <1>4, RamAssumption DEF Types
    <3>2. CASE ~bootstrapped
      <4>1. firstpaddr' = p + 1 /\ owned' = owned /\ p = firstpaddr
        BY <1>2, <3>2 DEF AllocKpages, CanGrant
      <4> QED BY <3>1, <4>1
    <3>3. CASE bootstrapped
      <4>1. owned' = owned \cup {Region(p, 1)} /\ firstpaddr' = firstpaddr
        BY <1>2, <3>3 DEF AllocKpages, Phys!Grant, Region
      <4> QED BY <1>6, <3>1, <4>1
    <3> QED BY <3>2, <3>3
  <2>3. held' \subseteq Block
    BY <1>4, <1>8, <1>10 DEF Types
  <2>4. \A q \in pagerefs_inuse' : pagerefs'[q].size \in Sizes
    BY <1>1, <1>4, <1>9, <1>13, <1>14 DEF Types
  <2>5. bootstrapped' \in BOOLEAN /\ wild' \in BOOLEAN /\ lo' \in Nat
    BY <1>4, <1>5 DEF Types
  <2> QED BY <1>13, <1>15, <2>1, <2>2, <2>3, <2>4, <2>5 DEF Types
<1>17. BlocksInv'
  <2> SUFFICES ASSUME NEW q \in pagerefs_inuse' PROVE Parted(pagerefs'[q], held')
    BY DEF BlocksInv
  <2>1. CASE q = r
    BY <1>9, <1>13, <2>1
  <2>2. CASE q \in pagerefs_inuse
    <3>1. Parted(pagerefs[q], held) /\ pagerefs'[q] = pagerefs[q]
      BY <1>4, <1>13, <2>2 DEF BlocksInv
    <3>2. pagerefs[q].page # p
      BY <1>6, <2>2
    <3>3. {b \in held : b.page = pagerefs[q].page}
             = {b \in held' : b.page = pagerefs[q].page}
      BY <1>8, <1>10, <3>2
    <3> QED BY <3>1, <3>3, OtherPages
  <2> QED BY <1>14, <2>1, <2>2
<1>18. HeldInv'
  <2> SUFFICES ASSUME NEW b \in held'
               PROVE  /\ Large(b) => /\ b.off = 0 /\ NPages(b) \in Nat \ {0}
                                     /\ b.size = NPages(b) * PageSize
                      /\ ~Large(b) => \E q \in pagerefs_inuse' :
                                         b.page = pagerefs'[q].page
    BY DEF HeldInv, Large, NPages
  <2>1. CASE b = first
    <3>1. b.page = pagerefs'[r].page /\ r \in pagerefs_inuse'
      BY <1>9, <1>10, <1>13, <1>14, <2>1
    <3> QED BY <1>12, <2>1, <3>1
  <2>2. CASE b \in held
    BY <1>4, <1>13, <1>14, <2>2 DEF HeldInv
  <2> QED BY <1>8, <2>1, <2>2
<1>19. RefRegions' = RefRegions \cup {Region(p, 1)}
  <2>1. RefRegions' = {Region(pagerefs'[q].page, 1) : q \in pagerefs_inuse'}
    BY DEF RefRegions, Region
  <2> QED BY <1>9, <1>13, <1>14, <2>1 DEF RefRegions
<1>20. LargeRegions' = LargeRegions
  <2>1. {b \in held' : Large(b)} = {b \in held : Large(b)}
    BY <1>8, <1>12
  <2> QED BY <2>1 DEF LargeRegions, Large, Region, NPages
<1>21. InUse' = InUse \cup {Region(p, 1)} /\ RefRegions' \cap LargeRegions' = {}
  <2>1. RefRegions \cap LargeRegions = {} /\ Region(p, 1) \notin LargeRegions
    BY <1>4, <1>6 DEF ApartInv, InUse
  <2> QED BY <1>19, <1>20, <2>1 DEF InUse
<1>22. PlaceInv' /\ ApartInv' /\ OwnInv'
  BY <1>2, <1>4, <1>5, <1>21, GrantKeeps
<1> QED BY <1>15, <1>16, <1>17, <1>18, <1>22 DEF IInv

------------------------------------------------------------------------------
(* The last block of a page comes back, and the page goes. *)
LEMMA KfreeLastBlockStep ==
    ASSUME IInv, NEW b \in held, KfreeLastBlock(b)
    PROVE  IInv'
<1> DEFINE s(i) == pagerefs[allbase[i]].size
<1>1. PICK i \in RefsOf(b.page) :
          /\ pagerefs[allbase[i]].nfree + 1 = Capacity(s(i))
          /\ remove_lists(allbase[i], s(i))
          /\ freepage(b.page)
          /\ pagerefs' = [pagerefs EXCEPT ![allbase[i]] = Unused]
          /\ pagerefs_inuse' = pagerefs_inuse \ {allbase[i]}
  BY DEF KfreeLastBlock
<1> DEFINE r == allbase[i]
           g == Region(b.page, 1)
<1>2. r \in pagerefs_inuse /\ pagerefs[r].page = b.page
  BY RefsOfIs
<1>3. /\ Types /\ BlocksInv /\ ListsAgree /\ HeldInv /\ PlaceInv /\ ApartInv
      /\ OwnInv /\ Memory /\ ~wild /\ held' = held \ {b}
  BY DEF IInv, Memory, KfreeLastBlock
<1>4. /\ r \in Ref /\ pagerefs[r] \in RefType /\ pagerefs \in [Ref -> RefType]
      /\ pagerefs[r].size \in Sizes
      /\ held \in SUBSET Block /\ Parted(pagerefs[r], held)
  BY <1>2, <1>3, RefFacts DEF Types, BlocksInv
<1>5. {x \in held : x.page = b.page} = {b}
  BY <1>1, <1>2, <1>4, LastOne
<1>6. ~Large(b)
  BY <1>2, <1>3, OnAPage
<1>7. \A x \in held' : x.page # b.page
  BY <1>3, <1>5
<1>8. \A q \in pagerefs_inuse : q # r => pagerefs[q].page # b.page
  BY <1>2, <1>3 DEF ListsAgree
<1>9. /\ FreeKpages(b.page) /\ pagerefs_inuse' = pagerefs_inuse \ {r}
      /\ sizebases' = [sizebases EXCEPT ![s(i)] = RemoveFirst(sizebases[s(i)], r)]
      /\ allbase' = RemoveFirst(allbase, r)
  BY <1>1 DEF freepage, remove_lists
<1>10. pagerefs' = [pagerefs EXCEPT ![r] = Unused]
  BY <1>1
<1> HIDE DEF r
<1>11. /\ pagerefs' \in [Ref -> RefType]
       /\ \A q \in pagerefs_inuse' : /\ q \in pagerefs_inuse /\ q # r
                                     /\ pagerefs'[q] = pagerefs[q]
  <2>1. Unused \in RefType
    BY DEF Unused, RefType
  <2>2. pagerefs_inuse \subseteq Ref
    BY <1>3 DEF Types
  <2> QED BY <1>4, <1>9, <1>10, <2>1, <2>2
<1>12. ListsAgree' /\ sizebases' \in [Sizes -> Seq(Ref)] /\ allbase' \in Seq(Ref)
  <2> DEFINE z == pagerefs[r].size
             l == RemoveFirst(sizebases[z], r)
  <2>1. /\ allbase \in Seq(Ref) /\ sizebases \in [Sizes -> Seq(Ref)]
        /\ ToSet(allbase) = pagerefs_inuse /\ IsInjective(allbase)
        /\ \A x \in Sizes :
              /\ ToSet(sizebases[x]) = {q \in pagerefs_inuse : pagerefs[q].size = x}
              /\ IsInjective(sizebases[x])
    BY <1>3 DEF Types, ListsAgree
  <2>2. /\ allbase' \in Seq(Ref) /\ IsInjective(allbase')
        /\ ToSet(allbase') = pagerefs_inuse'
    BY <1>2, <1>9, <2>1, RemoveFirstIs
  <2>3. z \in Sizes /\ sizebases[z] \in Seq(Ref) /\ r \in ToSet(sizebases[z])
    BY <1>2, <1>4, <2>1
  <2>4. l \in Seq(Ref) /\ IsInjective(l) /\ ToSet(l) = ToSet(sizebases[z]) \ {r}
    BY <2>1, <2>3, RemoveFirstIs
  <2>5. sizebases' = [sizebases EXCEPT ![z] = l]
    BY <1>9 DEF r
  <2> HIDE DEF l, z
  <2>6. /\ sizebases' \in [Sizes -> Seq(Ref)] /\ sizebases'[z] = l
        /\ \A x \in Sizes : x # z => sizebases'[x] = sizebases[x]
    BY <2>1, <2>3, <2>4, <2>5
  <2>7. ASSUME NEW x \in Sizes
        PROVE  /\ ToSet(sizebases'[x]) = {q \in pagerefs_inuse' : pagerefs'[q].size = x}
               /\ IsInjective(sizebases'[x])
    <3>1. {q \in pagerefs_inuse' : pagerefs'[q].size = x}
             = {q \in pagerefs_inuse : pagerefs[q].size = x} \ {r}
      BY <1>9, <1>11
    <3>2. CASE x = z
      BY <2>1, <2>4, <2>6, <3>1, <3>2
    <3>3. CASE x # z
      <4>1. r \notin {q \in pagerefs_inuse : pagerefs[q].size = x}
        BY <3>3 DEF z
      <4> QED BY <2>1, <2>6, <3>1, <3>3, <4>1
    <3> QED BY <3>2, <3>3
  <2>8. \A q, u \in pagerefs_inuse' :
           pagerefs'[q].page = pagerefs'[u].page => q = u
    BY <1>3, <1>11 DEF ListsAgree
  <2> QED BY <2>2, <2>6, <2>7, <2>8 DEF ListsAgree
<1>13. Types'
  <2>1. /\ owned' \subseteq owned /\ firstpaddr' = firstpaddr /\ lo' = lo
        /\ bootstrapped' = bootstrapped /\ wild' \in BOOLEAN
    BY <1>9 DEF FreeKpages
  <2>2. \A q \in pagerefs_inuse' : q \in Ref /\ pagerefs'[q].size \in Sizes
    BY <1>3, <1>11 DEF Types
  <2> QED BY <1>3, <1>11, <1>12, <2>1, <2>2 DEF Types
<1>14. BlocksInv'
  <2> SUFFICES ASSUME NEW q \in pagerefs_inuse' PROVE Parted(pagerefs'[q], held')
    BY DEF BlocksInv
  <2>1. /\ Parted(pagerefs[q], held) /\ pagerefs'[q] = pagerefs[q]
        /\ pagerefs[q].page # b.page
    BY <1>3, <1>8, <1>11 DEF BlocksInv
  <2>2. {x \in held : x.page = pagerefs[q].page}
           = {x \in held' : x.page = pagerefs[q].page}
    BY <1>3, <2>1
  <2> QED BY <2>1, <2>2, OtherPages
<1>15. HeldInv'
  <2> SUFFICES ASSUME NEW x \in held'
               PROVE  /\ Large(x) => /\ x.off = 0 /\ NPages(x) \in Nat \ {0}
                                     /\ x.size = NPages(x) * PageSize
                      /\ ~Large(x) => \E q \in pagerefs_inuse' :
                                         x.page = pagerefs'[q].page
    BY DEF HeldInv, Large, NPages
  <2>1. x \in held /\ x.page # b.page
    BY <1>3, <1>7
  <2>2. Large(x) => /\ x.off = 0 /\ NPages(x) \in Nat \ {0}
                    /\ x.size = NPages(x) * PageSize
    BY <1>3, <2>1 DEF HeldInv
  <2>3. ASSUME ~Large(x)
        PROVE  \E q \in pagerefs_inuse' : x.page = pagerefs'[q].page
    <3>1. PICK q \in pagerefs_inuse : x.page = pagerefs[q].page
      BY <1>3, <2>1, <2>3 DEF HeldInv
    <3>2. q \in pagerefs_inuse'
      BY <1>2, <1>9, <2>1, <3>1
    <3> QED BY <1>11, <3>1, <3>2
  <2> QED BY <2>2, <2>3
<1>16. g \in RefRegions
  BY <1>2 DEF RefRegions
<1>17. RefRegions' = RefRegions \ {g}
  <2>1. RefRegions' = {Region(pagerefs'[q].page, 1) : q \in pagerefs_inuse'}
    BY DEF RefRegions, Region
  <2>2. RefRegions' = {Region(pagerefs[q].page, 1) : q \in pagerefs_inuse \ {r}}
    BY <1>9, <1>11, <2>1
  <2>3. \A q \in pagerefs_inuse \ {r} : Region(pagerefs[q].page, 1) # g
    BY <1>8, RegionParts
  <2>4. Region(pagerefs[r].page, 1) = g
    BY <1>2
  <2> HIDE DEF g
  <2> QED BY <2>2, <2>3, <2>4 DEF RefRegions
<1>18. LargeRegions' = LargeRegions
  <2>1. {x \in held' : Large(x)} = {x \in held : Large(x)}
    BY <1>3, <1>6
  <2> QED BY <2>1 DEF LargeRegions, Large, Region, NPages
<1>19. /\ InUse' = InUse \ {g} /\ RefRegions' \cap LargeRegions' = {}
       /\ g \in InUse /\ g.start = b.page
  <2>1. RefRegions \cap LargeRegions = {}
    BY <1>3 DEF ApartInv
  <2>2. g.start = b.page
    BY RegionParts
  <2> HIDE DEF g
  <2> QED BY <1>16, <1>17, <1>18, <2>1, <2>2 DEF InUse
<1>20. PlaceInv' /\ ApartInv' /\ OwnInv'
  <2> HIDE DEF g
  <2> QED BY <1>3, <1>9, <1>19, FreeKeeps
<1> QED BY <1>12, <1>13, <1>14, <1>15, <1>20 DEF IInv

------------------------------------------------------------------------------
(* Large allocations. *)
LEMMA ListsStay ==
    ASSUME Types, ListsAgree, UNCHANGED lists
    PROVE  /\ ListsAgree' /\ RefRegions' = RefRegions
           /\ pagerefs' = pagerefs /\ pagerefs_inuse' = pagerefs_inuse
           /\ sizebases' = sizebases /\ allbase' = allbase
BY DEF ListsAgree, RefRegions, Region, lists

LEMMA KmallocPagesStep ==
    ASSUME IInv, NEW sz \in Requests, KmallocPages(sz)
    PROVE  IInv'
<1> DEFINE n == PagesFor(sz)
           new(p) == [page |-> p, off |-> 0, size |-> n * PageSize]
<1>1. n \in Nat \ {0} /\ PageSize \in Nat \ {0}
  <2>1. sz \in Nat \ {0} /\ PageSize \in Nat \ {0}
    BY SizeAssumption
  <2> QED BY <2>1, DivUp DEF PagesFor
<1>2. PICK p \in 1 .. RamPages :
          AllocKpages(p, n) /\ held' = held \cup {new(p)}
  BY DEF KmallocPages
<1> HIDE DEF n
<1> DEFINE b == new(p)
<1>3. /\ Types /\ BlocksInv /\ ListsAgree /\ HeldInv /\ PlaceInv /\ ApartInv
      /\ OwnInv /\ Memory /\ UNCHANGED lists
  BY DEF IInv, Memory, KmallocPages
<1>4. /\ ListsAgree' /\ RefRegions' = RefRegions
      /\ pagerefs' = pagerefs /\ pagerefs_inuse' = pagerefs_inuse
      /\ sizebases' = sizebases /\ allbase' = allbase
  BY <1>3, ListsStay
<1>5. /\ CanGrant(p, n) /\ p \in Nat
      /\ bootstrapped' = bootstrapped /\ lo' = lo /\ wild' = wild
  BY <1>2, RamAssumption DEF AllocKpages
<1>6. /\ \A x \in held : x.page # p
      /\ \A q \in pagerefs_inuse : pagerefs[q].page # p
      /\ Region(p, n) \in Extent /\ Region(p, n) \notin InUse
  BY <1>1, <1>3, <1>5, NothingThere, NewApart
<1>7. /\ b.page = p /\ b.off = 0 /\ b.size = n * PageSize
      /\ b.size >= PageSize /\ b \in Block /\ NPages(b) = n
  <2>1. n * PageSize \in Nat \ {0} /\ n * PageSize >= PageSize
    BY <1>1, MulMono, MulNat
  <2>2. (n * PageSize) \div PageSize = n
    BY <1>1, DivMul
  <2> QED BY <1>5, <2>1, <2>2 DEF Block, NPages
<1> HIDE DEF b, new
<1>8. Large(b) /\ held' = held \cup {b}
  BY <1>2, <1>7 DEF Large, b
<1>9. Types'
  <2>1. /\ firstpaddr' \in Nat /\ FirstPage <= firstpaddr'
        /\ owned' \subseteq Extent
    <3>1. /\ firstpaddr \in Nat /\ FirstPage <= firstpaddr /\ owned \subseteq Extent
          /\ FirstPage \in Nat
      BY <1>3, RamAssumption DEF Types
    <3>2. CASE ~bootstrapped
      <4>1. firstpaddr' = p + n /\ owned' = owned /\ p = firstpaddr
        BY <1>2, <3>2 DEF AllocKpages, CanGrant
      <4> QED BY <1>1, <3>1, <4>1
    <3>3. CASE bootstrapped
      <4>1. owned' = owned \cup {Region(p, n)} /\ firstpaddr' = firstpaddr
        BY <1>2, <3>3 DEF AllocKpages, Phys!Grant, Region
      <4> QED BY <1>6, <3>1, <4>1
    <3> QED BY <3>2, <3>3
  <2>2. held' \subseteq Block
    BY <1>3, <1>7, <1>8 DEF Types
  <2> QED BY <1>3, <1>4, <1>5, <2>1, <2>2 DEF Types
<1>10. BlocksInv'
  <2> SUFFICES ASSUME NEW q \in pagerefs_inuse PROVE Parted(pagerefs[q], held')
    BY <1>4 DEF BlocksInv
  <2>1. Parted(pagerefs[q], held) /\ pagerefs[q].page # p
    BY <1>3, <1>6 DEF BlocksInv
  <2>2. {x \in held : x.page = pagerefs[q].page}
           = {x \in held' : x.page = pagerefs[q].page}
    BY <1>7, <1>8, <2>1
  <2> QED BY <2>1, <2>2, OtherPages
<1>11. HeldInv'
  <2> SUFFICES ASSUME NEW x \in held'
               PROVE  /\ Large(x) => /\ x.off = 0 /\ NPages(x) \in Nat \ {0}
                                     /\ x.size = NPages(x) * PageSize
                      /\ ~Large(x) => \E q \in pagerefs_inuse' :
                                         x.page = pagerefs'[q].page
    BY DEF HeldInv, Large, NPages
  <2>1. CASE x = b
    BY <1>1, <1>7, <1>8, <2>1
  <2>2. CASE x \in held
    BY <1>3, <1>4, <2>2 DEF HeldInv
  <2> QED BY <1>8, <2>1, <2>2
<1>12. LargeRegions' = LargeRegions \cup {Region(p, n)}
  <2>1. {x \in held' : Large(x)} = {x \in held : Large(x)} \cup {b}
    BY <1>8
  <2>2. LargeRegions' = {Region(x.page, NPages(x)) : x \in {x \in held' : Large(x)}}
    BY DEF LargeRegions, Large, Region, NPages
  <2> QED BY <1>7, <2>1, <2>2 DEF LargeRegions
<1>13. InUse' = InUse \cup {Region(p, n)} /\ RefRegions' \cap LargeRegions' = {}
  <2>1. RefRegions \cap LargeRegions = {} /\ Region(p, n) \notin RefRegions
    BY <1>3, <1>6 DEF ApartInv, InUse
  <2> QED BY <1>4, <1>12, <2>1 DEF InUse
<1>14. PlaceInv' /\ ApartInv' /\ OwnInv'
  BY <1>1, <1>2, <1>3, <1>13, GrantKeeps
<1> QED BY <1>4, <1>9, <1>10, <1>11, <1>14 DEF IInv

LEMMA KfreePagesStep ==
    ASSUME IInv, NEW b \in held, KfreePages(b)
    PROVE  IInv'
<1> DEFINE g == Region(b.page, NPages(b))
<1>1. /\ Types /\ BlocksInv /\ ListsAgree /\ HeldInv /\ PlaceInv /\ ApartInv
      /\ OwnInv /\ Memory /\ UNCHANGED lists /\ ~wild
      /\ RefsOf(b.page) = {} /\ FreeKpages(b.page) /\ held' = held \ {b}
  BY DEF IInv, Memory, KfreePages
<1>2. /\ ListsAgree' /\ RefRegions' = RefRegions
      /\ pagerefs' = pagerefs /\ pagerefs_inuse' = pagerefs_inuse
      /\ sizebases' = sizebases /\ allbase' = allbase
  BY <1>1, ListsStay
<1>3. \A r \in pagerefs_inuse : pagerefs[r].page # b.page
  BY <1>1, RefsOfIs
<1>4. Large(b)
  BY <1>1, <1>3 DEF HeldInv
<1>5. Types'
  BY <1>1, <1>2 DEF Types, FreeKpages
<1>6. BlocksInv'
  <2> SUFFICES ASSUME NEW q \in pagerefs_inuse PROVE Parted(pagerefs[q], held')
    BY <1>2 DEF BlocksInv
  <2>1. Parted(pagerefs[q], held) /\ pagerefs[q].page # b.page
    BY <1>1, <1>3 DEF BlocksInv
  <2>2. {x \in held : x.page = pagerefs[q].page}
           = {x \in held' : x.page = pagerefs[q].page}
    BY <1>1, <2>1
  <2> QED BY <2>1, <2>2, OtherPages
<1>7. HeldInv'
  BY <1>1, <1>2 DEF HeldInv, Large, NPages
<1>8. g \in LargeRegions /\ g \in InUse /\ g.start = b.page
  BY <1>4, RegionParts DEF LargeRegions, InUse
<1>9. ASSUME NEW x \in held, Large(x), Region(x.page, NPages(x)) = g PROVE x = b
  <2>1. x.page = b.page /\ NPages(x) = NPages(b)
    BY <1>9, RegionParts
  <2>2. /\ x.off = 0 /\ b.off = 0 /\ x.size = NPages(x) * PageSize
        /\ b.size = NPages(b) * PageSize
    BY <1>1, <1>4, <1>9 DEF HeldInv
  <2>3. x.off = b.off /\ x.size = b.size /\ x \in Block /\ b \in Block
    BY <1>1, <2>1, <2>2 DEF Types
  <2> QED BY <2>1, <2>3 DEF Block
<1>10. LargeRegions' = LargeRegions \ {g}
  <2>1. LargeRegions' = {Region(x.page, NPages(x)) : x \in {x \in held' : Large(x)}}
    BY DEF LargeRegions, Large, Region, NPages
  <2>2. {x \in held' : Large(x)} = {x \in held : Large(x)} \ {b}
    BY <1>1
  <2>3. Region(b.page, NPages(b)) = g
    OBVIOUS
  <2> HIDE DEF g
  <2> QED BY <1>9, <2>1, <2>2, <2>3 DEF LargeRegions
<1>11. InUse' = InUse \ {g} /\ RefRegions' \cap LargeRegions' = {}
  <2>1. RefRegions \cap LargeRegions = {}
    BY <1>1 DEF ApartInv
  <2> HIDE DEF g
  <2> QED BY <1>2, <1>8, <1>10, <2>1 DEF InUse
<1>12. PlaceInv' /\ ApartInv' /\ OwnInv'
  <2> HIDE DEF g
  <2> QED BY <1>1, <1>8, <1>11, FreeKeeps
<1> QED BY <1>2, <1>5, <1>6, <1>7, <1>12 DEF IInv

(* Steps that move nothing the heap has given out. *)
LEMMA NothingMoves ==
    ASSUME IInv, UNCHANGED <<lists, held>>
    PROVE  /\ BlocksInv' /\ ListsAgree' /\ HeldInv'
           /\ RefRegions' = RefRegions /\ LargeRegions' = LargeRegions
<1>1. /\ Types /\ BlocksInv /\ ListsAgree /\ HeldInv /\ UNCHANGED lists
      /\ held' = held
  BY DEF IInv
<1>2. /\ ListsAgree' /\ RefRegions' = RefRegions
      /\ pagerefs' = pagerefs /\ pagerefs_inuse' = pagerefs_inuse
  BY <1>1, ListsStay
<1>3. BlocksInv'
  BY <1>1, <1>2 DEF BlocksInv
<1>4. HeldInv'
  BY <1>1, <1>2 DEF HeldInv, Large, NPages
<1>5. LargeRegions' = LargeRegions
  BY <1>1 DEF LargeRegions, Large, Region, NPages
<1> QED BY <1>2, <1>3, <1>4, <1>5

LEMMA QuietStep ==
    ASSUME IInv, UNCHANGED <<lists, pages, held>>, wild' \in BOOLEAN, wild => wild'
    PROVE  IInv'
<1>1. /\ BlocksInv' /\ ListsAgree' /\ HeldInv'
      /\ RefRegions' = RefRegions /\ LargeRegions' = LargeRegions
  BY NothingMoves
<1>2. Types'
  BY DEF IInv, Types, lists, pages
<1>3. PlaceInv' /\ ApartInv' /\ OwnInv'
  BY <1>1, SameKeeps DEF IInv
<1> QED BY <1>1, <1>2, <1>3 DEF IInv

LEMMA VmBootstrapStep ==
    ASSUME IInv, VmBootstrap
    PROVE  IInv'
<1> DEFINE g == Region(firstpaddr, TablePages)
<1>1. /\ Types /\ HeldInv /\ PlaceInv /\ ApartInv /\ OwnInv
      /\ ~wild /\ ~bootstrapped /\ UNCHANGED lists /\ held' = held /\ wild' = wild
      /\ bootstrapped' /\ bootstrapped' \in BOOLEAN /\ lo' = firstpaddr
      /\ firstpaddr' = firstpaddr /\ owned' = {g}
  BY DEF IInv, VmBootstrap, Region
<1>2. /\ BlocksInv' /\ ListsAgree' /\ HeldInv'
      /\ RefRegions' = RefRegions /\ LargeRegions' = LargeRegions
  BY <1>1, NothingMoves
<1>3. InUse' = InUse
  BY <1>2 DEF InUse
<1>4. firstpaddr \in Nat /\ FirstPage <= firstpaddr /\ TablePages \in Nat \ {0}
  BY <1>1, RamAssumption DEF Types
<1>5. g \in Extent /\ g.start = firstpaddr /\ g.len = TablePages /\ Table' = g
  BY <1>1, <1>4 DEF Extent, Region, Table
<1> HIDE DEF g
<1>6. Types'
  BY <1>1, <1>4, <1>5 DEF Types, lists
<1>7. ASSUME NEW q \in InUse
      PROVE  q \in Extent /\ FirstPage <= q.start /\ q.start + q.len <= firstpaddr
  BY <1>1, RegionsTyped DEF PlaceInv, Placed
<1>8. PlaceInv'
  BY <1>1, <1>3, <1>7 DEF PlaceInv, Placed
<1>9. ApartInv'
  BY <1>1, <1>2, <1>3 DEF ApartInv, Phys!Apart
<1>10. OwnInv'
  <2>1. g \notin InUse
    BY <1>4, <1>5, <1>7, ExtentParts
  <2>2. \A q \in owned' : lo' <= q.start
    BY <1>1, <1>4, <1>5
  <2>3. \A q, u \in owned' : q = u
    BY <1>1
  <2> QED BY <1>1, <1>3, <1>4, <1>5, <2>1, <2>2, <2>3 DEF OwnInv
<1> QED BY <1>2, <1>6, <1>8, <1>9, <1>10 DEF IInv

------------------------------------------------------------------------------
(* The invariant of the specification. *)
LEMMA IInvInit == Init => IInv
<1> SUFFICES ASSUME Init PROVE IInv
  OBVIOUS
<1>1. /\ pagerefs = [r \in Ref |-> Unused] /\ pagerefs_inuse = {}
      /\ sizebases = [s \in Sizes |-> <<>>] /\ allbase = <<>>
      /\ firstpaddr = FirstPage /\ bootstrapped = FALSE /\ lo = 0
      /\ owned = {} /\ held = {} /\ wild = FALSE
  BY DEF Init
<1>2. Unused \in RefType /\ FirstPage \in Nat
  BY RamAssumption DEF Unused, RefType
<1>3. Types
  <2>1. wild \in BOOLEAN /\ bootstrapped \in BOOLEAN
    BY <1>1, Zenon
  <2>2. pagerefs \in [Ref -> RefType] /\ pagerefs_inuse \subseteq Ref
    BY <1>1, <1>2
  <2>3. sizebases \in [Sizes -> Seq(Ref)] /\ allbase \in Seq(Ref)
    BY <1>1
  <2>4. /\ owned \subseteq Extent /\ held \subseteq Block /\ lo \in Nat
        /\ firstpaddr \in Nat /\ FirstPage <= firstpaddr
        /\ \A r \in pagerefs_inuse : pagerefs[r].size \in Sizes
    BY <1>1, <1>2
  <2> QED BY <2>1, <2>2, <2>3, <2>4 DEF Types
<1>4. InUse = {} /\ RefRegions = {}
  BY <1>1 DEF InUse, RefRegions, LargeRegions
<1>5. ListsAgree
  <2>1. IsInjective(<<>>)
    BY DEF IsInjective
  <2> QED BY <1>1, <2>1, ToSetEmpty DEF ListsAgree
<1>6. BlocksInv /\ HeldInv
  BY <1>1 DEF BlocksInv, HeldInv
<1>7. PlaceInv /\ ApartInv /\ OwnInv
  BY <1>1, <1>4 DEF PlaceInv, ApartInv, OwnInv
<1> QED BY <1>3, <1>5, <1>6, <1>7 DEF IInv

LEMMA IInvStep == IInv /\ [Next]_vars => IInv'
<1> SUFFICES ASSUME IInv, [Next]_vars PROVE IInv'
  OBVIOUS
<1>1. CASE VmBootstrap
  BY <1>1, VmBootstrapStep
<1>2. ASSUME NEW sz \in Requests, KmallocBlock(sz) PROVE IInv'
  BY <1>2, KmallocBlockStep
<1>3. ASSUME NEW sz \in Requests, KmallocNewPage(sz) PROVE IInv'
  BY <1>3, KmallocNewPageStep
<1>4. CASE UNCHANGED vars
  BY <1>4, QuietStep DEF vars, lists, pages, IInv, Types
<1>5. ASSUME NEW sz \in Requests, KmallocNoRef(sz) PROVE IInv'
  BY <1>4, <1>5 DEF KmallocNoRef
<1>6. ASSUME NEW sz \in Requests, KmallocPages(sz) PROVE IInv'
  BY <1>6, KmallocPagesStep
<1>7. ASSUME NEW sz \in Requests, KmallocWild(sz) PROVE IInv'
  BY <1>7, QuietStep DEF KmallocWild
<1>8. ASSUME NEW b \in held, KfreeBlock(b) PROVE IInv'
  BY <1>8, KfreeBlockStep
<1>9. ASSUME NEW b \in held, KfreeLastBlock(b) PROVE IInv'
  BY <1>9, KfreeLastBlockStep
<1>10. ASSUME NEW b \in held, KfreePages(b) PROVE IInv'
  BY <1>10, KfreePagesStep
<1> QED BY <1>1, <1>2, <1>3, <1>4, <1>5, <1>6, <1>7, <1>8, <1>9, <1>10 DEF Next

LEMMA IInvAlways == Spec => []IInv
BY IInvInit, IInvStep, PTL DEF Spec

------------------------------------------------------------------------------
(***************************************************************************)
(* On every page of the subpage allocator each block is on the free list    *)
(* once or in one caller's hands, and nfree counts the free list: what      *)
(* checksubpage asserts, after any calls of kmalloc and kfree.              *)
(***************************************************************************)
THEOREM BlocksAlwaysPartitioned == Spec => []BlocksPartitioned
<1>1. IInv => BlocksPartitioned
  <2> SUFFICES ASSUME IInv, NEW r \in pagerefs_inuse
               PROVE  /\ pagerefs[r].nfree = Len(pagerefs[r].freelist)
                      /\ IsInjective(pagerefs[r].freelist)
                      /\ \A b \in Live(r) : b.size = pagerefs[r].size
                      /\ ToSet(pagerefs[r].freelist) \cap {b.off : b \in Live(r)} = {}
                      /\ ToSet(pagerefs[r].freelist) \cup {b.off : b \in Live(r)}
                            = Offsets(pagerefs[r].size)
    BY DEF BlocksPartitioned, Offsets
  <2>1. Parted(pagerefs[r], held)
    BY DEF IInv, BlocksInv
  <2>2. OffsOn(pagerefs[r].page, held) = {b.off : b \in Live(r)}
    BY DEF OffsOn, Live
  <2> QED BY <2>1, <2>2 DEF Parted, Live
<1> QED BY <1>1, IInvAlways, PTL

(***************************************************************************)
(* A pageref is in use exactly when it is on the list of all pages and on   *)
(* that of its size, once on each, and no page has two: what checksubpages  *)
(* asserts, kept by subpage_kmalloc and by remove_lists in subpage_kfree.   *)
(***************************************************************************)
THEOREM ListsAlwaysAgree == Spec => []ListsAgree
<1>1. IInv => ListsAgree
  BY DEF IInv
<1> QED BY <1>1, IInvAlways, PTL

(* Every block lies in its region. *)
LEMMA BlockFits ==
    ASSUME IInv, NEW b \in held
    PROVE  /\ b.page \in Nat /\ b.off \in Nat /\ b.size \in Nat /\ PageSize \in Nat
           /\ \E g \in InUse :
                 /\ g \in Extent /\ g.start = b.page
                 /\ b.off + b.size <= g.len * PageSize
                 /\ Large(b) => g = Region(b.page, NPages(b)) /\ g \in LargeRegions
                 /\ ~Large(b) => g = Region(b.page, 1) /\ g \in RefRegions
<1>1. Types /\ BlocksInv /\ HeldInv
  BY DEF IInv
<1>2. /\ b.page \in Nat /\ b.off \in Nat /\ b.size \in Nat
      /\ PageSize \in Nat /\ PageSize > 0
  BY <1>1, SizeAssumption DEF Types, Block
<1>3. PICK g \in InUse :
          /\ g.start = b.page
          /\ IF Large(b) THEN g = Region(b.page, NPages(b)) /\ g \in LargeRegions
             ELSE g = Region(b.page, 1) /\ g \in RefRegions
  BY <1>1, HeldRegion
<1>4. g \in Extent
  BY <1>1, RegionsTyped
<1>5. b.off + b.size <= g.len * PageSize
  <2>1. CASE Large(b)
    <3>1. /\ b.off = 0 /\ b.size = NPages(b) * PageSize
          /\ g.len = NPages(b)
      BY <1>1, <1>3, <2>1, RegionParts DEF HeldInv
    <3> QED BY <1>2, <3>1
  <2>2. CASE ~Large(b)
    <3>1. PICK r \in pagerefs_inuse : b.page = pagerefs[r].page
      BY <1>1, <2>2 DEF HeldInv
    <3>2. b.size = pagerefs[r].size /\ b.size \in Sizes
      BY <1>1, <3>1, OnAPage, RefFacts
    <3>3. b.off \in Offsets(b.size)
      <4>1. Parted(pagerefs[r], held)
        BY <1>1 DEF BlocksInv
      <4>2. b.off \in OffsOn(pagerefs[r].page, held)
        BY <3>1 DEF OffsOn
      <4> QED BY <3>2, <4>1, <4>2 DEF Parted
    <3>4. b.off + b.size <= PageSize
      BY <3>2, <3>3, OffsetsFit
    <3>5. g.len = 1
      BY <1>3, <2>2, RegionParts
    <3> QED BY <1>2, <3>4, <3>5
  <2> QED BY <2>1, <2>2
<1> QED BY <1>2, <1>3, <1>4, <1>5

(***************************************************************************)
(* No two callers of kmalloc are given overlapping memory, and none the     *)
(* kernel image or the pages of the coremap, whatever the sizes, the        *)
(* requests and the order of kmalloc, kfree and vm_bootstrap.               *)
(***************************************************************************)
THEOREM HeldAlwaysApart == Spec => []HeldApart
<1>1. ASSUME IInv, NEW b \in held, NEW c \in held, b # c PROVE ~Overlap(b, c)
  <2>1. /\ Types /\ BlocksInv /\ ListsAgree /\ HeldInv /\ ApartInv
        /\ b.page \in Nat /\ b.off \in Nat /\ b.size \in Nat
        /\ c.page \in Nat /\ c.off \in Nat /\ c.size \in Nat /\ PageSize \in Nat
    BY <1>1, BlockFits DEF IInv
  <2>2. PICK g \in InUse :
            /\ g \in Extent /\ g.start = b.page
            /\ b.off + b.size <= g.len * PageSize
            /\ Large(b) => g = Region(b.page, NPages(b)) /\ g \in LargeRegions
            /\ ~Large(b) => g = Region(b.page, 1) /\ g \in RefRegions
    BY <1>1, BlockFits
  <2>3. PICK h \in InUse :
            /\ h \in Extent /\ h.start = c.page
            /\ c.off + c.size <= h.len * PageSize
            /\ Large(c) => h = Region(c.page, NPages(c)) /\ h \in LargeRegions
            /\ ~Large(c) => h = Region(c.page, 1) /\ h \in RefRegions
    BY <1>1, BlockFits
  <2>4. CASE g # h
    <3>1. Phys!Apart(g, h)
      BY <2>1, <2>4 DEF ApartInv
    <3>2. g.len \in Nat /\ h.len \in Nat
      BY <2>2, <2>3, ExtentParts
    <3>3. CASE b.page + g.len <= c.page
      <4>1. (b.page + g.len) * PageSize <= c.page * PageSize
        BY <2>1, <3>2, <3>3, MulMono
      <4>2. (b.page + g.len) * PageSize = b.page * PageSize + g.len * PageSize
        BY <2>1, <3>2
      <4>3. /\ b.page * PageSize \in Nat /\ c.page * PageSize \in Nat
            /\ g.len * PageSize \in Nat
        BY <2>1, <3>2, MulNat
      <4>4. b.page * PageSize + b.off + b.size <= c.page * PageSize
        BY <2>1, <2>2, <4>1, <4>2, <4>3
      <4> QED BY <2>1, <4>3, <4>4 DEF Overlap
    <3>4. CASE c.page + h.len <= b.page
      <4>1. (c.page + h.len) * PageSize <= b.page * PageSize
        BY <2>1, <3>2, <3>4, MulMono
      <4>2. (c.page + h.len) * PageSize = c.page * PageSize + h.len * PageSize
        BY <2>1, <3>2
      <4>3. /\ b.page * PageSize \in Nat /\ c.page * PageSize \in Nat
            /\ h.len * PageSize \in Nat
        BY <2>1, <3>2, MulNat
      <4>4. c.page * PageSize + c.off + c.size <= b.page * PageSize
        BY <2>1, <2>3, <4>1, <4>2, <4>3
      <4> QED BY <2>1, <4>3, <4>4 DEF Overlap
    <3> QED BY <2>2, <2>3, <3>1, <3>3, <3>4 DEF Phys!Apart
  <2>5. CASE g = h
    <3>1. b.page = c.page
      BY <2>2, <2>3, <2>5
    <3>2. CASE Large(b) /\ Large(c)
      <4>1. NPages(b) = NPages(c)
        BY <2>2, <2>3, <2>5, <3>2, RegionParts
      <4>2. b.off = c.off /\ b.size = c.size
        BY <2>1, <3>2, <4>1 DEF HeldInv
      <4>3. b \in Block /\ c \in Block
        BY <2>1 DEF Types
      <4> QED BY <1>1, <3>1, <4>2, <4>3 DEF Block
    <3>3. CASE ~Large(b) /\ ~Large(c)
      <4>1. PICK r \in pagerefs_inuse : b.page = pagerefs[r].page
        BY <2>1, <3>3 DEF HeldInv
      <4> DEFINE s == pagerefs[r].size
      <4>2. /\ b.size = s /\ c.size = s /\ s \in Sizes
            /\ Parted(pagerefs[r], held)
        BY <2>1, <3>1, <4>1, OnAPage, RefFacts DEF BlocksInv
      <4>3. b.off \in Offsets(s) /\ c.off \in Offsets(s)
        <5>1. /\ b.off \in OffsOn(pagerefs[r].page, held)
              /\ c.off \in OffsOn(pagerefs[r].page, held)
          BY <3>1, <4>1 DEF OffsOn
        <5> QED BY <4>2, <5>1 DEF Parted
      <4>4. b.off # c.off
        <5>1. b \in Block /\ c \in Block
          BY <2>1 DEF Types
        <5> QED BY <1>1, <3>1, <4>2, <5>1 DEF Block
      <4>5. b.off + s <= c.off \/ c.off + s <= b.off
        BY <4>2, <4>3, <4>4, OffsetsApart
      <4>6. b.page * PageSize \in Nat
        BY <2>1, MulNat
      <4> HIDE DEF s
      <4> QED BY <2>1, <3>1, <4>2, <4>5, <4>6 DEF Overlap
    <3>4. ~(Large(b) /\ ~Large(c)) /\ ~(~Large(b) /\ Large(c))
      BY <2>1, <2>2, <2>3, <2>5 DEF ApartInv
    <3> QED BY <3>2, <3>3, <3>4
  <2> QED BY <2>4, <2>5
<1>2. ASSUME IInv, NEW b \in held
      PROVE  /\ b.page >= FirstPage
             /\ bootstrapped => b.page \notin lo .. lo + TablePages - 1
  <2>1. PICK g \in InUse : g \in Extent /\ g.start = b.page
    BY <1>2, BlockFits
  <2>2. Placed(g) /\ OwnInv /\ lo \in Nat /\ FirstPage \in Nat /\ TablePages \in Nat
    BY <1>2, RamAssumption DEF IInv, PlaceInv, Types
  <2>3. /\ g.start \in Nat /\ g.len \in Nat /\ g.start + g.len > g.start
    BY <2>1, ExtentParts
  <2>4. b.page >= FirstPage
    BY <2>1, <2>2, <2>3 DEF Placed
  <2>5. ASSUME bootstrapped PROVE b.page \notin lo .. lo + TablePages - 1
    <3>1. CASE g.start + g.len <= lo
      BY <2>1, <2>2, <2>3, <3>1
    <3>2. CASE g \in owned
      <4>1. Table \in owned /\ g # Table
        BY <2>1, <2>2, <2>5 DEF OwnInv
      <4>2. lo <= g.start /\ Phys!Apart(Table, g)
        BY <2>2, <3>2, <4>1 DEF OwnInv
      <4>3. Table.start = lo /\ Table.len = TablePages
        BY RegionParts DEF Table
      <4>4. lo + TablePages <= g.start
        BY <2>2, <2>3, <4>2, <4>3 DEF Phys!Apart
      <4> QED BY <2>1, <2>2, <2>3, <4>4
    <3> QED BY <2>2, <2>5, <3>1, <3>2 DEF Placed
  <2> QED BY <2>4, <2>5
<1>3. IInv => HeldApart
  BY <1>1, <1>2 DEF HeldApart
<1> QED BY <1>3, IInvAlways, PTL

(***************************************************************************)
(* Unless memory the kernel does not own was written, the table's regions   *)
(* are its own pages, the subpage pages and the large allocations: kfree    *)
(* gives a page back with its last block, and never forgets one.            *)
(***************************************************************************)
THEOREM PagesAlwaysAccounted == Spec => []PagesAccounted
<1>1. ASSUME IInv, bootstrapped, ~wild PROVE PagesAccounted
  <2> DEFINE S1 == {q \in RefRegions : q.start >= lo}
             S2 == {Region(b.page, NPages(b)) :
                       b \in {x \in held : Large(x) /\ x.page >= lo}}
  <2>1. PlaceInv /\ OwnInv /\ Types /\ HeldInv
    BY <1>1 DEF IInv
  <2>2. /\ Table \in owned /\ owned \subseteq {Table} \cup InUse
        /\ \A q \in owned : lo <= q.start
    BY <1>1, <2>1 DEF OwnInv
  <2>3. \A q \in InUse : q.start >= lo => q \in owned
    <3> SUFFICES ASSUME NEW q \in InUse, q.start >= lo PROVE q \in owned
      OBVIOUS
    <3>1. /\ q.start \in Nat /\ q.len \in Nat /\ q.start + q.len > q.start
          /\ lo \in Nat
      BY <2>1, RegionsTyped, ExtentParts DEF Types
    <3>2. q.start + q.len <= lo \/ q \in owned
      BY <1>1, <2>1 DEF PlaceInv, Placed
    <3> QED BY <3>1, <3>2
  <2>4. owned \subseteq {Table} \cup S1 \cup S2
    <3> SUFFICES ASSUME NEW q \in owned, q # Table, q \notin RefRegions
                 PROVE  q \in S2
      <4>1. lo \in Nat /\ \A q \in owned : q.start \in Nat
        BY <2>1, ExtentParts DEF Types
      <4>2. \A q \in owned : q.start >= lo
        BY <2>2, <4>1
      <4> QED BY <4>2
    <3>1. q \in LargeRegions
      BY <2>2 DEF InUse
    <3>2. PICK b \in held : Large(b) /\ q = Region(b.page, NPages(b))
      BY <3>1 DEF LargeRegions
    <3>3. q.start = b.page
      BY <3>2, RegionParts
    <3>4. q.start \in Nat /\ lo \in Nat /\ lo <= q.start
      BY <2>1, <2>2, ExtentParts DEF Types
    <3>5. b.page >= lo
      BY <3>3, <3>4
    <3> QED BY <3>2, <3>5
  <2>5. S1 \subseteq owned
    BY <2>3 DEF InUse
  <2>6. S2 \subseteq owned
    <3> SUFFICES ASSUME NEW b \in held, Large(b), b.page >= lo
                 PROVE  Region(b.page, NPages(b)) \in owned
      OBVIOUS
    <3>1. Region(b.page, NPages(b)) \in InUse
      BY DEF LargeRegions, InUse
    <3> QED BY <2>3, <3>1, RegionParts
  <2>7. owned = {Table} \cup S1 \cup S2
    BY <2>2, <2>4, <2>5, <2>6
  <2>8. S1 = {q \in {[start |-> pagerefs[r].page, len |-> 1] :
                        r \in pagerefs_inuse} : q.start >= lo}
    BY DEF RefRegions, Region
  <2>9. S2 = {[start |-> b.page, len |-> b.size \div PageSize] :
                 b \in {x \in held : x.size >= PageSize /\ x.page >= lo}}
    BY DEF Region, NPages, Large
  <2>10. {Table} = {[start |-> lo, len |-> TablePages]}
    BY DEF Table, Region
  <2> QED BY <2>7, <2>8, <2>9, <2>10 DEF PagesAccounted
<1>2. IInv => PagesAccounted
  BY <1>1 DEF PagesAccounted
<1> QED BY <1>2, IInvAlways, PTL
==============================================================================
