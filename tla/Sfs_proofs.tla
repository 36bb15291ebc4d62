------------------------------ MODULE Sfs_proofs ------------------------------
(***************************************************************************)
(* Proofs about Sfs: no check of the code is hit, what is taken for clean   *)
(* is on the disk, the counts are exact and every block in use is accounted *)
(* for once, whatever reads and allocations fail.                           *)
(*                                                                          *)
(* The functions of the code are taken one by one, from blocks up to calls. *)
(* `Sound` is what holds of the disk and the inodes at every point inside a *)
(* call, L being the inodes there are and H the blocks that are lost or not *)
(* yet attached; `Did` is what a function on one inode leaves alone.        *)
(* `Good` adds the directory and the counts: it holds whenever nothing is   *)
(* being done to the directory, for given numbers of open counts and of     *)
(* references that somebody answers for.  A lemma about a function says     *)
(* what each of its outcomes is, the failing ones too; the inductive        *)
(* invariant, Consistent, is Good with the counts the descriptors make.     *)
(***************************************************************************)
EXTENDS Sfs, ListFacts

(* The types of what a state holds.                                         *)
Place == 0 .. NDirect + DbPerId
MaxSize == (NDirect + DbPerId) * Slots
Inode == [type : {"invalid", "file", "dir"}, size : Nat, linkcount : Int,
          direct : [0 .. NDirect - 1 -> Block], indirect : Block]
Entry == [name : Names, ino : Block]
Unit == {Zero} \cup Values \cup Entry
Content == [k : {"zero", "super"}] \cup [k : {"inode"}, i : Inode]
           \cup [k : {"ids"}, ids : [0 .. DbPerId - 1 -> Block]]
           \cup [k : {"units"}, us : [0 .. Slots - 1 -> Unit]]
           \cup [k : {"map"}, used : SUBSET Block]
Vnode == [i : Inode, dirty : BOOLEAN, refcount : Nat, opencount : Nat]

IsState(m) ==
    /\ m \in [up : BOOLEAN, disk : [Block -> Content], used : SUBSET Block,
              mapdirty : BOOLEAN, vn : {m.vn}, lost : SUBSET Block,
              panic : {m.panic}]
    /\ DOMAIN m.vn \subseteq Block /\ m.vn \in [DOMAIN m.vn -> Vnode]
IsOutcome(o) == o \in [m : {o.m}, err : {o.err}, val : {o.val}]

(* What a place of inode i holds: zeros where no block is. *)
Cont(m, i, x) ==
    IF Blocks(m, i)[x] = 0 THEN [y \in 0 .. Slots - 1 |-> Zero]
    ELSE AsUnits(m.disk[Blocks(m, i)[x]])
FbPlace(fb) == IF fb < NDirect THEN fb ELSE fb + 1
UnitPlace(u) == FbPlace((u - 1) \div Slots)
DataPlace == Place \ {NDirect}
Dir(m) == Units(m, Root)

(* The blocks in a table, and that none is there twice.                      *)
BlocksIn(f) == {f[x] : x \in Place} \ {0}
Distinct(f) == \A x, y \in Place : f[x] = f[y] /\ f[x] # 0 => x = y
Held(m, i) == BlocksIn(Blocks(m, i))

(* What is true of an inode, whatever the others are.                       *)
WellFormed(m, i) ==
    /\ InodeOf(m, i).type # "invalid" /\ InodeOf(m, i).size <= MaxSize
    /\ i \notin DOMAIN m.vn => m.disk[i].k = "inode"
    /\ InodeOf(m, i).indirect # 0 =>
          m.disk[InodeOf(m, i).indirect].k \in {"zero", "ids"}
    /\ \A x \in DataPlace : Blocks(m, i)[x] # 0 =>
          m.disk[Blocks(m, i)[x]].k \in {"zero", "units"}
    /\ Distinct(Blocks(m, i))

(* Inode i and its blocks are the same in m2 as in m.                       *)
SameFile(m, m2, i) ==
    /\ InodeOf(m2, i) = InodeOf(m, i)
    /\ Blocks(m2, i) = Blocks(m, i) /\ Held(m2, i) = Held(m, i)
    /\ Units(m2, i) = Units(m, i)
    /\ WellFormed(m2, i)

(* The blocks in use are divided among the inodes L, what those hold, and H. *)
Divided(m, L, H) ==
    /\ \A b \in Block : b \in m.used <=> \/ b \in {Super, Map} \/ b \in L \/ b \in H
                                         \/ \E i \in L : b \in Held(m, i)
    /\ {Super, Map} \cap L = {} /\ {Super, Map} \cap H = {} /\ L \cap H = {}
    /\ \A i \in L : Held(m, i) \cap ({Super, Map} \cup L \cup H) = {}
    /\ \A i, j \in L : i # j => Held(m, i) \cap Held(m, j) = {}

Truthful(m) ==
    /\ \A i \in DOMAIN m.vn :
          m.vn[i].dirty \/ m.disk[i] = InodeBlock(m.vn[i].i)
    /\ m.mapdirty \/ m.disk[Map] = MapBlock(m.used)

Sound(m, L, H) ==
    /\ IsState(m) /\ m.panic = "no"
    /\ L \subseteq Block /\ H \subseteq Block /\ Root \in L
    /\ DOMAIN m.vn \subseteq L
    /\ Divided(m, L, H)
    /\ \A i \in L : WellFormed(m, i)
    /\ m.disk[Super].k = "super" /\ m.disk[Map].k = "map"
    /\ Truthful(m)

(* Only inode ino is different in m2, and that is a sound state.            *)
Updated(m, m2, L, H2, ino) ==
    /\ Sound(m2, L, H2)
    /\ \A j \in L \ {ino} : InodeOf(m2, j) = InodeOf(m, j) /\ Units(m2, j) = Units(m, j)
    /\ \A j \in L \ DOMAIN m.vn : m2.disk[j] = m.disk[j]

SameFiles(m, m2, L, H2) ==
    /\ Sound(m2, L, H2)
    /\ \A i \in L : SameFile(m, m2, i)

(* Calls on inode ino took m to m2: counts and links, and the other files,  *)
(* are as they were, and what was dirty is.                                 *)
Did(m, m2, L, H2, ino) ==
    /\ Sound(m2, L, H2)
    /\ m2.up = m.up /\ m2.lost = m.lost /\ DOMAIN m2.vn = DOMAIN m.vn
    /\ \A j \in DOMAIN m.vn \ {ino} : m2.vn[j] = m.vn[j]
    /\ m2.vn[ino].refcount = m.vn[ino].refcount
    /\ m2.vn[ino].opencount = m.vn[ino].opencount
    /\ m2.vn[ino].i.linkcount = m.vn[ino].i.linkcount
    /\ m.vn[ino].dirty => m2.vn[ino].dirty
    /\ \A j \in L \ {ino} : InodeOf(m2, j) = InodeOf(m, j) /\ Units(m2, j) = Units(m, j)

(* ... and the contents of ino are as they were too.                        *)
SameContents(m, m2, ino) ==
    /\ InodeOf(m2, ino).size = InodeOf(m, ino).size
    /\ Units(m2, ino) = Units(m, ino)

------------------------------------------------------------------------------
LEMMA RetIs ==
    ASSUME NEW m, NEW v, NEW o \in Ret(m, v)
    PROVE  IsOutcome(o) /\ o.m = m /\ o.err = "ok" /\ o.val = v
<1>1. o = [m |-> m, err |-> "ok", val |-> v]
  BY DEF Ret
<1> QED BY <1>1 DEF IsOutcome

LEMMA FailIs ==
    ASSUME NEW m, NEW e, NEW o \in Fail(m, e)
    PROVE  IsOutcome(o) /\ o.m = m /\ o.err = e
<1>1. o = [m |-> m, err |-> e, val |-> <<>>]
  BY DEF Fail
<1> QED BY <1>1 DEF IsOutcome

LEMMA BlockFacts ==
    /\ Super \in Block /\ Root \in Block /\ Map \in Block
    /\ Super = 0 /\ Root = 1 /\ Map = 2 /\ Super # Map /\ Super # Root /\ Root # Map
    /\ 0 \in Block /\ Block \subseteq Nat /\ IsFiniteSet(Block)
    /\ NDirect \in Nat \ {0} /\ DbPerId \in Nat \ {0} /\ Slots \in Nat \ {0}
BY SizeAssumption, FS_Interval DEF Block, Super, Root, Map

LEMMA NoInodeType == NoInode \in Inode
BY BlockFacts DEF NoInode, Inode

LEMMA ContentFacts ==
    ASSUME NEW c \in Content
    PROVE  /\ AsInode(c) \in Inode
           /\ AsIds(c) \in [0 .. DbPerId - 1 -> Block]
           /\ AsUnits(c) \in [0 .. Slots - 1 -> Unit]
<1>1. CASE c \in [k : {"zero", "super"}]
  BY <1>1, NoInodeType, BlockFacts DEF AsInode, AsIds, AsUnits, Unit
<1>2. CASE c \in [k : {"inode"}, i : Inode]
  BY <1>2, BlockFacts DEF AsInode, AsIds, AsUnits, Unit
<1>3. CASE c \in [k : {"ids"}, ids : [0 .. DbPerId - 1 -> Block]]
  BY <1>3, NoInodeType, BlockFacts DEF AsInode, AsIds, AsUnits, Unit
<1>4. CASE c \in [k : {"units"}, us : [0 .. Slots - 1 -> Unit]]
  BY <1>4, NoInodeType, BlockFacts DEF AsInode, AsIds, AsUnits, Unit
<1>5. CASE c \in [k : {"map"}, used : SUBSET Block]
  BY <1>5, NoInodeType, BlockFacts DEF AsInode, AsIds, AsUnits, Unit
<1> QED BY <1>1, <1>2, <1>3, <1>4, <1>5 DEF Content

LEMMA ContentIntro ==
    /\ Cleared \in Content
    /\ \A i \in Inode : InodeBlock(i) \in Content /\ AsInode(InodeBlock(i)) = i
                        /\ InodeBlock(i).k = "inode"
    /\ \A f \in [0 .. DbPerId - 1 -> Block] :
          IdBlock(f) \in Content /\ AsIds(IdBlock(f)) = f /\ IdBlock(f).k = "ids"
    /\ \A u \in [0 .. Slots - 1 -> Unit] :
          UnitBlock(u) \in Content /\ AsUnits(UnitBlock(u)) = u
          /\ UnitBlock(u).k = "units"
    /\ \A s \in SUBSET Block : MapBlock(s) \in Content /\ MapBlock(s).k = "map"
                               /\ MapBlock(s).used = s
BY DEF Content, Cleared, InodeBlock, AsInode, IdBlock, AsIds, UnitBlock, AsUnits,
       MapBlock

LEMMA ClearedFacts ==
    ASSUME NEW c, c.k = "zero"
    PROVE  /\ AsInode(c) = NoInode
           /\ AsIds(c) = [x \in 0 .. DbPerId - 1 |-> 0]
           /\ AsUnits(c) = [x \in 0 .. Slots - 1 |-> Zero]
BY DEF AsInode, AsIds, AsUnits

LEMMA WblockIs ==
    ASSUME NEW m, IsState(m), NEW b \in Block, NEW c \in Content,
           NEW m2, m2 = Wblock(m, b, c)
    PROVE  /\ IsState(m2)
           /\ m2.disk[b] = c /\ \A j \in Block \ {b} : m2.disk[j] = m.disk[j]
           /\ m2.up = m.up /\ m2.used = m.used /\ m2.mapdirty = m.mapdirty
           /\ m2.vn = m.vn /\ m2.lost = m.lost /\ m2.panic = m.panic
BY DEF Wblock, IsState

(* A state in which only the vnodes differ, and one vnode in that. *)
LEMMA VnIs ==
    ASSUME NEW m, IsState(m), NEW ino \in DOMAIN m.vn, NEW v \in Vnode, NEW m2,
           m2 = [m EXCEPT !.vn = [@ EXCEPT ![ino] = v]]
    PROVE  /\ IsState(m2) /\ DOMAIN m2.vn = DOMAIN m.vn
           /\ m2.vn[ino] = v
           /\ \A j \in DOMAIN m.vn \ {ino} : m2.vn[j] = m.vn[j]
           /\ m2.up = m.up /\ m2.used = m.used /\ m2.mapdirty = m.mapdirty
           /\ m2.disk = m.disk /\ m2.lost = m.lost /\ m2.panic = m.panic
<1>1. m2.vn = [m.vn EXCEPT ![ino] = v]
  BY DEF IsState
<1>2. m2.vn \in [DOMAIN m.vn -> Vnode] /\ DOMAIN m2.vn = DOMAIN m.vn
  BY <1>1 DEF IsState
<1> QED BY <1>1, <1>2 DEF IsState

LEMMA SetInodeIs ==
    ASSUME NEW m, IsState(m), NEW ino \in DOMAIN m.vn, NEW i \in Inode,
           NEW m2, m2 = SetInode(m, ino, i)
    PROVE  /\ IsState(m2) /\ DOMAIN m2.vn = DOMAIN m.vn
           /\ m2.vn[ino].i = i /\ m2.vn[ino].dirty
           /\ m2.vn[ino].refcount = m.vn[ino].refcount
           /\ m2.vn[ino].opencount = m.vn[ino].opencount
           /\ \A j \in DOMAIN m.vn \ {ino} : m2.vn[j] = m.vn[j]
           /\ m2.up = m.up /\ m2.used = m.used /\ m2.mapdirty = m.mapdirty
           /\ m2.disk = m.disk /\ m2.lost = m.lost /\ m2.panic = m.panic
<1> DEFINE v == [m.vn[ino] EXCEPT !.i = i, !.dirty = TRUE]
<1>1. m.vn[ino] \in Vnode
  BY DEF IsState
<1>2. /\ v \in Vnode /\ v.i = i /\ v.dirty
      /\ v.refcount = m.vn[ino].refcount /\ v.opencount = m.vn[ino].opencount
  BY <1>1 DEF Vnode
<1>3. SetInode(m, ino, i) = [m EXCEPT !.vn = [@ EXCEPT ![ino] = v]]
  BY <1>1 DEF SetInode, IsState
<1> HIDE DEF v
<1> QED BY <1>2, <1>3, VnIs

(* sfs_balloc *)
LEMMA BallocIs ==
    ASSUME NEW m, IsState(m), NEW o \in Balloc(m)
    PROVE  /\ IsOutcome(o)
           /\ \/ o.err = "ENOSPC" /\ o.m = m
              \/ /\ o.err = "ok"
                 /\ \E b \in Block \ m.used :
                       /\ o.val = <<b>>
                       /\ IsState(o.m)
                       /\ o.m.used = m.used \cup {b} /\ o.m.mapdirty
                       /\ o.m.disk[b] = Cleared
                       /\ \A j \in Block \ {b} : o.m.disk[j] = m.disk[j]
                       /\ o.m.vn = m.vn /\ o.m.up = m.up
                       /\ o.m.lost = m.lost /\ o.m.panic = m.panic
<1> DEFINE free == Block \ m.used
           b == Min(free)
           m1 == [m EXCEPT !.used = @ \union {b}, !.mapdirty = TRUE]
<1>1. CASE free = {}
  BY <1>1, FailIs DEF Balloc
<1>2. CASE free # {}
  <2>1. b \in free
    <3>1. free \in SUBSET Nat
      BY BlockFacts
    <3> HIDE DEF free
    <3>2. PICK x \in free : \A y \in free : x <= y
      BY <1>2, <3>1, Least
    <3> QED BY <3>2 DEF Min
  <2>2. o \in Ret(Wblock(m1, b, Cleared), <<b>>)
    BY <1>2 DEF Balloc
  <2>3. b \in Block \ m.used
    BY <2>1
  <2> HIDE DEF b, free
  <2>4. /\ IsState(m1) /\ m1.used = m.used \cup {b} /\ m1.mapdirty
        /\ m1.vn = m.vn /\ m1.up = m.up /\ m1.lost = m.lost
        /\ m1.panic = m.panic /\ m1.disk = m.disk
    BY <2>3 DEF IsState
  <2>5. IsOutcome(o) /\ o.m = Wblock(m1, b, Cleared) /\ o.err = "ok" /\ o.val = <<b>>
    BY <2>2, RetIs
  <2> HIDE DEF m1
  <2>6. Cleared \in Content
    BY ContentIntro
  <2>7. /\ IsState(o.m) /\ o.m.disk[b] = Cleared
        /\ \A j \in Block \ {b} : o.m.disk[j] = m1.disk[j]
        /\ o.m.up = m1.up /\ o.m.used = m1.used /\ o.m.mapdirty = m1.mapdirty
        /\ o.m.vn = m1.vn /\ o.m.lost = m1.lost /\ o.m.panic = m1.panic
    <3>1. b \in Block
      BY <2>3
    <3>2. IsState(m1)
      BY <2>4
    <3>3. o.m = Wblock(m1, b, Cleared)
      BY <2>5
    <3> QED BY <2>6, <3>1, <3>2, <3>3, WblockIs
  <2>8. /\ o.val = <<b>>
        /\ IsState(o.m)
        /\ o.m.used = m.used \cup {b} /\ o.m.mapdirty
        /\ o.m.disk[b] = Cleared
        /\ \A j \in Block \ {b} : o.m.disk[j] = m.disk[j]
        /\ o.m.vn = m.vn /\ o.m.up = m.up
        /\ o.m.lost = m.lost /\ o.m.panic = m.panic
    BY <2>4, <2>5, <2>7
  <2> QED BY <2>3, <2>5, <2>8
<1> QED BY <1>1, <1>2
------------------------------------------------------------------------------
LEMMA PlaceIs ==
    /\ NDirect \in Place
    /\ \A x \in 0 .. NDirect - 1 : x \in DataPlace
    /\ \A x \in 0 .. DbPerId - 1 : NDirect + 1 + x \in DataPlace
    /\ \A p \in Place : \/ p \in 0 .. NDirect - 1
                         \/ p = NDirect
                         \/ \E x \in 0 .. DbPerId - 1 : p = NDirect + 1 + x
<1>1. ASSUME NEW p \in Place, p \notin 0 .. NDirect - 1, p # NDirect
      PROVE  \E x \in 0 .. DbPerId - 1 : p = NDirect + 1 + x
  <2>1. p - NDirect - 1 \in 0 .. DbPerId - 1 /\ p = NDirect + 1 + (p - NDirect - 1)
    BY <1>1, BlockFacts DEF Place
  <2> QED BY <2>1
<1> QED BY <1>1, BlockFacts DEF Place, DataPlace

LEMMA InodeOfIs ==
    ASSUME NEW m, IsState(m), NEW i \in Block
    PROVE  /\ InodeOf(m, i) \in Inode
           /\ i \in DOMAIN m.vn => InodeOf(m, i) = m.vn[i].i
           /\ i \notin DOMAIN m.vn => InodeOf(m, i) = AsInode(m.disk[i])
<1>1. m.disk[i] \in Content
  BY DEF IsState
<1>2. AsInode(m.disk[i]) \in Inode
  BY <1>1, ContentFacts
<1>3. i \in DOMAIN m.vn => m.vn[i] \in Vnode
  BY DEF IsState
<1> QED BY <1>2, <1>3 DEF InodeOf, Vnode

LEMMA BlocksAre ==
    ASSUME NEW m, IsState(m), NEW i \in Block
    PROVE  /\ Blocks(m, i) \in [Place -> Block]
           /\ \A x \in 0 .. NDirect - 1 : Blocks(m, i)[x] = InodeOf(m, i).direct[x]
           /\ Blocks(m, i)[NDirect] = InodeOf(m, i).indirect
           /\ \A x \in 0 .. DbPerId - 1 :
                 Blocks(m, i)[NDirect + 1 + x] =
                     IF InodeOf(m, i).indirect = 0 THEN 0
                     ELSE AsIds(m.disk[InodeOf(m, i).indirect])[x]
<1> DEFINE n == InodeOf(m, i)
           ids == AsIds(m.disk[n.indirect])
           B(x) == IF x < NDirect THEN n.direct[x]
                   ELSE IF x = NDirect THEN n.indirect
                   ELSE IF n.indirect = 0 THEN 0 ELSE ids[x - NDirect - 1]
<1>1. n \in Inode
  BY InodeOfIs
<1>2. n.indirect \in Block /\ n.direct \in [0 .. NDirect - 1 -> Block]
  BY <1>1 DEF Inode
<1>3. ids \in [0 .. DbPerId - 1 -> Block]
  <2>1. m.disk[n.indirect] \in Content
    BY <1>2 DEF IsState
  <2> QED BY <2>1, ContentFacts
<1>4. Blocks(m, i) = [x \in Place |-> B(x)]
  BY DEF Blocks, Place
<1> HIDE DEF n, ids
<1>5. /\ \A x \in 0 .. NDirect - 1 : B(x) = n.direct[x] /\ B(x) \in Block
      /\ B(NDirect) = n.indirect
      /\ \A x \in 0 .. DbPerId - 1 :
            /\ B(NDirect + 1 + x) = IF n.indirect = 0 THEN 0 ELSE ids[x]
            /\ B(NDirect + 1 + x) \in Block
  <2>1. ASSUME NEW x \in 0 .. NDirect - 1
        PROVE  B(x) = n.direct[x] /\ B(x) \in Block
    BY <1>2, BlockFacts
  <2>2. B(NDirect) = n.indirect
    BY BlockFacts
  <2>3. ASSUME NEW x \in 0 .. DbPerId - 1
        PROVE  /\ B(NDirect + 1 + x) = IF n.indirect = 0 THEN 0 ELSE ids[x]
               /\ B(NDirect + 1 + x) \in Block
    <3>1. /\ NDirect + 1 + x - NDirect - 1 = x /\ ~(NDirect + 1 + x < NDirect)
          /\ NDirect + 1 + x # NDirect
      BY BlockFacts
    <3> QED BY <1>3, <3>1, BlockFacts
  <2> QED BY <2>1, <2>2, <2>3
<1> HIDE DEF B
<1>6. ASSUME NEW x \in Place PROVE B(x) \in Block
  BY <1>2, <1>5, PlaceIs
<1> QED BY <1>4, <1>5, <1>6, PlaceIs DEF n, ids, DataPlace

(* f is the table of the blocks of inode n. *)
Tabled(m, f, n) ==
    /\ \A x \in 0 .. NDirect - 1 : f[x] = n.direct[x]
    /\ f[NDirect] = n.indirect
    /\ \A x \in 0 .. DbPerId - 1 :
          f[NDirect + 1 + x] = IF n.indirect = 0 THEN 0
                               ELSE AsIds(m.disk[n.indirect])[x]

LEMMA TabledIs ==
    ASSUME NEW m, IsState(m), NEW i \in Block, NEW n, InodeOf(m, i) = n
    PROVE  Tabled(m, Blocks(m, i), n)
BY BlocksAre DEF Tabled

(* The blocks of an inode change with it or with its indirect block only.   *)
LEMMA BlocksSame ==
    ASSUME NEW m, IsState(m), NEW m2, IsState(m2), NEW i \in Block,
           InodeOf(m2, i) = InodeOf(m, i),
           InodeOf(m, i).indirect # 0 =>
               m2.disk[InodeOf(m, i).indirect] = m.disk[InodeOf(m, i).indirect]
    PROVE  Blocks(m2, i) = Blocks(m, i)
BY DEF Blocks

LEMMA UnitsAre ==
    ASSUME NEW m, IsState(m), NEW i \in Block, InodeOf(m, i).size <= MaxSize
    PROVE  /\ InodeOf(m, i).size \in Nat
           /\ DOMAIN Units(m, i) = 1 .. InodeOf(m, i).size
           /\ \A u \in 1 .. InodeOf(m, i).size :
                 /\ UnitPlace(u) \in DataPlace /\ (u - 1) % Slots \in 0 .. Slots - 1
                 /\ Units(m, i)[u] = Cont(m, i, UnitPlace(u))[(u - 1) % Slots]
<1> DEFINE s == InodeOf(m, i).size
<1>1. s \in Nat
  BY InodeOfIs DEF Inode
<1>2. ASSUME NEW u \in 1 .. s
      PROVE  UnitPlace(u) \in DataPlace /\ (u - 1) % Slots \in 0 .. Slots - 1
  <2>1. u - 1 \in Nat /\ u - 1 < (NDirect + DbPerId) * Slots
    BY <1>1, BlockFacts DEF MaxSize
  <2>2. (u - 1) \div Slots \in Nat /\ (u - 1) % Slots \in 0 .. Slots - 1
    BY <2>1, BlockFacts
  <2>3. (u - 1) \div Slots < NDirect + DbPerId
    BY <2>1, BlockFacts
  <2> QED BY <2>2, <2>3, BlockFacts DEF UnitPlace, FbPlace, DataPlace, Place
<1>3. ASSUME NEW u \in 1 .. s
      PROVE  Units(m, i)[u] = Cont(m, i, UnitPlace(u))[(u - 1) % Slots]
  BY <1>2 DEF Units, Cont, UnitPlace, FbPlace
<1> QED BY <1>1, <1>2, <1>3 DEF Units

LEMMA HeldIs ==
    ASSUME NEW m, IsState(m), NEW i \in Block
    PROVE  /\ Held(m, i) \subseteq Block \ {0}
           /\ \A x \in Place : Blocks(m, i)[x] # 0 => Blocks(m, i)[x] \in Held(m, i)
           /\ InodeOf(m, i).indirect # 0 => InodeOf(m, i).indirect \in Held(m, i)
           /\ \A b \in Held(m, i) : \E x \in Place : b = Blocks(m, i)[x] /\ b # 0
BY BlocksAre, PlaceIs DEF Held, BlocksIn

(* Equal contents at every place are equal files.                           *)
LEMMA UnitsSame ==
    ASSUME NEW m, IsState(m), NEW m2, IsState(m2), NEW i \in Block,
           InodeOf(m, i).size <= MaxSize,
           InodeOf(m2, i).size = InodeOf(m, i).size,
           \A x \in DataPlace : Cont(m2, i, x) = Cont(m, i, x)
    PROVE  Units(m2, i) = Units(m, i)
<1>1. \A u \in 1 .. InodeOf(m, i).size : Units(m2, i)[u] = Units(m, i)[u]
  BY UnitsAre
<1>2. /\ DOMAIN Units(m, i) = 1 .. InodeOf(m, i).size
      /\ DOMAIN Units(m2, i) = 1 .. InodeOf(m, i).size
  BY UnitsAre
<1> QED BY <1>1, <1>2 DEF Units

(* An inode is as it was if neither it nor its blocks are changed.          *)
LEMMA InodeKept ==
    ASSUME NEW m, IsState(m), NEW m2, IsState(m2), NEW i \in Block,
           WellFormed(m, i), InodeOf(m2, i) = InodeOf(m, i),
           i \notin DOMAIN m2.vn => m2.disk[i].k = "inode",
           \A b \in Held(m, i) : m2.disk[b] = m.disk[b]
    PROVE  SameFile(m, m2, i)
<1>1. Blocks(m2, i) = Blocks(m, i)
  BY HeldIs, BlocksSame
<1>2. Held(m2, i) = Held(m, i)
  BY <1>1 DEF Held
<1>3. \A x \in Place : Blocks(m, i)[x] # 0 =>
          m2.disk[Blocks(m, i)[x]] = m.disk[Blocks(m, i)[x]]
  BY HeldIs
<1>4. WellFormed(m2, i)
  BY <1>1, <1>3, HeldIs DEF WellFormed, DataPlace
<1>5. \A x \in DataPlace : Cont(m2, i, x) = Cont(m, i, x)
  BY <1>1, <1>3 DEF Cont, DataPlace
<1>6. InodeOf(m, i).size <= MaxSize
  BY DEF WellFormed
<1>7. Units(m2, i) = Units(m, i)
  BY <1>5, <1>6, UnitsSame
<1> QED BY <1>1, <1>2, <1>4, <1>7 DEF SameFile

(* The inode `ino` trades blocks with H, or gives some of them up; the      *)
(* others do not notice.                                                    *)
Trade(m, m2, H, H2, ino) ==
    /\ IsState(m2) /\ m2.panic = "no" /\ DOMAIN m2.vn = DOMAIN m.vn
    /\ \A j \in DOMAIN m.vn \ {ino} : m2.vn[j] = m.vn[j]
    /\ \A b \in Block : b \notin H \cup Held(m, ino) => m2.disk[b] = m.disk[b]
    /\ H2 \cap Held(m2, ino) = {}
    /\ H2 \cup Held(m2, ino) \subseteq H \cup Held(m, ino)
    /\ m2.used = (m.used \ (H \cup Held(m, ino))) \cup H2 \cup Held(m2, ino)
    /\ m2.vn[ino].dirty \/ m2.vn[ino] = m.vn[ino]
    /\ m2.mapdirty \/ (m2.mapdirty = m.mapdirty /\ m2.used = m.used)
    /\ WellFormed(m2, ino)

LEMMA Update ==
    ASSUME NEW m, NEW L, NEW H, Sound(m, L, H), NEW ino \in DOMAIN m.vn,
           NEW m2, NEW H2, Trade(m, m2, H, H2, ino)
    PROVE  Updated(m, m2, L, H2, ino)
<1> DEFINE P == H \cup Held(m, ino)
           P2 == H2 \cup Held(m2, ino)
<1>0. Trade(m, m2, H, H2, ino)
  OBVIOUS
<1>1. /\ IsState(m) /\ L \subseteq Block /\ H \subseteq Block /\ Root \in L
      /\ DOMAIN m.vn \subseteq L /\ ino \in L /\ ino \in Block
  BY DEF Sound
<1>2. Divided(m, L, H) /\ Truthful(m) /\ \A i \in L : WellFormed(m, i)
  BY DEF Sound
<1>3. /\ Super \notin P /\ Map \notin P /\ L \cap P = {}
      /\ \A j \in L \ {ino} : Held(m, j) \cap P = {}
      /\ P \subseteq Block
  BY <1>1, <1>2, HeldIs DEF Divided
<1>4. ASSUME NEW j \in L \ {ino}
      PROVE  /\ InodeOf(m2, j) = InodeOf(m, j) /\ Held(m2, j) = Held(m, j)
             /\ Units(m2, j) = Units(m, j) /\ WellFormed(m2, j)
             /\ m2.disk[j] = m.disk[j]
  <2>1. j \in Block /\ m2.disk[j] = m.disk[j]
    BY <1>1, <1>3 DEF Trade
  <2>2. InodeOf(m2, j) = InodeOf(m, j)
    BY <2>1 DEF InodeOf, Trade
  <2>3. \A b \in Held(m, j) : m2.disk[b] = m.disk[b]
    BY <1>1, <1>3, <2>1, HeldIs DEF Trade
  <2>4. WellFormed(m, j)
    BY <1>2
  <2>5. j \notin DOMAIN m2.vn => m2.disk[j].k = "inode"
    BY <2>1, <2>4 DEF WellFormed, Trade
  <2>6. IsState(m) /\ IsState(m2) /\ j \in Block
    BY <1>1, <2>1 DEF Trade
  <2>7. SameFile(m, m2, j)
    BY <2>2, <2>3, <2>4, <2>5, <2>6, InodeKept
  <2> QED BY <2>1, <2>7 DEF SameFile
<1>5. H2 \subseteq Block /\ P2 \subseteq P /\ H2 \cap Held(m2, ino) = {}
  BY <1>3 DEF Trade
<1>6. Divided(m2, L, H2)
  <2>1. ASSUME NEW b \in Block
        PROVE  b \in m2.used <=> \/ b \in {Super, Map} \/ b \in L \/ b \in H2
                                 \/ \E i \in L : b \in Held(m2, i)
    <3>1. b \in m.used <=> \/ b \in {Super, Map} \/ b \in L \/ b \in P
                           \/ \E i \in L \ {ino} : b \in Held(m, i)
      BY <1>1, <1>2 DEF Divided
    <3>2. b \in m2.used <=> (b \in m.used /\ b \notin P) \/ b \in P2
      BY DEF Trade
    <3>3. (\E i \in L : b \in Held(m2, i))
            <=> \/ b \in Held(m2, ino) \/ \E i \in L \ {ino} : b \in Held(m, i)
      BY <1>1, <1>4
    <3> QED BY <1>3, <3>1, <3>2, <3>3
  <2>2. P2 \subseteq P /\ H2 \cap Held(m2, ino) = {}
    BY <1>5
  <2>3. \A i \in L : Held(m2, i) \cap ({Super, Map} \cup L \cup H2) = {}
    <3>1. ASSUME NEW i \in L \ {ino}
          PROVE  Held(m2, i) \cap ({Super, Map} \cup L \cup H2) = {}
      BY <1>2, <1>3, <1>4, <2>2 DEF Divided
    <3>2. Held(m2, ino) \cap ({Super, Map} \cup L \cup H2) = {}
      BY <1>3, <2>2
    <3> QED BY <3>1, <3>2
  <2>4. ASSUME NEW i \in L, NEW j \in L, i # j
        PROVE  Held(m2, i) \cap Held(m2, j) = {}
    <3>1. CASE i = ino
      BY <1>3, <1>4, <2>2, <2>4, <3>1
    <3>2. CASE j = ino
      BY <1>3, <1>4, <2>2, <2>4, <3>2
    <3>3. CASE i # ino /\ j # ino
      <4>1. Held(m, i) \cap Held(m, j) = {}
        BY <1>2, <2>4 DEF Divided
      <4> QED BY <1>4, <3>3, <4>1
    <3> QED BY <3>1, <3>2, <3>3
  <2>5. {Super, Map} \cap L = {} /\ {Super, Map} \cap H2 = {} /\ L \cap H2 = {}
    <3>1. {Super, Map} \cap L = {}
      BY <1>2 DEF Divided
    <3> QED BY <1>3, <2>2, <3>1
  <2> HIDE DEF P, P2
  <2> QED BY <2>1, <2>3, <2>4, <2>5 DEF Divided
<1>7. \A i \in L : WellFormed(m2, i)
  BY <1>4 DEF Trade
<1>8. /\ m2.disk[Super] = m.disk[Super] /\ m2.disk[Map] = m.disk[Map]
      /\ m2.disk[ino] = m.disk[ino]
  BY <1>1, <1>3, BlockFacts DEF Trade
<1>9. Truthful(m2)
  BY <1>1, <1>2, <1>4, <1>8 DEF Truthful, Trade
<1>10. Sound(m2, L, H2)
  BY <1>1, <1>5, <1>6, <1>7, <1>8, <1>9 DEF Sound, Trade
<1> QED BY <1>1, <1>4, <1>10 DEF Updated

(* Inodes are loaded, let go, counted or written to their blocks.           *)
LEMMA SameInodes ==
    ASSUME NEW m, NEW L, NEW H, Sound(m, L, H),
           NEW m2, IsState(m2), m2.panic = "no", m2.used = m.used,
           DOMAIN m2.vn \subseteq L,
           \A i \in L : InodeOf(m2, i) = InodeOf(m, i),
           \A i \in L \ DOMAIN m2.vn : m2.disk[i].k = "inode",
           \A b \in Block \ L : b # Map => m2.disk[b] = m.disk[b],
           m2.disk[Map].k = "map", Truthful(m2)
    PROVE  SameFiles(m, m2, L, H)
<1>1. /\ IsState(m) /\ L \subseteq Block /\ H \subseteq Block /\ Root \in L
      /\ Divided(m, L, H) /\ \A i \in L : WellFormed(m, i)
      /\ m.disk[Super].k = "super"
  BY DEF Sound
<1>2. \A i \in L : Held(m, i) \subseteq Block /\ Held(m, i) \cap ({Super, Map} \cup L) = {}
  BY <1>1, HeldIs DEF Divided
<1>3. ASSUME NEW i \in L PROVE SameFile(m, m2, i)
  <2>1. i \in Block /\ WellFormed(m, i) /\ InodeOf(m2, i) = InodeOf(m, i)
    BY <1>1
  <2>2. \A b \in Held(m, i) : m2.disk[b] = m.disk[b]
    BY <1>2
  <2>3. i \notin DOMAIN m2.vn => m2.disk[i].k = "inode"
    OBVIOUS
  <2>4. IsState(m)
    BY <1>1
  <2> QED BY <2>1, <2>2, <2>3, <2>4, InodeKept
<1>4. \A i \in L : Held(m2, i) = Held(m, i) /\ WellFormed(m2, i)
  BY <1>3 DEF SameFile
<1>5. Divided(m2, L, H)
  BY <1>1, <1>4 DEF Divided
<1>6. Super \in Block /\ Super \notin L /\ Super # Map
  <2>1. {Super, Map} \cap L = {}
    BY <1>1 DEF Divided
  <2> QED BY <2>1, BlockFacts
<1>7. m2.disk[Super].k = "super"
  BY <1>1, <1>6
<1>8. Sound(m2, L, H)
  BY <1>1, <1>4, <1>5, <1>7 DEF Sound
<1> QED BY <1>3, <1>8 DEF SameFiles

(* Block b was free and is cleared; nothing refers to it yet.               *)
Balloced(m, m2, L, H, b) ==
    /\ SameFiles(m, m2, L, H \cup {b})
    /\ m2.disk[b] = Cleared /\ \A j \in Block \ {b} : m2.disk[j] = m.disk[j]
    /\ m2.vn = m.vn /\ m2.up = m.up /\ m2.lost = m.lost /\ m2.mapdirty

LEMMA BallocSound ==
    ASSUME NEW m, NEW L, NEW H, Sound(m, L, H), NEW o \in Balloc(m)
    PROVE  /\ IsOutcome(o)
           /\ \/ o.err = "ENOSPC" /\ o.m = m
              \/ o.err = "ok" /\ \E b \in Block \ m.used :
                                     o.val = <<b>> /\ Balloced(m, o.m, L, H, b)
<1>1. /\ IsState(m) /\ L \subseteq Block /\ H \subseteq Block /\ Root \in L
      /\ Divided(m, L, H) /\ \A i \in L : WellFormed(m, i)
      /\ m.disk[Super].k = "super" /\ m.disk[Map].k = "map" /\ m.panic = "no"
      /\ DOMAIN m.vn \subseteq L /\ Truthful(m)
  BY DEF Sound
<1>2. ASSUME NEW b \in Block \ m.used, NEW m2, IsState(m2),
             m2.used = m.used \cup {b}, m2.mapdirty,
             m2.disk[b] = Cleared, \A j \in Block \ {b} : m2.disk[j] = m.disk[j],
             m2.vn = m.vn, m2.panic = m.panic
      PROVE  SameFiles(m, m2, L, H \cup {b})
  <2>1. /\ b \in Block /\ b # Super /\ b # Map /\ b \notin L /\ b \notin H
        /\ \A i \in L : b \notin Held(m, i)
    BY <1>1 DEF Divided
  <2>2. ASSUME NEW i \in L PROVE SameFile(m, m2, i)
    <3>1. i \in Block /\ WellFormed(m, i) /\ m2.disk[i] = m.disk[i]
      BY <1>1, <1>2, <2>1
    <3>2. InodeOf(m2, i) = InodeOf(m, i)
      BY <1>2, <3>1 DEF InodeOf
    <3>3. \A c \in Held(m, i) : m2.disk[c] = m.disk[c]
      BY <1>1, <1>2, <2>1, <3>1, HeldIs
    <3>4. i \notin DOMAIN m2.vn => m2.disk[i].k = "inode"
      BY <1>2, <3>1 DEF WellFormed
    <3>5. IsState(m) /\ IsState(m2)
      BY <1>1, <1>2
    <3> QED BY <3>1, <3>2, <3>3, <3>4, <3>5, InodeKept
  <2>3. \A i \in L : Held(m2, i) = Held(m, i) /\ WellFormed(m2, i)
    BY <2>2 DEF SameFile
  <2>4. Divided(m2, L, H \cup {b})
    <3>1. /\ \A c \in Block : c \in m.used <=> \/ c \in {Super, Map} \/ c \in L \/ c \in H
                                         \/ \E i \in L : c \in Held(m, i)
          /\ {Super, Map} \cap L = {} /\ {Super, Map} \cap H = {} /\ L \cap H = {}
          /\ \A i \in L : Held(m, i) \cap ({Super, Map} \cup L \cup H) = {}
          /\ \A i, j \in L : i # j => Held(m, i) \cap Held(m, j) = {}
      BY <1>1 DEF Divided
    <3>2. \A c \in Block : c \in m2.used <=> \/ c \in {Super, Map} \/ c \in L
                                   \/ c \in H \cup {b} \/ \E i \in L : c \in Held(m2, i)
      BY <1>2, <2>3, <3>1
    <3>3. \A i \in L : Held(m2, i) \cap ({Super, Map} \cup L \cup (H \cup {b})) = {}
      BY <2>1, <2>3, <3>1
    <3>4. \A i, j \in L : i # j => Held(m2, i) \cap Held(m2, j) = {}
      BY <2>3, <3>1
    <3>5. {Super, Map} \cap (H \cup {b}) = {} /\ L \cap (H \cup {b}) = {}
      BY <2>1, <3>1
    <3> QED BY <3>1, <3>2, <3>3, <3>4, <3>5 DEF Divided
  <2>5. /\ m2.disk[Super] = m.disk[Super] /\ m2.disk[Map] = m.disk[Map]
        /\ \A i \in DOMAIN m.vn : m2.disk[i] = m.disk[i]
    BY <1>1, <1>2, <2>1, BlockFacts
  <2>6. Truthful(m2)
    BY <1>1, <1>2, <2>5 DEF Truthful
  <2>7. Sound(m2, L, H \cup {b})
    BY <1>1, <1>2, <2>3, <2>4, <2>5, <2>6 DEF Sound
  <2> QED BY <2>2, <2>7 DEF SameFiles
<1>3. CASE o.err # "ok"
  BY <1>1, <1>3, BallocIs
<1>4. CASE o.err = "ok"
  <2>1. PICK b \in Block \ m.used :
           /\ o.val = <<b>>
           /\ IsState(o.m)
           /\ o.m.used = m.used \cup {b} /\ o.m.mapdirty
           /\ o.m.disk[b] = Cleared
           /\ \A j \in Block \ {b} : o.m.disk[j] = m.disk[j]
           /\ o.m.vn = m.vn /\ o.m.up = m.up
           /\ o.m.lost = m.lost /\ o.m.panic = m.panic
    BY <1>1, <1>4, BallocIs
  <2>2. SameFiles(m, o.m, L, H \cup {b})
    BY <1>2, <2>1
  <2>3. IsOutcome(o)
    BY <1>1, BallocIs
  <2>4. Balloced(m, o.m, L, H, b)
    BY <2>1, <2>2 DEF Balloced
  <2> QED BY <1>4, <2>1, <2>3, <2>4
<1> QED BY <1>3, <1>4

(* A table with one more entry.                                             *)
LEMMA OneMore ==
    ASSUME NEW f, NEW g, NEW p \in Place, NEW b, b # 0, f[p] = 0,
           g[p] = b, \A x \in Place \ {p} : g[x] = f[x],
           \A x \in Place : f[x] # b,
           Distinct(f)
    PROVE  BlocksIn(g) = BlocksIn(f) \cup {b} /\ Distinct(g)
<1>1. ASSUME NEW c, c # 0
      PROVE  (\E x \in Place : g[x] = c) <=> (c = b \/ \E x \in Place : f[x] = c)
  <2>1. CASE c = b
    <3>1. g[p] = c
      BY <2>1
    <3> QED BY <2>1, <3>1
  <2>2. CASE c # b
    <3>1. ASSUME NEW x \in Place, f[x] = c PROVE g[x] = c
      BY <1>1, <2>2, <3>1
    <3>2. ASSUME NEW x \in Place, g[x] = c PROVE f[x] = c
      BY <1>1, <2>2, <3>2
    <3> QED BY <2>2, <3>1, <3>2
  <2> QED BY <2>1, <2>2
<1>2. BlocksIn(g) = BlocksIn(f) \cup {b}
  BY <1>1 DEF BlocksIn
<1>3. ASSUME NEW x \in Place, NEW y \in Place, g[x] = g[y], g[x] # 0
      PROVE  x = y
  <2>1. CASE x = p \/ y = p
    BY <1>3, <2>1
  <2>2. CASE x # p /\ y # p
    <3>1. f[x] = f[y] /\ f[x] # 0
      BY <1>3, <2>2
    <3> QED BY <3>1 DEF Distinct
  <2> QED BY <2>1, <2>2
<1> QED BY <1>2, <1>3 DEF Distinct

(* A cleared block of H becomes one of the inode's.                         *)
Attaches(m, m2, ino, p, b) ==
    /\ IsState(m2) /\ m2.panic = "no" /\ m2.used = m.used
    /\ m2.mapdirty = m.mapdirty /\ DOMAIN m2.vn = DOMAIN m.vn
    /\ \A j \in DOMAIN m.vn \ {ino} : m2.vn[j] = m.vn[j]
    /\ m2.vn[ino].dirty \/ m2.vn[ino] = m.vn[ino]
    /\ InodeOf(m2, ino).type = InodeOf(m, ino).type
    /\ InodeOf(m2, ino).size = InodeOf(m, ino).size
    /\ m2.disk[0] = m.disk[0]
    /\ \A c \in Block : c = InodeOf(m, ino).indirect \/ m2.disk[c] = m.disk[c]
    /\ InodeOf(m2, ino).indirect # 0 =>
          m2.disk[InodeOf(m2, ino).indirect].k \in {"zero", "ids"}
    /\ Blocks(m, ino)[p] = 0 /\ Blocks(m2, ino)[p] = b
    /\ \A x \in Place \ {p} : Blocks(m2, ino)[x] = Blocks(m, ino)[x]

LEMMA Attach ==
    ASSUME NEW m, NEW L, NEW H, Sound(m, L, H), NEW ino \in DOMAIN m.vn,
           NEW p \in Place, NEW b \in H, m.disk[b].k = "zero",
           NEW m2, Attaches(m, m2, ino, p, b)
    PROVE  /\ Updated(m, m2, L, H \ {b}, ino)
           /\ Units(m2, ino) = Units(m, ino)
<1> DEFINE f == Blocks(m, ino)
           g == Blocks(m2, ino)
<1>1. /\ IsState(m) /\ L \subseteq Block /\ H \subseteq Block /\ ino \in L
      /\ ino \in Block /\ Divided(m, L, H) /\ WellFormed(m, ino)
  BY DEF Sound
<1>2. /\ b \in Block /\ b # 0 /\ b \notin Held(m, ino) /\ H \cap Held(m, ino) = {}
  BY <1>1, BlockFacts DEF Divided
<1>3. f \in [Place -> Block] /\ f[NDirect] = InodeOf(m, ino).indirect
  BY <1>1, BlocksAre
<1>4. Distinct(f)
  BY <1>1 DEF WellFormed
<1>5. /\ \A x \in Place : f[x] # 0 => f[x] \in Held(m, ino)
      /\ InodeOf(m, ino).indirect # 0 => InodeOf(m, ino).indirect \in Held(m, ino)
      /\ Held(m, ino) \subseteq Block \ {0}
  BY <1>1, HeldIs
<1>6. f[p] = 0 /\ g[p] = b /\ \A x \in Place \ {p} : g[x] = f[x]
  BY DEF Attaches
<1>7. \A x \in Place : f[x] # b
  BY <1>2, <1>5
<1> HIDE DEF f, g
<1>8. BlocksIn(g) = BlocksIn(f) \cup {b} /\ Distinct(g)
  BY <1>2, <1>4, <1>6, <1>7, OneMore
<1>9. Held(m2, ino) = Held(m, ino) \cup {b}
  BY <1>8 DEF f, g, Held
<1>10. /\ m2.disk[0] = m.disk[0]
       /\ \A c \in Block : c = InodeOf(m, ino).indirect \/ m2.disk[c] = m.disk[c]
  BY DEF Attaches
<1>11. ASSUME NEW x \in DataPlace, f[x] # 0
       PROVE  x # p /\ m2.disk[f[x]] = m.disk[f[x]]
  <2>1. x \in Place /\ x # NDirect /\ NDirect \in Place
    BY PlaceIs DEF DataPlace
  <2>2. f[x] # f[NDirect]
    BY <1>4, <1>11, <2>1 DEF Distinct
  <2> QED BY <1>3, <1>6, <1>10, <1>11, <2>1, <2>2
<1>12. m2.disk[b] = m.disk[b]
  <2>1. b # InodeOf(m, ino).indirect
    BY <1>2, <1>5
  <2> QED BY <1>2, <1>10, <2>1
<1>13. WellFormed(m2, ino)
  <2>1. ASSUME NEW x \in DataPlace, g[x] # 0
        PROVE  m2.disk[g[x]].k \in {"zero", "units"}
    <3>1. CASE x = p
      BY <1>6, <1>12, <3>1
    <3>2. CASE x # p
      <4>1. g[x] = f[x]
        BY <1>6, <3>2 DEF DataPlace
      <4>2. m.disk[f[x]].k \in {"zero", "units"}
        BY <1>1, <2>1, <4>1 DEF WellFormed, f
      <4> QED BY <1>11, <2>1, <4>1, <4>2
    <3> QED BY <3>1, <3>2
  <2>2. InodeOf(m2, ino).type # "invalid" /\ InodeOf(m2, ino).size <= MaxSize
    BY <1>1 DEF WellFormed, Attaches
  <2>3. /\ ino \in DOMAIN m2.vn
        /\ InodeOf(m2, ino).indirect # 0 =>
              m2.disk[InodeOf(m2, ino).indirect].k \in {"zero", "ids"}
    BY DEF Attaches
  <2> QED BY <1>8, <2>1, <2>2, <2>3 DEF WellFormed, g
<1>14. Units(m2, ino) = Units(m, ino)
  <2>1. ASSUME NEW x \in DataPlace PROVE Cont(m2, ino, x) = Cont(m, ino, x)
    <3>1. x \in Place
      BY DEF DataPlace
    <3>2. CASE x = p
      <4>1. AsUnits(m2.disk[b]) = [y \in 0 .. Slots - 1 |-> Zero]
        BY <1>12, ClearedFacts
      <4> QED BY <1>2, <1>6, <3>2, <4>1 DEF Cont, f, g
    <3>3. CASE x # p
      <4>1. g[x] = f[x]
        BY <1>6, <3>1, <3>3
      <4>2. f[x] # 0 => m2.disk[f[x]] = m.disk[f[x]]
        BY <1>11
      <4> QED BY <4>1, <4>2 DEF Cont, f, g
    <3> QED BY <3>2, <3>3
  <2>2. InodeOf(m, ino).size <= MaxSize
    BY <1>1 DEF WellFormed
  <2>3. IsState(m2) /\ InodeOf(m2, ino).size = InodeOf(m, ino).size
    BY DEF Attaches
  <2> QED BY <1>1, <2>1, <2>2, <2>3, UnitsSame
<1>15. Updated(m, m2, L, H \ {b}, ino)
  <2>1. Trade(m, m2, H, H \ {b}, ino)
    <3>1. \A c \in Block : c \notin H \cup Held(m, ino) => m2.disk[c] = m.disk[c]
      BY <1>5, <1>10
    <3>2. /\ (H \ {b}) \cap Held(m2, ino) = {}
          /\ (H \ {b}) \cup Held(m2, ino) = H \cup Held(m, ino)
      BY <1>2, <1>9
    <3>3. H \cup Held(m, ino) \subseteq m.used
      BY <1>1, <1>5 DEF Divided
    <3>4. m2.used = (m.used \ (H \cup Held(m, ino))) \cup (H \ {b}) \cup Held(m2, ino)
      <4>1. m2.used = m.used
        BY DEF Attaches
      <4> QED BY <3>2, <3>3, <4>1
    <3> QED BY <1>13, <3>1, <3>2, <3>4 DEF Trade, Attaches
  <2> QED BY <2>1, Update
<1> QED BY <1>14, <1>15

LEMMA DidNothing ==
    ASSUME NEW m, NEW L, NEW H, Sound(m, L, H), NEW ino
    PROVE  Did(m, m, L, H, ino) /\ SameContents(m, m, ino)
BY DEF Did, SameContents

LEMMA DidTrans ==
    ASSUME NEW m, NEW m1, NEW m2, NEW L, NEW H1, NEW H2, NEW ino \in DOMAIN m.vn,
           Did(m, m1, L, H1, ino), Did(m1, m2, L, H2, ino)
    PROVE  Did(m, m2, L, H2, ino)
BY DEF Did

LEMMA SameContentsTrans ==
    ASSUME NEW m, NEW m1, NEW m2, NEW ino,
           SameContents(m, m1, ino), SameContents(m1, m2, ino)
    PROVE  SameContents(m, m2, ino)
BY DEF SameContents

LEMMA DidBalloc ==
    ASSUME NEW m, NEW L, NEW H, Sound(m, L, H), NEW ino \in DOMAIN m.vn,
           NEW m2, NEW H2, SameFiles(m, m2, L, H2),
           m2.vn = m.vn, m2.up = m.up, m2.lost = m.lost
    PROVE  Did(m, m2, L, H2, ino) /\ SameContents(m, m2, ino)
<1>1. ino \in L
  BY DEF Sound
<1>2. Sound(m2, L, H2) /\ \A i \in L : InodeOf(m2, i) = InodeOf(m, i) /\ Units(m2, i) = Units(m, i)
  BY DEF SameFiles, SameFile
<1> QED BY <1>1, <1>2 DEF Did, SameContents

(* sfs_rblock of a block that is what it is taken for *)
LEMMA RblockIs ==
    ASSUME NEW m, NEW b, NEW kind, m.disk[b].k \in {"zero", kind},
           NEW o \in Rblock(m, b, kind)
    PROVE  IsOutcome(o) /\ o.m = m /\ o.err \in {"ok", "EIO"}
<1>1. o \in Ret(m, <<>>) \/ o \in Fail(m, "EIO")
  BY DEF Rblock
<1>2. CASE o \in Ret(m, <<>>)
  BY <1>2, RetIs
<1>3. CASE o \in Fail(m, "EIO")
  BY <1>3, FailIs
<1> QED BY <1>1, <1>2, <1>3

LEMMA HandBackIs ==
    ASSUME NEW m, NEW b, b = 0 \/ b \in m.used, NEW o \in HandBack(m, b)
    PROVE  IsOutcome(o) /\ o.m = m /\ o.err = "ok" /\ o.val = <<b>>
<1>1. o \in Ret(m, <<b>>)
  BY DEF HandBack
<1> QED BY <1>1, RetIs

LEMMA HeldUsed ==
    ASSUME NEW m, NEW L, NEW H, Sound(m, L, H), NEW ino \in L, NEW x \in Place
    PROVE  /\ Blocks(m, ino)[x] \in Block
           /\ Blocks(m, ino)[x] = 0 \/ Blocks(m, ino)[x] \in m.used
<1>1. IsState(m) /\ ino \in Block /\ Divided(m, L, H)
  BY DEF Sound
<1>2. Blocks(m, ino)[x] # 0 => Blocks(m, ino)[x] \in Held(m, ino)
  BY <1>1, HeldIs
<1>3. Blocks(m, ino)[x] \in Block
  BY <1>1, BlocksAre
<1> QED BY <1>1, <1>2, <1>3 DEF Divided

(* What Update and the counts give together. *)
LEMMA DidUpdate ==
    ASSUME NEW m, NEW L, NEW H, Sound(m, L, H), NEW ino \in DOMAIN m.vn,
           NEW m2, NEW H2, Updated(m, m2, L, H2, ino),
           m2.up = m.up, m2.lost = m.lost, DOMAIN m2.vn = DOMAIN m.vn,
           \A j \in DOMAIN m.vn \ {ino} : m2.vn[j] = m.vn[j],
           m2.vn[ino].refcount = m.vn[ino].refcount,
           m2.vn[ino].opencount = m.vn[ino].opencount,
           m2.vn[ino].i.linkcount = m.vn[ino].i.linkcount,
           m.vn[ino].dirty => m2.vn[ino].dirty
    PROVE  Did(m, m2, L, H2, ino)
BY DEF Did, Updated

------------------------------------------------------------------------------
(* sfs_bmap *)
LEMMA FbPlaceIs ==
    ASSUME NEW fb \in Nat
    PROVE  /\ fb < NDirect => /\ FbPlace(fb) = fb /\ fb \in 0 .. NDirect - 1
                              /\ ~(fb - NDirect >= DbPerId)
                              /\ fb < NDirect + DbPerId
           /\ fb - NDirect >= DbPerId => ~(fb < NDirect)
           /\ fb - NDirect < DbPerId => ~(fb - NDirect >= DbPerId)
           /\ fb >= NDirect => ~(fb < NDirect)
           /\ fb >= NDirect /\ fb - NDirect < DbPerId =>
                 /\ fb - NDirect \in 0 .. DbPerId - 1
                 /\ FbPlace(fb) = NDirect + 1 + (fb - NDirect)
           /\ fb < NDirect + DbPerId => FbPlace(fb) \in DataPlace
BY BlockFacts DEF FbPlace, DataPlace, Place

(* without `alloc` *)
BmapFound(m, o, ino, fb) ==
    /\ IsOutcome(o) /\ o.m = m
    /\ \/ o.err \in {"EIO", "EINVAL"}
       \/ /\ o.err = "ok" /\ fb < NDirect + DbPerId
          /\ o.val = <<Blocks(m, ino)[FbPlace(fb)]>>

LEMMA BmapFinds ==
    ASSUME NEW m, NEW L, NEW H, Sound(m, L, H), NEW ino \in DOMAIN m.vn,
           NEW fb \in Nat, NEW o \in Bmap(m, ino, fb, FALSE)
    PROVE  BmapFound(m, o, ino, fb)
<1>1. /\ IsState(m) /\ ino \in L /\ ino \in Block /\ WellFormed(m, ino)
      /\ InodeOf(m, ino) = m.vn[ino].i
  BY InodeOfIs DEF Sound
<1>2. CASE fb < NDirect
  <2>0. /\ fb \in 0 .. NDirect - 1 /\ FbPlace(fb) = fb /\ fb \in DataPlace
        /\ fb < NDirect + DbPerId
    BY <1>2, FbPlaceIs
  <2>1. /\ fb \in 0 .. NDirect - 1 /\ FbPlace(fb) = fb /\ fb \in Place
        /\ Blocks(m, ino)[fb] = m.vn[ino].i.direct[fb]
        /\ fb < NDirect + DbPerId
    BY <1>1, <2>0, BlocksAre DEF DataPlace
  <2>2. o \in HandBack(m, Blocks(m, ino)[fb])
    BY <1>2, <2>1 DEF Bmap, BmapDirect
  <2> QED BY <1>1, <2>1, <2>2, HeldUsed, HandBackIs DEF BmapFound
<1>3. CASE fb - NDirect >= DbPerId
  <2>1. o \in Fail(m, "EINVAL")
    BY <1>3, FbPlaceIs DEF Bmap
  <2> QED BY <2>1, FailIs DEF BmapFound
<1>4. CASE fb >= NDirect /\ fb - NDirect < DbPerId
  <2> DEFINE x == fb - NDirect
             id == m.vn[ino].i.indirect
  <2>1. /\ x \in 0 .. DbPerId - 1 /\ FbPlace(fb) = NDirect + 1 + x
        /\ NDirect + 1 + x \in Place /\ fb < NDirect + DbPerId
        /\ Blocks(m, ino)[NDirect + 1 + x]
              = IF id = 0 THEN 0 ELSE AsIds(m.disk[id])[x]
    <3>1. x \in 0 .. DbPerId - 1 /\ FbPlace(fb) = NDirect + 1 + x
      BY <1>4, FbPlaceIs
    <3>2. fb < NDirect + DbPerId
      BY <1>4, BlockFacts
    <3> HIDE DEF x
    <3>3. NDirect + 1 + x \in Place
      BY <3>1, PlaceIs DEF DataPlace
    <3> QED BY <1>1, <3>1, <3>2, <3>3, BlocksAre
  <2>2. o \in BmapIndirect(m, ino, x, FALSE)
    BY <1>4, FbPlaceIs DEF Bmap
  <2>3. \/ o \in HandBack(m, Blocks(m, ino)[FbPlace(fb)])
        \/ IsOutcome(o) /\ o.m = m /\ o.err = "EIO"
    <3>1. CASE id = 0
      <4>1. o \in HandBack(m, 0)
        BY <2>2, <3>1 DEF BmapIndirect
      <4> QED BY <2>1, <3>1, <4>1
    <3>2. CASE id # 0
      <4>1. PICK q \in IndirectBlock(m, ino) :
               IF q.err = "ok"
               THEN o \in HandBack(q.m, AsIds(q.m.disk[q.m.vn[ino].i.indirect])[x])
               ELSE o = q
        BY <2>2, <3>2 DEF BmapIndirect, Then
      <4>2. q \in Rblock(m, id, "ids")
        BY <3>2, <4>1 DEF IndirectBlock
      <4>3. m.disk[id].k \in {"zero", "ids"}
        BY <1>1, <3>2 DEF WellFormed
      <4>4. IsOutcome(q) /\ q.m = m /\ q.err \in {"ok", "EIO"}
        BY <4>2, <4>3, RblockIs
      <4>5. CASE q.err = "ok"
        BY <2>1, <3>2, <4>1, <4>4, <4>5
      <4>6. CASE q.err = "EIO"
        BY <4>1, <4>4, <4>6
      <4> QED BY <4>4, <4>5, <4>6
    <3> QED BY <3>1, <3>2
  <2>4. CASE o \in HandBack(m, Blocks(m, ino)[FbPlace(fb)])
    BY <1>1, <2>1, <2>4, HeldUsed, HandBackIs DEF BmapFound
  <2> QED BY <2>3, <2>4 DEF BmapFound
<1> QED BY <1>2, <1>3, <1>4, BlockFacts

(* The counts of vnode ino are as they were.                                *)
SameCounts(m, m2, ino) ==
    /\ m2.up = m.up /\ m2.lost = m.lost
    /\ m2.vn[ino].refcount = m.vn[ino].refcount
    /\ m2.vn[ino].opencount = m.vn[ino].opencount
    /\ m2.vn[ino].i.linkcount = m.vn[ino].i.linkcount
    /\ m.vn[ino].dirty => m2.vn[ino].dirty

(* A block from sfs_balloc is put in a place of ino.                        *)
LEMMA AttachDid ==
    ASSUME NEW m, NEW L, NEW H, Sound(m, L, H), NEW ino \in DOMAIN m.vn,
           NEW b \in Block \ m.used, NEW m1, Balloced(m, m1, L, H, b),
           NEW p \in Place, NEW m2, Attaches(m1, m2, ino, p, b),
           SameCounts(m1, m2, ino)
    PROVE  /\ Did(m, m2, L, H, ino) /\ SameContents(m, m2, ino)
           /\ Blocks(m2, ino)[p] = b /\ b \in m2.used /\ b # 0
           /\ ino \in DOMAIN m2.vn
<1>1. /\ IsState(m) /\ Divided(m, L, H) /\ H \subseteq Block /\ L \subseteq Block
      /\ DOMAIN m.vn \subseteq L
  BY DEF Sound
<1>2. b \notin H /\ b \in Block
  BY <1>1 DEF Divided
<1>3. Sound(m1, L, H \cup {b}) /\ DOMAIN m1.vn = DOMAIN m.vn
  BY DEF Balloced, SameFiles
<1>4. m1.disk[b].k = "zero"
  BY DEF Balloced, Cleared
<1>5. /\ Updated(m1, m2, L, (H \cup {b}) \ {b}, ino)
      /\ Units(m2, ino) = Units(m1, ino)
  BY <1>3, <1>4, Attach
<1>6. (H \cup {b}) \ {b} = H
  BY <1>2
<1>7. Updated(m1, m2, L, H, ino)
  BY <1>5, <1>6
<1>8. Did(m1, m2, L, H, ino)
  <2>1. /\ DOMAIN m2.vn = DOMAIN m1.vn
        /\ \A j \in DOMAIN m1.vn \ {ino} : m2.vn[j] = m1.vn[j]
    BY DEF Attaches
  <2> QED BY <1>7, <2>1 DEF Did, Updated, SameCounts
<1>9. Did(m, m1, L, H \cup {b}, ino) /\ SameContents(m, m1, ino)
  BY DidBalloc DEF Balloced
<1>10. Did(m, m2, L, H, ino)
  BY <1>8, <1>9, DidTrans
<1>11. SameContents(m1, m2, ino)
  BY <1>5 DEF SameContents, Attaches
<1>12. Blocks(m2, ino)[p] = b /\ m2.used = m1.used /\ ino \in DOMAIN m2.vn
  BY <1>3 DEF Attaches
<1>13. b # 0
  <2>1. b \notin {Super, Map}
    BY <1>1 DEF Divided
  <2> QED BY <2>1, BlockFacts
<1>14. b \in m1.used
  BY <1>2, <1>3 DEF Sound, Divided
<1> QED BY <1>9, <1>10, <1>11, <1>12, <1>13, <1>14, SameContentsTrans

BmapDid(m, o, L, H, ino, fb) ==
    /\ IsOutcome(o) /\ Did(m, o.m, L, H, ino) /\ SameContents(m, o.m, ino)
    /\ \/ o.err \in {"EIO", "EINVAL", "ENOSPC"}
       \/ /\ o.err = "ok" /\ fb < NDirect + DbPerId
          /\ \E b \in Block \ {0} :
                o.val = <<b>> /\ Blocks(o.m, ino)[FbPlace(fb)] = b

LEMMA BmapDirectDid ==
    ASSUME NEW m, NEW L, NEW H, Sound(m, L, H), NEW ino \in DOMAIN m.vn,
           NEW fb \in 0 .. NDirect - 1, NEW o \in BmapDirect(m, ino, fb, TRUE)
    PROVE  BmapDid(m, o, L, H, ino, fb)
<1> DEFINE i == m.vn[ino].i
<1>1. /\ IsState(m) /\ ino \in L /\ ino \in Block /\ WellFormed(m, ino)
      /\ InodeOf(m, ino) = i /\ i \in Inode
  BY InodeOfIs DEF Sound
<1>2. /\ FbPlace(fb) = fb /\ fb \in Place /\ fb < NDirect + DbPerId /\ fb # NDirect
      /\ Blocks(m, ino)[fb] = i.direct[fb] /\ fb \in Nat
  <2>1. fb \in Nat /\ fb < NDirect /\ fb # NDirect
    BY BlockFacts
  <2>2. FbPlace(fb) = fb /\ fb < NDirect + DbPerId
    BY <2>1, FbPlaceIs
  <2>3. fb \in Place
    BY PlaceIs DEF DataPlace
  <2>4. Blocks(m, ino)[fb] = i.direct[fb]
    BY <1>1, BlocksAre
  <2> QED BY <2>1, <2>2, <2>3, <2>4
<1>3. CASE i.direct[fb] # 0
  <2>1. o \in HandBack(m, Blocks(m, ino)[fb])
    BY <1>2, <1>3 DEF BmapDirect
  <2>2. IsOutcome(o) /\ o.m = m /\ o.err = "ok" /\ o.val = <<Blocks(m, ino)[fb]>>
    BY <1>1, <1>2, <2>1, HeldUsed, HandBackIs
  <2>3. Blocks(m, ino)[fb] \in Block \ {0}
    BY <1>1, <1>2, <1>3, HeldUsed
  <2> QED BY <1>2, <2>2, <2>3, DidNothing DEF BmapDid
<1>4. CASE i.direct[fb] = 0
  <2>1. PICK q \in Balloc(m) :
           IF q.err = "ok"
           THEN o \in HandBack(SetInode(q.m, ino, [i EXCEPT !.direct[fb] = q.val[1]]),
                               q.val[1])
           ELSE o = q
    BY <1>4 DEF BmapDirect, Then
  <2>2. CASE q.err # "ok"
    <3>1. IsOutcome(q) /\ q.err = "ENOSPC" /\ q.m = m
      BY <2>2, BallocSound
    <3> QED BY <2>1, <2>2, <3>1, DidNothing DEF BmapDid
  <2>3. CASE q.err = "ok"
    <3>1. PICK b \in Block \ m.used : q.val = <<b>> /\ Balloced(m, q.m, L, H, b)
      BY <2>3, BallocSound
    <3> DEFINE m1 == q.m
               i2 == [i EXCEPT !.direct[fb] = b]
               m2 == SetInode(m1, ino, i2)
    <3>2. o \in HandBack(m2, b)
      BY <2>1, <2>3, <3>1
    <3>3. /\ Sound(m1, L, H \cup {b}) /\ ino \in DOMAIN m1.vn
          /\ m1.vn = m.vn /\ m1.up = m.up /\ m1.lost = m.lost
      BY <3>1 DEF Balloced, SameFiles
    <3>4. /\ i2 \in Inode /\ i2.type = i.type /\ i2.size = i.size
          /\ i2.linkcount = i.linkcount /\ i2.indirect = i.indirect
          /\ i2.direct[fb] = b
          /\ \A x \in 0 .. NDirect - 1 : x # fb => i2.direct[x] = i.direct[x]
      BY <1>1 DEF Inode
    <3> HIDE DEF i2
    <3>5. /\ IsState(m1) /\ m1.panic = "no" /\ WellFormed(m1, ino)
          /\ InodeOf(m1, ino) = i
      BY <1>1, <3>3, InodeOfIs DEF Sound
    <3>6. /\ IsState(m2) /\ DOMAIN m2.vn = DOMAIN m1.vn
          /\ m2.vn[ino].i = i2 /\ m2.vn[ino].dirty
          /\ m2.vn[ino].refcount = m1.vn[ino].refcount
          /\ m2.vn[ino].opencount = m1.vn[ino].opencount
          /\ \A j \in DOMAIN m1.vn \ {ino} : m2.vn[j] = m1.vn[j]
          /\ m2.up = m1.up /\ m2.used = m1.used /\ m2.mapdirty = m1.mapdirty
          /\ m2.disk = m1.disk /\ m2.lost = m1.lost /\ m2.panic = m1.panic
      BY <3>3, <3>4, <3>5, SetInodeIs
    <3> HIDE DEF m2, m1
    <3>7. InodeOf(m2, ino) = i2
      BY <1>1, <3>3, <3>6 DEF InodeOf
    <3>8. /\ Blocks(m1, ino)[fb] = 0 /\ Blocks(m2, ino)[fb] = b
          /\ \A x \in Place \ {fb} : Blocks(m2, ino)[x] = Blocks(m1, ino)[x]
      <4> DEFINE f == Blocks(m1, ino)
                 g == Blocks(m2, ino)
      <4>1. /\ \A x \in 0 .. NDirect - 1 : f[x] = i.direct[x]
            /\ f[NDirect] = i.indirect
            /\ \A x \in 0 .. DbPerId - 1 :
                  f[NDirect + 1 + x] = IF i.indirect = 0 THEN 0
                                       ELSE AsIds(m1.disk[i.indirect])[x]
        BY <1>1, <3>5, BlocksAre
      <4>2. /\ \A x \in 0 .. NDirect - 1 : g[x] = i2.direct[x]
            /\ g[NDirect] = i2.indirect
            /\ \A x \in 0 .. DbPerId - 1 :
                  g[NDirect + 1 + x] = IF i2.indirect = 0 THEN 0
                                       ELSE AsIds(m2.disk[i2.indirect])[x]
        <5>1. IsState(m2) /\ InodeOf(m2, ino) = i2 /\ ino \in Block
          BY <1>1, <3>6, <3>7
        <5>2. Tabled(m2, g, i2)
          BY ONLY <5>1, TabledIs DEF g
        <5> HIDE DEF g
        <5> QED BY ONLY <5>2 DEF Tabled
      <4> HIDE DEF f, g
      <4>3. f[fb] = 0 /\ g[fb] = b
        BY <1>4, <3>4, <4>1, <4>2
      <4>4. \A x \in 0 .. NDirect - 1 : x # fb => g[x] = f[x]
        BY <3>4, <4>1, <4>2
      <4>5. g[NDirect] = f[NDirect]
        BY <3>4, <4>1, <4>2
      <4>6. \A x \in 0 .. DbPerId - 1 : g[NDirect + 1 + x] = f[NDirect + 1 + x]
        BY <3>4, <3>6, <4>1, <4>2
      <4>7. \A x \in Place \ {fb} : g[x] = f[x]
        BY <4>4, <4>5, <4>6, PlaceIs
      <4> QED BY <4>3, <4>7 DEF f, g
    <3>9. Attaches(m1, m2, ino, fb, b)
      BY <3>4, <3>5, <3>6, <3>7, <3>8 DEF Attaches, WellFormed
    <3>10. SameCounts(m1, m2, ino)
      BY <1>1, <3>3, <3>4, <3>6 DEF SameCounts
    <3>11. /\ Did(m, m2, L, H, ino) /\ SameContents(m, m2, ino)
           /\ Blocks(m2, ino)[fb] = b /\ b \in m2.used /\ b # 0
      BY <1>2, <3>1, <3>9, <3>10, AttachDid DEF m1
    <3>12. IsOutcome(o) /\ o.m = m2 /\ o.err = "ok" /\ o.val = <<b>>
      BY <3>2, <3>11, HandBackIs
    <3> QED BY <1>2, <3>11, <3>12 DEF BmapDid
  <2> QED BY <2>2, <2>3
<1> QED BY <1>3, <1>4

LEMMA LoadedIs ==
    ASSUME NEW m, NEW L, NEW H, Sound(m, L, H), NEW ino \in DOMAIN m.vn
    PROVE  /\ IsState(m) /\ m.panic = "no" /\ ino \in L /\ ino \in Block
           /\ WellFormed(m, ino) /\ m.vn[ino] \in Vnode
           /\ InodeOf(m, ino) = m.vn[ino].i /\ m.vn[ino].i \in Inode
<1>1. /\ IsState(m) /\ m.panic = "no" /\ ino \in L /\ ino \in Block
      /\ WellFormed(m, ino)
  BY DEF Sound
<1>2. m.vn[ino] \in Vnode
  BY <1>1 DEF IsState
<1> QED BY <1>1, <1>2, InodeOfIs

LEMMA IndirectBlockDid ==
    ASSUME NEW m, NEW L, NEW H, Sound(m, L, H), NEW ino \in DOMAIN m.vn,
           NEW o \in IndirectBlock(m, ino)
    PROVE  /\ IsOutcome(o) /\ Did(m, o.m, L, H, ino) /\ SameContents(m, o.m, ino)
           /\ \/ o.err \in {"EIO", "ENOSPC"}
              \/ o.err = "ok" /\ o.m.vn[ino].i.indirect # 0
<1> DEFINE i == m.vn[ino].i
<1>1. /\ IsState(m) /\ m.panic = "no" /\ ino \in L /\ ino \in Block
      /\ WellFormed(m, ino) /\ InodeOf(m, ino) = i /\ i \in Inode
  BY LoadedIs
<1>2. CASE i.indirect # 0
  <2>1. o \in Rblock(m, i.indirect, "ids")
    BY <1>2 DEF IndirectBlock
  <2>2. m.disk[i.indirect].k \in {"zero", "ids"}
    BY <1>1, <1>2 DEF WellFormed
  <2>3. IsOutcome(o) /\ o.m = m /\ o.err \in {"ok", "EIO"}
    BY <2>1, <2>2, RblockIs
  <2> QED BY <1>2, <2>3, DidNothing
<1>3. CASE i.indirect = 0
  <2>1. PICK q \in Balloc(m) :
           IF q.err = "ok"
           THEN o \in Ret(SetInode(q.m, ino, [i EXCEPT !.indirect = q.val[1]]), <<>>)
           ELSE o = q
    BY <1>3 DEF IndirectBlock, Then
  <2>2. CASE q.err # "ok"
    <3>1. IsOutcome(q) /\ q.err = "ENOSPC" /\ q.m = m
      BY <2>2, BallocSound
    <3> QED BY <2>1, <2>2, <3>1, DidNothing
  <2>3. CASE q.err = "ok"
    <3>1. PICK b \in Block \ m.used : q.val = <<b>> /\ Balloced(m, q.m, L, H, b)
      BY <2>3, BallocSound
    <3> DEFINE m1 == q.m
               i2 == [i EXCEPT !.indirect = b]
               m2 == SetInode(m1, ino, i2)
    <3>2. o \in Ret(m2, <<>>)
      BY <2>1, <2>3, <3>1
    <3>3. /\ Sound(m1, L, H \cup {b}) /\ ino \in DOMAIN m1.vn
          /\ m1.vn = m.vn /\ m1.up = m.up /\ m1.lost = m.lost
          /\ m1.disk[b] = Cleared
      BY <3>1 DEF Balloced, SameFiles
    <3>4. /\ i2 \in Inode /\ i2.type = i.type /\ i2.size = i.size
          /\ i2.linkcount = i.linkcount /\ i2.direct = i.direct
          /\ i2.indirect = b
      BY <1>1 DEF Inode
    <3> HIDE DEF i2
    <3>5. /\ IsState(m1) /\ m1.panic = "no" /\ WellFormed(m1, ino)
          /\ InodeOf(m1, ino) = i
      BY <3>3, LoadedIs
    <3>6. /\ IsState(m2) /\ DOMAIN m2.vn = DOMAIN m1.vn
          /\ m2.vn[ino].i = i2 /\ m2.vn[ino].dirty
          /\ m2.vn[ino].refcount = m1.vn[ino].refcount
          /\ m2.vn[ino].opencount = m1.vn[ino].opencount
          /\ \A j \in DOMAIN m1.vn \ {ino} : m2.vn[j] = m1.vn[j]
          /\ m2.up = m1.up /\ m2.used = m1.used /\ m2.mapdirty = m1.mapdirty
          /\ m2.disk = m1.disk /\ m2.lost = m1.lost /\ m2.panic = m1.panic
      BY <3>3, <3>4, <3>5, SetInodeIs
    <3> HIDE DEF m2, m1
    <3>7. InodeOf(m2, ino) = i2
      BY <1>1, <3>3, <3>6 DEF InodeOf
    <3>8. /\ Blocks(m1, ino)[NDirect] = 0 /\ Blocks(m2, ino)[NDirect] = b
          /\ \A x \in Place \ {NDirect} : Blocks(m2, ino)[x] = Blocks(m1, ino)[x]
      <4> DEFINE f == Blocks(m1, ino)
                 g == Blocks(m2, ino)
      <4>1. /\ \A x \in 0 .. NDirect - 1 : f[x] = i.direct[x]
            /\ f[NDirect] = i.indirect
            /\ \A x \in 0 .. DbPerId - 1 :
                  f[NDirect + 1 + x] = IF i.indirect = 0 THEN 0
                                       ELSE AsIds(m1.disk[i.indirect])[x]
        <5>1. Tabled(m1, f, i)
          BY <1>1, <3>5, TabledIs
        <5> QED BY <5>1 DEF Tabled
      <4>2. /\ \A x \in 0 .. NDirect - 1 : g[x] = i2.direct[x]
            /\ g[NDirect] = i2.indirect
            /\ \A x \in 0 .. DbPerId - 1 :
                  g[NDirect + 1 + x] = IF i2.indirect = 0 THEN 0
                                       ELSE AsIds(m2.disk[i2.indirect])[x]
        <5>1. IsState(m2) /\ InodeOf(m2, ino) = i2 /\ ino \in Block
          BY <1>1, <3>6, <3>7
        <5>2. Tabled(m2, g, i2)
          BY <5>1, TabledIs
        <5> QED BY <5>2 DEF Tabled
      <4> HIDE DEF f, g
      <4>3. f[NDirect] = 0 /\ g[NDirect] = b
        BY <1>3, <3>4, <4>1, <4>2
      <4>4. \A x \in 0 .. NDirect - 1 : g[x] = f[x]
        BY <3>4, <4>1, <4>2
      <4>5. AsIds(m2.disk[b]) = [x \in 0 .. DbPerId - 1 |-> 0]
        <5>1. m2.disk[b].k = "zero"
          BY <3>3, <3>6 DEF Cleared
        <5> QED BY <5>1, ClearedFacts
      <4>6. \A x \in 0 .. DbPerId - 1 : g[NDirect + 1 + x] = f[NDirect + 1 + x]
        BY <1>3, <3>4, <4>1, <4>2, <4>5
      <4>7. \A x \in Place \ {NDirect} : g[x] = f[x]
        BY <4>4, <4>6, PlaceIs
      <4> QED BY <4>3, <4>7 DEF f, g
    <3>9. Attaches(m1, m2, ino, NDirect, b)
      <4>1. m2.disk[b].k = "zero"
        BY <3>3, <3>6 DEF Cleared
      <4> QED BY <3>4, <3>5, <3>6, <3>7, <3>8, <4>1 DEF Attaches
    <3>10. SameCounts(m1, m2, ino)
      BY <1>1, <3>3, <3>4, <3>6 DEF SameCounts
    <3>11. /\ Did(m, m2, L, H, ino) /\ SameContents(m, m2, ino) /\ b # 0
      BY <3>1, <3>9, <3>10, PlaceIs, AttachDid DEF m1
    <3>12. IsOutcome(o) /\ o.m = m2 /\ o.err = "ok"
      BY <3>2, RetIs
    <3> QED BY <3>4, <3>6, <3>11, <3>12
  <2> QED BY <2>2, <2>3
<1> QED BY <1>2, <1>3

LEMMA BmapIndirectDid ==
    ASSUME NEW m, NEW L, NEW H, Sound(m, L, H), NEW ino \in DOMAIN m.vn,
           NEW fb \in Nat, ~(fb < NDirect), ~(fb - NDirect >= DbPerId),
           NEW o \in BmapIndirect(m, ino, fb - NDirect, TRUE)
    PROVE  BmapDid(m, o, L, H, ino, fb)
<1> DEFINE x == fb - NDirect
           p == NDirect + 1 + x
<1>1. /\ x \in 0 .. DbPerId - 1 /\ FbPlace(fb) = p /\ fb < NDirect + DbPerId
  BY FbPlaceIs, BlockFacts
<1> HIDE DEF x
<1>2. p \in Place /\ p # NDirect
  BY <1>1, PlaceIs DEF DataPlace
<1>3. PICK q \in IndirectBlock(m, ino) :
         IF q.err = "ok"
         THEN LET id  == q.m.vn[ino].i.indirect
                  ids == AsIds(q.m.disk[id])
              IN  o \in IF ids[x] # 0 THEN HandBack(q.m, ids[x])
                        ELSE Then(Balloc(q.m), LAMBDA m2, v :
                               HandBack(Wblock(m2, id, IdBlock([ids EXCEPT ![x] = v[1]])),
                                        v[1]))
         ELSE o = q
  BY DEF BmapIndirect, Then, x
<1>4. /\ IsOutcome(q) /\ Did(m, q.m, L, H, ino) /\ SameContents(m, q.m, ino)
      /\ \/ q.err \in {"EIO", "ENOSPC"}
         \/ q.err = "ok" /\ q.m.vn[ino].i.indirect # 0
  BY IndirectBlockDid
<1>5. CASE q.err # "ok"
  BY <1>3, <1>4, <1>5 DEF BmapDid
<1>6. CASE q.err = "ok"
  <2> DEFINE m1 == q.m
             i == m1.vn[ino].i
             id == i.indirect
             ids == AsIds(m1.disk[id])
  <2>1. Sound(m1, L, H) /\ ino \in DOMAIN m1.vn /\ id # 0
    BY <1>4, <1>6 DEF Did
  <2>2. /\ IsState(m1) /\ m1.panic = "no" /\ ino \in L /\ ino \in Block
        /\ WellFormed(m1, ino) /\ InodeOf(m1, ino) = i /\ i \in Inode
    BY <2>1, LoadedIs
  <2>3. id \in Block /\ m1.disk[id].k \in {"zero", "ids"}
    BY <2>1, <2>2 DEF Inode, WellFormed
  <2>4. ids \in [0 .. DbPerId - 1 -> Block]
    <3>1. m1.disk[id] \in Content
      BY <2>2, <2>3 DEF IsState
    <3> QED BY <3>1, ContentFacts
  <2>5. Blocks(m1, ino)[p] = ids[x]
    <3>1. Blocks(m1, ino)[NDirect + 1 + x] = IF id = 0 THEN 0 ELSE ids[x]
      BY <1>1, <2>2, BlocksAre
    <3> QED BY <2>1, <3>1
  <2>6. o \in IF ids[x] # 0 THEN HandBack(m1, ids[x])
              ELSE Then(Balloc(m1), LAMBDA m2, v :
                     HandBack(Wblock(m2, id, IdBlock([ids EXCEPT ![x] = v[1]])), v[1]))
    BY <1>3, <1>6
  <2> HIDE DEF ids, id, i, m1
  <2>7. CASE ids[x] # 0
    <3>1. ids[x] \in Block \ {0} /\ ids[x] \in m1.used
      BY <1>2, <2>1, <2>2, <2>5, <2>7, HeldUsed
    <3>2. IsOutcome(o) /\ o.m = m1 /\ o.err = "ok" /\ o.val = <<ids[x]>>
      BY <2>6, <2>7, <3>1, HandBackIs
    <3> QED BY <1>1, <1>4, <2>5, <3>1, <3>2 DEF BmapDid, m1
  <2>8. CASE ids[x] = 0
    <3>0. PICK r \in Balloc(m1) :
             IF r.err = "ok"
             THEN o \in HandBack(Wblock(r.m, id, IdBlock([ids EXCEPT ![x] = r.val[1]])),
                                 r.val[1])
             ELSE o = r
      BY <2>6, <2>8 DEF Then
    <3>1. CASE r.err # "ok"
      <4>1. IsOutcome(r) /\ r.err = "ENOSPC" /\ r.m = m1
        BY <2>1, <3>1, BallocSound
      <4> QED BY <1>4, <3>0, <3>1, <4>1 DEF BmapDid, m1
    <3>2. CASE r.err = "ok"
      <4>1. PICK b \in Block \ m1.used : r.val = <<b>> /\ Balloced(m1, r.m, L, H, b)
        BY <2>1, <3>2, BallocSound
      <4> DEFINE m2 == r.m
                 ids2 == [ids EXCEPT ![x] = b]
                 m3 == Wblock(m2, id, IdBlock(ids2))
      <4>2. o \in HandBack(m3, b)
        BY <3>0, <3>2, <4>1
      <4>3. /\ Sound(m2, L, H \cup {b}) /\ ino \in DOMAIN m2.vn
            /\ m2.vn = m1.vn /\ m2.up = m1.up /\ m2.lost = m1.lost
            /\ m2.disk[b] = Cleared /\ \A j \in Block \ {b} : m2.disk[j] = m1.disk[j]
        BY <2>1, <4>1 DEF Balloced, SameFiles
      <4>4. /\ IsState(m2) /\ m2.panic = "no" /\ WellFormed(m2, ino)
            /\ InodeOf(m2, ino) = i
        BY <4>3, LoadedIs DEF i
      <4>5. /\ ids2 \in [0 .. DbPerId - 1 -> Block] /\ ids2[x] = b
            /\ \A y \in 0 .. DbPerId - 1 : y # x => ids2[y] = ids[y]
        BY <1>1, <2>4
      <4> HIDE DEF ids2
      <4>6. /\ IdBlock(ids2) \in Content /\ AsIds(IdBlock(ids2)) = ids2
            /\ IdBlock(ids2).k = "ids"
        BY <4>5, ContentIntro
      <4>7. /\ IsState(m3) /\ m3.disk[id] = IdBlock(ids2)
            /\ \A j \in Block \ {id} : m3.disk[j] = m2.disk[j]
            /\ m3.up = m2.up /\ m3.used = m2.used /\ m3.mapdirty = m2.mapdirty
            /\ m3.vn = m2.vn /\ m3.lost = m2.lost /\ m3.panic = m2.panic
        BY <2>3, <4>4, <4>6, WblockIs
      <4> HIDE DEF m3, m2
      <4>8. InodeOf(m3, ino) = i
        BY <2>2, <4>3, <4>4, <4>7 DEF InodeOf
      <4>9. id \in m1.used /\ id # b /\ m2.disk[id] = m1.disk[id]
        <5>1. Blocks(m1, ino)[NDirect] = id
          BY <2>2, BlocksAre DEF id
        <5>2. id \in m1.used
          BY <2>1, <2>2, <5>1, PlaceIs, HeldUsed
        <5> QED BY <2>3, <4>3, <5>2
      <4>10. /\ Blocks(m2, ino)[p] = 0 /\ Blocks(m3, ino)[p] = b
             /\ \A y \in Place \ {p} : Blocks(m3, ino)[y] = Blocks(m2, ino)[y]
        <5> DEFINE f == Blocks(m2, ino)
                   g == Blocks(m3, ino)
        <5>1. /\ \A y \in 0 .. NDirect - 1 : f[y] = i.direct[y]
              /\ f[NDirect] = i.indirect
              /\ \A y \in 0 .. DbPerId - 1 :
                    f[NDirect + 1 + y] = IF i.indirect = 0 THEN 0
                                         ELSE AsIds(m2.disk[i.indirect])[y]
          BY <2>2, <4>4, BlocksAre
        <5>2. /\ \A y \in 0 .. NDirect - 1 : g[y] = i.direct[y]
              /\ g[NDirect] = i.indirect
              /\ \A y \in 0 .. DbPerId - 1 :
                    g[NDirect + 1 + y] = IF i.indirect = 0 THEN 0
                                         ELSE AsIds(m3.disk[i.indirect])[y]
          <6>1. IsState(m3) /\ InodeOf(m3, ino) = i /\ ino \in Block
            BY <2>2, <4>7, <4>8
          <6> QED BY <6>1, BlocksAre
        <5> HIDE DEF f, g
        <5>3. /\ \A y \in 0 .. DbPerId - 1 : f[NDirect + 1 + y] = ids[y]
              /\ \A y \in 0 .. DbPerId - 1 : g[NDirect + 1 + y] = ids2[y]
          BY <2>1, <4>6, <4>7, <4>9, <5>1, <5>2 DEF id, ids
        <5>4. f[p] = 0 /\ g[p] = b
          BY <1>1, <2>8, <4>5, <5>3
        <5>5. \A y \in 0 .. NDirect - 1 : g[y] = f[y]
          BY <5>1, <5>2
        <5>6. g[NDirect] = f[NDirect]
          BY <5>1, <5>2
        <5>7. \A y \in 0 .. DbPerId - 1 :
                 NDirect + 1 + y # p => g[NDirect + 1 + y] = f[NDirect + 1 + y]
          <6>1. \A y \in 0 .. DbPerId - 1 : NDirect + 1 + y # p => y # x
            OBVIOUS
          <6> QED BY <4>5, <5>3, <6>1
        <5>8. \A y \in Place \ {p} : g[y] = f[y]
          BY <5>5, <5>6, <5>7, PlaceIs
        <5> QED BY <5>4, <5>8 DEF f, g
      <4>11. Attaches(m2, m3, ino, p, b)
        <5>1. m3.disk[id].k \in {"zero", "ids"}
          BY <4>6, <4>7
        <5>2. m3.disk[0] = m2.disk[0]
          BY <2>1, <4>7, BlockFacts
        <5>3. \A c \in Block : c = InodeOf(m2, ino).indirect \/ m3.disk[c] = m2.disk[c]
          BY <4>4, <4>7 DEF id
        <5>4. /\ InodeOf(m3, ino) = InodeOf(m2, ino) /\ InodeOf(m3, ino).indirect = id
          BY <4>4, <4>8 DEF id
        <5> QED BY <4>4, <4>7, <4>10, <5>1, <5>2, <5>3, <5>4 DEF Attaches
      <4>12. SameCounts(m2, m3, ino)
        BY <4>7 DEF SameCounts
      <4>13. /\ Did(m1, m3, L, H, ino) /\ SameContents(m1, m3, ino)
             /\ Blocks(m3, ino)[p] = b /\ b \in m3.used /\ b # 0
        BY <1>2, <2>1, <4>1, <4>11, <4>12, AttachDid DEF m2
      <4>14. Did(m, m3, L, H, ino) /\ SameContents(m, m3, ino)
        BY <1>4, <4>13, DidTrans, SameContentsTrans DEF m1
      <4>15. IsOutcome(o) /\ o.m = m3 /\ o.err = "ok" /\ o.val = <<b>>
        BY <4>2, <4>13, HandBackIs
      <4> QED BY <1>1, <4>13, <4>14, <4>15 DEF BmapDid
    <3> QED BY <3>1, <3>2
  <2> QED BY <2>7, <2>8
<1> QED BY <1>5, <1>6

LEMMA BmapAllocs ==
    ASSUME NEW m, NEW L, NEW H, Sound(m, L, H), NEW ino \in DOMAIN m.vn,
           NEW fb \in Nat, NEW o \in Bmap(m, ino, fb, TRUE)
    PROVE  BmapDid(m, o, L, H, ino, fb)
<1>1. CASE fb < NDirect
  <2>1. o \in BmapDirect(m, ino, fb, TRUE) /\ fb \in 0 .. NDirect - 1
    BY <1>1, FbPlaceIs DEF Bmap
  <2> QED BY <2>1, BmapDirectDid
<1>2. CASE ~(fb < NDirect) /\ fb - NDirect >= DbPerId
  <2>1. o \in Fail(m, "EINVAL")
    BY <1>2 DEF Bmap
  <2>2. IsOutcome(o) /\ o.m = m /\ o.err = "EINVAL"
    BY <2>1, FailIs
  <2> QED BY <2>2, DidNothing DEF BmapDid
<1>3. CASE ~(fb < NDirect) /\ ~(fb - NDirect >= DbPerId)
  <2>1. o \in BmapIndirect(m, ino, fb - NDirect, TRUE)
    BY <1>3 DEF Bmap
  <2> QED BY <1>3, <2>1, BmapIndirectDid
<1> QED BY <1>1, <1>2, <1>3

------------------------------------------------------------------------------
(* sfs_partialio, sfs_blockio, sfs_io *)
LEMMA FbPlaceInj ==
    ASSUME NEW a \in Nat, NEW b \in Nat, FbPlace(a) = FbPlace(b)
    PROVE  a = b
BY BlockFacts DEF FbPlace

(* The units us of block fb of ino are c.                                   *)
Stored(m, m2, ino, fb, us, c) ==
    /\ InodeOf(m2, ino) = InodeOf(m, ino)
    /\ \A x \in DataPlace :
          Cont(m2, ino, x) = IF x = FbPlace(fb)
                             THEN [y \in 0 .. Slots - 1 |->
                                     IF y \in us THEN c ELSE Cont(m, ino, x)[y]]
                             ELSE Cont(m, ino, x)

LEMMA StoreDid ==
    ASSUME NEW m, NEW L, NEW H, Sound(m, L, H), NEW ino \in DOMAIN m.vn,
           NEW fb \in Nat, fb < NDirect + DbPerId,
           NEW b, b = Blocks(m, ino)[FbPlace(fb)], b # 0,
           NEW us, NEW c \in Unit, NEW m2, m2 = Store(m, b, us, c)
    PROVE  Did(m, m2, L, H, ino) /\ Stored(m, m2, ino, fb, us, c)
<1> DEFINE p == FbPlace(fb)
           f == Blocks(m, ino)
           u2 == [y \in 0 .. Slots - 1 |-> IF y \in us THEN c ELSE AsUnits(m.disk[b])[y]]
           i == InodeOf(m, ino)
<1>1. /\ IsState(m) /\ m.panic = "no" /\ ino \in L /\ ino \in Block
      /\ WellFormed(m, ino)
  BY LoadedIs
<1>2. p \in DataPlace /\ p \in Place /\ p # NDirect
  BY FbPlaceIs DEF DataPlace
<1>3. b \in Block /\ b \in m.used /\ b \in Held(m, ino)
  BY <1>1, <1>2, HeldUsed, HeldIs
<1>4. m.disk[b] \in Content
  BY <1>1, <1>3 DEF IsState
<1>5. u2 \in [0 .. Slots - 1 -> Unit]
  <2>1. AsUnits(m.disk[b]) \in [0 .. Slots - 1 -> Unit]
    BY <1>4, ContentFacts
  <2> QED BY <2>1
<1>6. m2 = Wblock(m, b, UnitBlock(u2))
  BY DEF Store
<1> HIDE DEF u2
<1>7. /\ UnitBlock(u2) \in Content /\ AsUnits(UnitBlock(u2)) = u2
      /\ UnitBlock(u2).k = "units"
  BY <1>5, ContentIntro
<1>8. /\ IsState(m2) /\ m2.disk[b] = UnitBlock(u2)
      /\ \A j \in Block \ {b} : m2.disk[j] = m.disk[j]
      /\ m2.up = m.up /\ m2.used = m.used /\ m2.mapdirty = m.mapdirty
      /\ m2.vn = m.vn /\ m2.lost = m.lost /\ m2.panic = m.panic
  BY <1>1, <1>3, <1>6, <1>7, WblockIs
<1>9. InodeOf(m2, ino) = i
  BY <1>8 DEF InodeOf
<1>10. f[NDirect] = i.indirect /\ f \in [Place -> Block] /\ NDirect \in Place
  BY <1>1, BlocksAre, PlaceIs
<1>11. \A x \in Place : f[x] = b => x = p
  BY <1>1, <1>2 DEF WellFormed, Distinct
<1>12. i.indirect # b
  BY <1>2, <1>10, <1>11
<1>13. i.indirect \in Block
  BY <1>10
<1>14. Blocks(m2, ino) = f
  BY <1>1, <1>8, <1>9, <1>12, <1>13, BlocksSame
<1>15. Held(m2, ino) = Held(m, ino)
  BY <1>14 DEF Held, f
<1>16. ASSUME NEW x \in Place, x # p
       PROVE  m2.disk[f[x]] = m.disk[f[x]]
  BY <1>8, <1>10, <1>11, <1>16
<1>17. WellFormed(m2, ino)
  <2>1. ASSUME NEW x \in DataPlace, f[x] # 0
        PROVE  m2.disk[f[x]].k \in {"zero", "units"}
    <3>1. CASE x = p
      BY <1>7, <1>8, <3>1
    <3>2. CASE x # p
      <4>1. m.disk[f[x]].k \in {"zero", "units"}
        BY <1>1, <2>1 DEF WellFormed
      <4> QED BY <1>16, <3>2, <4>1 DEF DataPlace
    <3> QED BY <3>1, <3>2
  <2>2. i.indirect # 0 => m2.disk[i.indirect].k \in {"zero", "ids"}
    BY <1>1, <1>8, <1>12, <1>13 DEF WellFormed
  <2>3. i.type # "invalid" /\ i.size <= MaxSize /\ Distinct(f)
    BY <1>1 DEF WellFormed
  <2>4. ino \in DOMAIN m2.vn
    BY <1>8
  <2> HIDE DEF f, i
  <2> QED BY <1>9, <1>14, <2>1, <2>2, <2>3, <2>4 DEF WellFormed
<1>18. Trade(m, m2, H, H, ino)
  <2>1. /\ H \cap Held(m, ino) = {} /\ H \cup Held(m, ino) \subseteq m.used
    <3>1. Divided(m, L, H) /\ H \subseteq Block
      BY DEF Sound
    <3> QED BY <1>1, <3>1, HeldIs DEF Divided
  <2>2. m2.used = (m.used \ (H \cup Held(m, ino))) \cup H \cup Held(m2, ino)
    BY <1>8, <1>15, <2>1
  <2>3. \A j \in Block : j \notin H \cup Held(m, ino) => m2.disk[j] = m.disk[j]
    BY <1>3, <1>8
  <2> QED BY <1>1, <1>8, <1>15, <1>17, <2>1, <2>2, <2>3 DEF Trade
<1>19. Did(m, m2, L, H, ino)
  <2>1. Updated(m, m2, L, H, ino)
    BY <1>18, Update
  <2> QED BY <1>8, <2>1, DidUpdate
<1>20. Stored(m, m2, ino, fb, us, c)
  <2>1. ASSUME NEW x \in DataPlace, x # p PROVE Cont(m2, ino, x) = Cont(m, ino, x)
    BY <1>14, <1>16, <2>1 DEF Cont, DataPlace
  <2>2. Cont(m2, ino, p) = u2 /\ Cont(m, ino, p) = AsUnits(m.disk[b])
    BY <1>7, <1>8, <1>14 DEF Cont
  <2>3. Cont(m2, ino, p) = [y \in 0 .. Slots - 1 |->
                               IF y \in us THEN c ELSE Cont(m, ino, p)[y]]
    BY <2>2 DEF u2
  <2> QED BY <1>9, <2>1, <2>3 DEF Stored
<1> QED BY <1>19, <1>20

(* An inode changed in its size or its link count only.                     *)
ScalarsSet(m, m2, ino, i) ==
    /\ InodeOf(m2, ino) = i /\ m2.vn[ino].i = i /\ m2.vn[ino].dirty
    /\ DOMAIN m2.vn = DOMAIN m.vn
    /\ m2.vn[ino].refcount = m.vn[ino].refcount
    /\ m2.vn[ino].opencount = m.vn[ino].opencount
    /\ \A j \in DOMAIN m.vn \ {ino} : m2.vn[j] = m.vn[j]
    /\ m2.up = m.up /\ m2.lost = m.lost /\ m2.disk = m.disk
    /\ \A x \in DataPlace : Cont(m2, ino, x) = Cont(m, ino, x)

LEMMA SetScalars ==
    ASSUME NEW m, NEW L, NEW H, Sound(m, L, H), NEW ino \in DOMAIN m.vn,
           NEW i \in Inode, i.type = m.vn[ino].i.type, i.size <= MaxSize,
           i.direct = m.vn[ino].i.direct, i.indirect = m.vn[ino].i.indirect,
           NEW m2, m2 = SetInode(m, ino, i)
    PROVE  Updated(m, m2, L, H, ino) /\ ScalarsSet(m, m2, ino, i)
<1>1. /\ IsState(m) /\ m.panic = "no" /\ ino \in L /\ ino \in Block
      /\ WellFormed(m, ino) /\ InodeOf(m, ino) = m.vn[ino].i
  BY LoadedIs
<1>2. /\ IsState(m2) /\ DOMAIN m2.vn = DOMAIN m.vn
      /\ m2.vn[ino].i = i /\ m2.vn[ino].dirty
      /\ m2.vn[ino].refcount = m.vn[ino].refcount
      /\ m2.vn[ino].opencount = m.vn[ino].opencount
      /\ \A j \in DOMAIN m.vn \ {ino} : m2.vn[j] = m.vn[j]
      /\ m2.up = m.up /\ m2.used = m.used /\ m2.mapdirty = m.mapdirty
      /\ m2.disk = m.disk /\ m2.lost = m.lost /\ m2.panic = m.panic
  BY <1>1, SetInodeIs
<1>3. InodeOf(m2, ino) = i
  BY <1>2 DEF InodeOf
<1>4. Blocks(m2, ino) = Blocks(m, ino)
  BY <1>1, <1>2, <1>3 DEF Blocks
<1>5. Held(m2, ino) = Held(m, ino)
  BY <1>4 DEF Held
<1>6. \A x \in DataPlace : Cont(m2, ino, x) = Cont(m, ino, x)
  BY <1>2, <1>4 DEF Cont
<1>7. WellFormed(m2, ino)
  <2>1. i.type # "invalid" /\ i.size <= MaxSize
    BY <1>1 DEF WellFormed
  <2>2. i.indirect # 0 => m.disk[i.indirect].k \in {"zero", "ids"}
    BY <1>1 DEF WellFormed
  <2> QED BY <1>1, <1>2, <1>3, <1>4, <2>1, <2>2 DEF WellFormed
<1>8. Trade(m, m2, H, H, ino)
  <2>1. /\ H \cap Held(m, ino) = {} /\ H \cup Held(m, ino) \subseteq m.used
    <3>1. Divided(m, L, H) /\ H \subseteq Block
      BY DEF Sound
    <3> QED BY <1>1, <3>1, HeldIs DEF Divided
  <2>2. m2.used = (m.used \ (H \cup Held(m, ino))) \cup H \cup Held(m2, ino)
    BY <1>2, <1>5, <2>1
  <2> QED BY <1>1, <1>2, <1>5, <1>7, <2>1, <2>2 DEF Trade
<1>9. Updated(m, m2, L, H, ino)
  BY <1>8, Update
<1> QED BY <1>2, <1>3, <1>6, <1>9 DEF ScalarsSet

LEMMA GrowDid ==
    ASSUME NEW m, NEW L, NEW H, Sound(m, L, H), NEW ino \in DOMAIN m.vn,
           NEW end \in Nat, end <= MaxSize, NEW m2, m2 = Grow(m, ino, end)
    PROVE  /\ Did(m, m2, L, H, ino)
           /\ InodeOf(m2, ino).size = IF end > InodeOf(m, ino).size THEN end
                                      ELSE InodeOf(m, ino).size
           /\ \A x \in DataPlace : Cont(m2, ino, x) = Cont(m, ino, x)
<1>1. /\ InodeOf(m, ino) = m.vn[ino].i /\ m.vn[ino].i \in Inode
  BY LoadedIs
<1>2. CASE end > m.vn[ino].i.size
  <2> DEFINE i == [m.vn[ino].i EXCEPT !.size = end]
  <2>1. /\ i \in Inode /\ i.type = m.vn[ino].i.type /\ i.size = end
        /\ i.direct = m.vn[ino].i.direct /\ i.indirect = m.vn[ino].i.indirect
        /\ i.linkcount = m.vn[ino].i.linkcount
    BY <1>1 DEF Inode
  <2>2. m2 = SetInode(m, ino, i)
    BY <1>2 DEF Grow
  <2> HIDE DEF i
  <2>3. Updated(m, m2, L, H, ino) /\ ScalarsSet(m, m2, ino, i)
    BY <2>1, <2>2, SetScalars
  <2>4. Did(m, m2, L, H, ino)
    BY <2>1, <2>3, DidUpdate DEF ScalarsSet
  <2> QED BY <1>1, <1>2, <2>1, <2>3, <2>4 DEF ScalarsSet
<1>3. CASE ~(end > m.vn[ino].i.size)
  <2>1. m2 = m
    BY <1>3 DEF Grow
  <2> QED BY <1>1, <1>3, <2>1, DidNothing
<1> QED BY <1>2, <1>3

IoErrors == {"EIO", "EINVAL", "ENOSPC"}

(* What sfs_partialio and sfs_blockio do.                                   *)
Filled(m, o, L, H, ino, fb, us, c) ==
    /\ IsOutcome(o) /\ Did(m, o.m, L, H, ino)
    /\ \/ o.err \in IoErrors /\ SameContents(m, o.m, ino)
       \/ /\ o.err = "ok" /\ fb < NDirect + DbPerId
          /\ \E m1 : /\ Did(m, m1, L, H, ino) /\ SameContents(m, m1, ino)
                     /\ Stored(m1, o.m, ino, fb, us, c)

LEMMA StoreFilled ==
    ASSUME NEW m, NEW L, NEW H, NEW ino \in DOMAIN m.vn, NEW fb \in Nat,
           NEW o, BmapDid(m, o, L, H, ino, fb), o.err = "ok",
           NEW us, NEW c \in Unit,
           NEW r \in Ret(Store(o.m, o.val[1], us, c), <<>>)
    PROVE  Filled(m, r, L, H, ino, fb, us, c)
<1>1. /\ Did(m, o.m, L, H, ino) /\ SameContents(m, o.m, ino)
      /\ fb < NDirect + DbPerId
  BY DEF BmapDid
<1>2. PICK b \in Block \ {0} : o.val = <<b>> /\ Blocks(o.m, ino)[FbPlace(fb)] = b
  BY DEF BmapDid
<1>3. Sound(o.m, L, H) /\ ino \in DOMAIN o.m.vn
  BY <1>1 DEF Did
<1>4. IsOutcome(r) /\ r.m = Store(o.m, b, us, c) /\ r.err = "ok"
  BY <1>2, RetIs
<1>5. Did(o.m, r.m, L, H, ino) /\ Stored(o.m, r.m, ino, fb, us, c)
  BY <1>1, <1>2, <1>3, <1>4, StoreDid
<1>6. Did(m, r.m, L, H, ino)
  BY <1>1, <1>5, DidTrans
<1> QED BY <1>1, <1>4, <1>5, <1>6 DEF Filled

LEMMA BlockIoDid ==
    ASSUME NEW m, NEW L, NEW H, Sound(m, L, H), NEW ino \in DOMAIN m.vn,
           NEW fb \in Nat, NEW c \in Unit, NEW o \in BlockIo(m, ino, fb, c)
    PROVE  Filled(m, o, L, H, ino, fb, 0 .. Slots - 1, c)
<1>1. PICK q \in Bmap(m, ino, fb, TRUE) :
         IF q.err = "ok" THEN o \in Ret(Store(q.m, q.val[1], 0 .. Slots - 1, c), <<>>)
         ELSE o = q
  BY DEF BlockIo, Then
<1>2. BmapDid(m, q, L, H, ino, fb)
  BY BmapAllocs
<1>3. CASE q.err = "ok"
  <2>1. o \in Ret(Store(q.m, q.val[1], 0 .. Slots - 1, c), <<>>)
    BY <1>1, <1>3
  <2> QED BY <1>2, <1>3, <2>1, StoreFilled
<1>4. CASE q.err # "ok"
  BY <1>1, <1>2, <1>4 DEF BmapDid, Filled, IoErrors
<1> QED BY <1>3, <1>4

LEMMA PartialIoDid ==
    ASSUME NEW m, NEW L, NEW H, Sound(m, L, H), NEW ino \in DOMAIN m.vn,
           NEW fb \in Nat, NEW us, NEW c \in Unit,
           NEW o \in PartialIo(m, ino, fb, us, c)
    PROVE  Filled(m, o, L, H, ino, fb, us, c)
<1>1. PICK q \in Bmap(m, ino, fb, TRUE) :
         IF q.err = "ok"
         THEN o \in Then(Rblock(q.m, q.val[1], "units"), LAMBDA m2, w :
                       Ret(Store(m2, q.val[1], us, c), <<>>))
         ELSE o = q
  BY DEF PartialIo, Then
<1>2. BmapDid(m, q, L, H, ino, fb)
  BY BmapAllocs
<1>3. CASE q.err = "ok"
  <2>1. PICK r \in Rblock(q.m, q.val[1], "units") :
           IF r.err = "ok" THEN o \in Ret(Store(r.m, q.val[1], us, c), <<>>)
           ELSE o = r
    BY <1>1, <1>3 DEF Then
  <2>2. PICK b \in Block \ {0} : q.val = <<b>> /\ Blocks(q.m, ino)[FbPlace(fb)] = b
    BY <1>2, <1>3 DEF BmapDid
  <2>3. q.m.disk[q.val[1]].k \in {"zero", "units"}
    <3>1. Did(m, q.m, L, H, ino) /\ fb < NDirect + DbPerId
      BY <1>2, <1>3 DEF BmapDid
    <3>2. Sound(q.m, L, H) /\ ino \in DOMAIN q.m.vn
      BY <3>1 DEF Did
    <3>3. WellFormed(q.m, ino)
      BY <3>2, LoadedIs
    <3>4. FbPlace(fb) \in DataPlace
      BY <3>1, FbPlaceIs
    <3> QED BY <2>2, <3>3, <3>4 DEF WellFormed
  <2>4. IsOutcome(r) /\ r.m = q.m /\ r.err \in {"ok", "EIO"}
    BY <2>3, RblockIs
  <2>5. CASE r.err = "ok"
    <3>1. o \in Ret(Store(q.m, q.val[1], us, c), <<>>)
      BY <2>1, <2>4, <2>5
    <3> QED BY <1>2, <1>3, <3>1, StoreFilled
  <2>6. CASE r.err # "ok"
    BY <1>2, <2>1, <2>4, <2>6 DEF BmapDid, Filled, IoErrors
  <2> QED BY <2>5, <2>6
<1>4. CASE q.err # "ok"
  BY <1>1, <1>2, <1>4 DEF BmapDid, Filled, IoErrors
<1> QED BY <1>3, <1>4

LEMMA TimesSlots ==
    ASSUME NEW a \in Nat, NEW b \in Nat, a < b
    PROVE  a * Slots + Slots <= b * Slots /\ a * Slots \in Nat /\ b * Slots \in Nat
<1>1. PICK d \in Nat : b = a + 1 + d
  <2>1. b - a - 1 \in Nat /\ b = a + 1 + (b - a - 1)
    OBVIOUS
  <2> QED BY <2>1
<1>2. Slots \in Nat
  BY BlockFacts
<1>3. (a + 1 + d) * Slots = a * Slots + Slots + d * Slots
  BY <1>2
<1>4. d * Slots \in Nat /\ a * Slots \in Nat /\ b * Slots \in Nat
  BY <1>2
<1> QED BY <1>1, <1>2, <1>3, <1>4

LEMMA Greatest ==
    ASSUME NEW T \in SUBSET (0 .. Slots - 1), T # {}
    PROVE  Max(T) \in T /\ \A x \in T : x <= Max(T)
<1> DEFINE U == {Slots - 1 - x : x \in T}
<1>1. U \in SUBSET Nat /\ U # {}
  BY BlockFacts
<1>2. PICK y \in U : \A z \in U : y <= z
  <2> HIDE DEF U
  <2> QED BY <1>1, Least
<1>3. PICK x \in T : y = Slots - 1 - x
  BY <1>2
<1>4. \A z \in T : x >= z
  <2>1. ASSUME NEW z \in T PROVE x >= z
    <3>1. Slots - 1 - z \in U
      OBVIOUS
    <3>2. Slots - 1 - x <= Slots - 1 - z
      BY <1>2, <1>3, <3>1
    <3>3. x \in Int /\ z \in Int
      OBVIOUS
    <3> QED BY <3>2, <3>3, BlockFacts
  <2> QED BY <2>1
<1>5. \E k \in T : \A z \in T : k >= z
  BY <1>4
<1>6. Max(T) \in T /\ \A z \in T : Max(T) >= z
  BY <1>5 DEF Max
<1> QED BY <1>6, BlockFacts

(* The units us of block fb were written, and the file grew to hold them.   *)
Wrote(m, m2, ino, fb, us, c) ==
    /\ InodeOf(m2, ino).size = IF fb * Slots + Max(us) + 1 > InodeOf(m, ino).size
                               THEN fb * Slots + Max(us) + 1
                               ELSE InodeOf(m, ino).size
    /\ \A u \in 1 .. InodeOf(m2, ino).size :
          /\ (u - 1) \div Slots = fb /\ (u - 1) % Slots \in us =>
                Units(m2, ino)[u] = c
          /\ u <= InodeOf(m, ino).size
             /\ ~((u - 1) \div Slots = fb /\ (u - 1) % Slots \in us) =>
                Units(m2, ino)[u] = Units(m, ino)[u]

LEMMA WriteBlockDid ==
    ASSUME NEW m, NEW L, NEW H, Sound(m, L, H), NEW ino \in DOMAIN m.vn,
           NEW fb \in Nat, NEW off \in Nat, NEW len \in Nat \ {0}, NEW c \in Unit,
           NEW us, us = {x \in 0 .. Slots - 1 : fb * Slots + x \in off .. off + len - 1},
           us # {}, NEW o \in WriteBlock(m, ino, fb, off, len, c)
    PROVE  /\ IsOutcome(o) /\ Did(m, o.m, L, H, ino)
           /\ \/ o.err \in IoErrors /\ SameContents(m, o.m, ino)
              \/ o.err = "ok" /\ Wrote(m, o.m, ino, fb, us, c)
<1> DEFINE end == fb * Slots + Max(us) + 1
<1>1. PICK q \in (IF us = 0 .. Slots - 1 THEN BlockIo(m, ino, fb, c)
                  ELSE PartialIo(m, ino, fb, us, c)) :
         IF q.err = "ok" THEN o \in Ret(Grow(q.m, ino, end), <<>>) ELSE o = q
  BY DEF WriteBlock, Then
<1>2. Filled(m, q, L, H, ino, fb, us, c)
  <2>1. CASE us = 0 .. Slots - 1
    <3>1. q \in BlockIo(m, ino, fb, c)
      BY <2>1
    <3>2. Filled(m, q, L, H, ino, fb, 0 .. Slots - 1, c)
      BY <3>1, BlockIoDid
    <3> QED BY <2>1, <3>2
  <2>2. CASE us # 0 .. Slots - 1
    <3>1. q \in PartialIo(m, ino, fb, us, c)
      BY <2>2
    <3> QED BY <3>1, PartialIoDid
  <2> QED BY <2>1, <2>2
<1>3. CASE q.err # "ok"
  BY <1>1, <1>2, <1>3 DEF Filled
<1>4. CASE q.err = "ok"
  <2>1. PICK m1 : /\ Did(m, m1, L, H, ino) /\ SameContents(m, m1, ino)
                  /\ Stored(m1, q.m, ino, fb, us, c)
    BY <1>2, <1>4 DEF Filled, IoErrors
  <2>2. Did(m, q.m, L, H, ino) /\ fb < NDirect + DbPerId
    BY <1>2, <1>4 DEF Filled, IoErrors
  <2>3. Sound(q.m, L, H) /\ ino \in DOMAIN q.m.vn
    BY <2>2 DEF Did
  <2>4. Max(us) \in 0 .. Slots - 1
    BY Greatest
  <2>5. end \in Nat /\ end <= MaxSize
    <3>1. fb * Slots + Slots <= (NDirect + DbPerId) * Slots /\ fb * Slots \in Nat
      BY <2>2, TimesSlots, BlockFacts
    <3>2. Max(us) + 1 <= Slots /\ Max(us) + 1 \in Nat
      BY <2>4, BlockFacts
    <3>3. (NDirect + DbPerId) * Slots \in Nat /\ Slots \in Nat
      BY BlockFacts
    <3>4. MaxSize = (NDirect + DbPerId) * Slots
      BY DEF MaxSize
    <3> DEFINE A == fb * Slots
               B == (NDirect + DbPerId) * Slots
    <3> HIDE DEF A, B
    <3>5. A + (Max(us) + 1) <= B /\ A + (Max(us) + 1) \in Nat
      BY <3>1, <3>2, <3>3 DEF A, B
    <3>6. A + (Max(us) + 1) = end
      BY <2>4, <3>1 DEF A
    <3> QED BY <3>4, <3>5, <3>6 DEF B
  <2>6. IsOutcome(o) /\ o.m = Grow(q.m, ino, end) /\ o.err = "ok"
    BY <1>1, <1>4, RetIs
  <2> DEFINE m2 == o.m
  <2> HIDE DEF end
  <2>7. /\ Did(q.m, m2, L, H, ino)
        /\ InodeOf(m2, ino).size = IF end > InodeOf(q.m, ino).size THEN end
                                  ELSE InodeOf(q.m, ino).size
        /\ \A x \in DataPlace : Cont(m2, ino, x) = Cont(q.m, ino, x)
    BY <2>3, <2>5, <2>6, GrowDid
  <2>8. Did(m, m2, L, H, ino)
    BY <2>2, <2>7, DidTrans
  <2>9. /\ InodeOf(q.m, ino).size = InodeOf(m, ino).size
        /\ InodeOf(m1, ino).size = InodeOf(m, ino).size
        /\ Units(m1, ino) = Units(m, ino)
    BY <2>1 DEF Stored, SameContents
  <2>10. /\ IsState(m2) /\ IsState(m1) /\ ino \in Block
         /\ InodeOf(m2, ino).size <= MaxSize /\ InodeOf(m1, ino).size <= MaxSize
    BY <2>1, <2>8, LoadedIs DEF Did, WellFormed
  <2>11. /\ InodeOf(m2, ino).size \in Nat /\ InodeOf(m1, ino).size \in Nat
         /\ \A u \in 1 .. InodeOf(m2, ino).size :
               /\ UnitPlace(u) \in DataPlace /\ (u - 1) % Slots \in 0 .. Slots - 1
               /\ Units(m2, ino)[u] = Cont(m2, ino, UnitPlace(u))[(u - 1) % Slots]
         /\ \A u \in 1 .. InodeOf(m1, ino).size :
               Units(m1, ino)[u] = Cont(m1, ino, UnitPlace(u))[(u - 1) % Slots]
    BY <2>10, UnitsAre
  <2>12. ASSUME NEW u \in 1 .. InodeOf(m2, ino).size
         PROVE  /\ (u - 1) \div Slots = fb /\ (u - 1) % Slots \in us =>
                      Units(m2, ino)[u] = c
                /\ u <= InodeOf(m, ino).size
                   /\ ~((u - 1) \div Slots = fb /\ (u - 1) % Slots \in us) =>
                      Units(m2, ino)[u] = Units(m, ino)[u]
    <3> DEFINE fu == (u - 1) \div Slots
               y == (u - 1) % Slots
               x == UnitPlace(u)
    <3>1. fu \in Nat /\ x = FbPlace(fu)
      BY <2>11, BlockFacts DEF UnitPlace
    <3>2. /\ x \in DataPlace /\ y \in 0 .. Slots - 1
          /\ Units(m2, ino)[u] = Cont(m2, ino, x)[y]
          /\ Cont(m2, ino, x) = Cont(q.m, ino, x)
      BY <2>7, <2>11
    <3>3. u <= InodeOf(m, ino).size => Units(m, ino)[u] = Cont(m1, ino, x)[y]
      BY <2>9, <2>11
    <3>4. x = FbPlace(fb) <=> fu = fb
      BY <3>1, FbPlaceInj
    <3>5. Cont(q.m, ino, x) = IF x = FbPlace(fb)
                              THEN [z \in 0 .. Slots - 1 |->
                                     IF z \in us THEN c ELSE Cont(m1, ino, x)[z]]
                              ELSE Cont(m1, ino, x)
      BY <2>1, <3>2 DEF Stored
    <3> HIDE DEF x, y, fu
    <3>6. Units(m2, ino)[u] = IF fu = fb /\ y \in us THEN c ELSE Cont(m1, ino, x)[y]
      BY <3>2, <3>4, <3>5
    <3> QED BY <3>3, <3>6 DEF fu, y
  <2>13. InodeOf(m2, ino).size = IF end > InodeOf(m, ino).size THEN end
                                ELSE InodeOf(m, ino).size
    BY <2>7, <2>9
  <2>14. Wrote(m, m2, ino, fb, us, c)
    BY <2>12, <2>13 DEF Wrote, end
  <2> QED BY <2>6, <2>8, <2>14
<1> QED BY <1>3, <1>4

(* w is the sets of outcomes of the first writes that Io makes.            *)
IoRun(w, m, ino, off, len, c, first, N) ==
    /\ w[0] = Ret(m, <<>>)
    /\ \A n \in 1 .. N : \A q \in w[n] : \E p \in w[n - 1] :
          IF p.err = "ok" THEN q \in WriteBlock(p.m, ino, first + n - 1, off, len, c)
          ELSE q = p

LEMMA IoSteps ==
    ASSUME NEW m, NEW ino, NEW off \in Nat, NEW len \in Nat \ {0}, NEW c,
           NEW first, first = off \div Slots,
           NEW last, last = (off + len - 1) \div Slots
    PROVE  /\ first \in Nat /\ last \in Nat /\ first <= last
           /\ \E w : /\ Io(m, ino, off, len, c) = w[last - first + 1]
                     /\ IoRun(w, m, ino, off, len, c, first, last - first + 1)
<1> DEFINE N == last - first + 1
           Next1(S, n) == Then(S, LAMBDA m1, v :
                             WriteBlock(m1, ino, first + n - 1, off, len, c))
           Is(f, k) == f = [n \in 0 .. k |-> IF n = 0 THEN Ret(m, <<>>)
                                            ELSE Next1(f[n - 1], n)]
<1>1. first \in Nat /\ last \in Nat /\ first <= last
  BY BlockFacts
<1>2. N \in Nat /\ N # 0
  BY <1>1
<1>3. Io(m, ino, off, len, c) = (CHOOSE f : Is(f, N))[N]
  BY DEF Io
<1> HIDE DEF N, Next1
<1>4. \A k \in 0 .. N : k \in {j \in Nat : \E f : Is(f, j)}
  <2> DEFINE S == {j \in Nat : \E f : Is(f, j)}
  <2>1. 0 \in S
    <3>1. Is([n \in 0 .. 0 |-> Ret(m, <<>>)], 0)
      OBVIOUS
    <3> QED BY <3>1
  <2>2. ASSUME NEW k \in 0 .. N - 1, k \in S PROVE k + 1 \in S
    <3>1. PICK f : Is(f, k)
      BY <2>2
    <3> DEFINE g == [n \in 0 .. k + 1 |-> IF n = k + 1 THEN Next1(f[k], k + 1) ELSE f[n]]
    <3>2. ASSUME NEW n \in 0 .. k + 1
          PROVE  g[n] = IF n = 0 THEN Ret(m, <<>>) ELSE Next1(g[n - 1], n)
      <4>1. CASE n = k + 1
        <5>1. /\ g[n] = Next1(f[k], k + 1) /\ n # 0 /\ n - 1 = k /\ k \in 0 .. k + 1
              /\ k # k + 1
          BY <1>2, <4>1
        <5>2. g[k] = f[k]
          BY <5>1
        <5> QED BY <4>1, <5>1, <5>2
      <4>2. CASE n # k + 1
        <5>1. n \in 0 .. k /\ g[n] = f[n]
          BY <1>2, <4>2
        <5>2. n # 0 => n - 1 \in 0 .. k + 1 /\ n - 1 # k + 1
          BY <1>2, <5>1
        <5>3. n # 0 => g[n - 1] = f[n - 1]
          BY <5>2
        <5>4. f[n] = IF n = 0 THEN Ret(m, <<>>) ELSE Next1(f[n - 1], n)
          BY <3>1, <5>1
        <5> QED BY <5>1, <5>3, <5>4
      <4> QED BY <4>1, <4>2
    <3>3. Is(g, k + 1)
      <4> HIDE DEF g
      <4>1. g = [n \in 0 .. k + 1 |-> g[n]]
        BY DEF g
      <4> QED BY <3>2, <4>1
    <3>4. k + 1 \in Nat
      BY <1>2
    <3> HIDE DEF g
    <3> QED BY <3>3, <3>4
  <2> HIDE DEF S
  <2>3. \A k \in 0 .. N : k \in S
    BY <1>2, <2>1, <2>2, BoundedInduction
  <2> QED BY <2>3 DEF S
<1>5. \E f : Is(f, N)
  <2> HIDE DEF Is
  <2>1. N \in 0 .. N
    BY <1>2
  <2> QED BY <1>4, <2>1
<1> DEFINE w == CHOOSE f : Is(f, N)
<1>6. Is(w, N)
  BY <1>5
<1> HIDE DEF w
<1>7. w[0] = Ret(m, <<>>)
  BY <1>2, <1>6
<1>8. ASSUME NEW n \in 1 .. N, NEW q \in w[n]
      PROVE  \E p \in w[n - 1] :
                IF p.err = "ok" THEN q \in WriteBlock(p.m, ino, first + n - 1, off, len, c)
                ELSE q = p
  <2>1. n \in 0 .. N /\ n # 0
    BY <1>2
  <2>2. w[n] = Next1(w[n - 1], n)
    BY <1>6, <2>1
  <2>3. q \in Next1(w[n - 1], n)
    BY <1>8, <2>2
  <2> QED BY <2>3 DEF Next1, Then
<1>9. Io(m, ino, off, len, c) = w[last - first + 1]
  BY <1>3 DEF w, N
<1>10. IoRun(w, m, ino, off, len, c, first, last - first + 1)
  BY <1>7, <1>8 DEF IoRun, N
<1> QED BY <1>1, <1>9, <1>10

LEMMA DivSlots ==
    ASSUME NEW a \in Nat
    PROVE  /\ a \div Slots \in Nat /\ a % Slots \in 0 .. Slots - 1
           /\ a = (a \div Slots) * Slots + (a % Slots)
BY BlockFacts

LEMMA UnitsOfBlock ==
    ASSUME NEW off \in Nat, NEW len \in Nat \ {0},
           NEW fb \in (off \div Slots) .. ((off + len - 1) \div Slots)
    PROVE  /\ fb \in Nat
           /\ {x \in 0 .. Slots - 1 : fb * Slots + x \in off .. off + len - 1} # {}
<1> DEFINE first == off \div Slots
           last == (off + len - 1) \div Slots
<1>1. /\ first \in Nat /\ off % Slots \in 0 .. Slots - 1
      /\ off = first * Slots + (off % Slots)
  BY DivSlots
<1>2. /\ last \in Nat /\ (off + len - 1) % Slots \in 0 .. Slots - 1
      /\ off + len - 1 = last * Slots + ((off + len - 1) % Slots)
  <2>1. off + len - 1 \in Nat
    OBVIOUS
  <2> QED BY <2>1, DivSlots
<1>3. fb \in Nat /\ first <= fb /\ fb <= last
  BY <1>1, <1>2
<1> DEFINE r == off % Slots
           q == (off + len - 1) % Slots
<1> HIDE DEF first, last, r, q
<1>4. CASE fb = first
  <2>1. r \in 0 .. Slots - 1 /\ fb * Slots + r \in off .. off + len - 1
    <3>1. fb * Slots + r = off
      BY <1>1, <1>4 DEF r
    <3>2. off \in off .. off + len - 1
      OBVIOUS
    <3> QED BY <1>1, <3>1, <3>2 DEF r
  <2> QED BY <1>3, <2>1
<1>5. CASE first < fb
  <2> DEFINE A == first * Slots
             B == fb * Slots
             C == last * Slots
  <2>1. A + Slots <= B /\ A \in Nat /\ B \in Nat
    BY <1>1, <1>3, <1>5, TimesSlots
  <2>2. B <= C /\ C \in Nat
    <3>1. CASE fb = last
      BY <2>1, <3>1
    <3>2. CASE fb < last
      <4>1. B + Slots <= C /\ C \in Nat /\ Slots \in Nat
        BY <1>2, <1>3, <3>2, TimesSlots, BlockFacts
      <4> QED BY <2>1, <4>1
    <3> QED BY <1>2, <1>3, <3>1, <3>2
  <2>3. off = A + r /\ off + len - 1 = C + q
    BY <1>1, <1>2 DEF r, q
  <2>4. r \in 0 .. Slots - 1 /\ q \in 0 .. Slots - 1 /\ Slots \in Nat
    BY <1>1, <1>2, BlockFacts DEF r, q
  <2> HIDE DEF A, B, C
  <2>5. B + 0 \in off .. off + len - 1 /\ 0 \in 0 .. Slots - 1
    BY <2>1, <2>2, <2>3, <2>4
  <2> QED BY <1>3, <2>5 DEF B
<1> QED BY <1>1, <1>3, <1>4, <1>5

LEMMA IoDid ==
    ASSUME NEW m, NEW L, NEW H, Sound(m, L, H), NEW ino \in DOMAIN m.vn,
           NEW off \in Nat, NEW len \in Nat \ {0}, NEW c \in Unit,
           NEW o \in Io(m, ino, off, len, c)
    PROVE  IsOutcome(o) /\ Did(m, o.m, L, H, ino) /\ o.err \in IoErrors \cup {"ok"}
<1> DEFINE first == off \div Slots
           last == (off + len - 1) \div Slots
           Ok(q) == /\ IsOutcome(q) /\ Did(m, q.m, L, H, ino)
                    /\ q.err \in IoErrors \cup {"ok"}
<1>1. first \in Nat /\ last \in Nat /\ first <= last
  BY IoSteps
<1>2. PICK w : /\ Io(m, ino, off, len, c) = w[last - first + 1]
               /\ IoRun(w, m, ino, off, len, c, first, last - first + 1)
  BY IoSteps
<1> DEFINE N == last - first + 1
           S == {n \in Nat : \A q \in w[n] : Ok(q)}
<1>3. N \in Nat
  BY <1>1
<1>4. 0 \in S
  <2>1. ASSUME NEW q \in w[0] PROVE Ok(q)
    <3>0. q \in Ret(m, <<>>)
      BY <1>2, <2>1 DEF IoRun
    <3>1. IsOutcome(q) /\ q.m = m /\ q.err = "ok"
      BY <3>0, RetIs
    <3> QED BY <3>1, DidNothing
  <2> QED BY <2>1
<1>5. ASSUME NEW n \in 0 .. N - 1, n \in S PROVE n + 1 \in S
  <2>1. n + 1 \in 1 .. N /\ n + 1 \in Nat /\ n + 1 - 1 = n
    BY <1>3
  <2>2. ASSUME NEW q \in w[n + 1] PROVE Ok(q)
    <3>2. PICK p \in w[n + 1 - 1] :
             IF p.err = "ok"
             THEN q \in WriteBlock(p.m, ino, first + (n + 1) - 1, off, len, c)
             ELSE q = p
      BY <1>2, <2>1, <2>2 DEF IoRun
    <3>3. Ok(p)
      BY <1>5, <2>1, <3>2
    <3>4. CASE p.err # "ok"
      BY <3>2, <3>3, <3>4
    <3>5. CASE p.err = "ok"
      <4> DEFINE fb == first + (n + 1) - 1
                 us == {x \in 0 .. Slots - 1 : fb * Slots + x \in off .. off + len - 1}
      <4>1. fb \in first .. last
        BY <1>1, <1>3
      <4>2. fb \in Nat /\ us # {}
        BY <4>1, UnitsOfBlock
      <4>3. q \in WriteBlock(p.m, ino, fb, off, len, c)
        BY <3>2, <3>5
      <4>4. Sound(p.m, L, H) /\ ino \in DOMAIN p.m.vn /\ Did(m, p.m, L, H, ino)
        BY <3>3 DEF Did
      <4> HIDE DEF fb, first, last
      <4>5. /\ IsOutcome(q) /\ Did(p.m, q.m, L, H, ino)
            /\ q.err \in IoErrors \/ q.err = "ok"
        BY <4>2, <4>3, <4>4, WriteBlockDid
      <4> QED BY <4>4, <4>5, DidTrans
    <3> QED BY <3>4, <3>5
  <2> HIDE DEF Ok
  <2> QED BY <2>1, <2>2
<1> HIDE DEF S, N
<1>6. N \in S
  <2>1. \A n \in 0 .. N : n \in S
    BY <1>3, <1>4, <1>5, BoundedInduction
  <2> QED BY <1>3, <2>1
<1>7. o \in w[N]
  BY <1>2 DEF N
<1> QED BY <1>6, <1>7 DEF S

(* One unit, written to the file or at its end.                             *)
WroteUnit(m, m2, ino, off, c) ==
    /\ InodeOf(m2, ino).size = IF off + 1 > InodeOf(m, ino).size THEN off + 1
                               ELSE InodeOf(m, ino).size
    /\ \A u \in 1 .. InodeOf(m2, ino).size :
          /\ u = off + 1 => Units(m2, ino)[u] = c
          /\ u <= InodeOf(m, ino).size /\ u # off + 1 =>
                Units(m2, ino)[u] = Units(m, ino)[u]

LEMMA IoUnitDid ==
    ASSUME NEW m, NEW L, NEW H, Sound(m, L, H), NEW ino \in DOMAIN m.vn,
           NEW off \in Nat, NEW c \in Unit, NEW o \in Io(m, ino, off, 1, c)
    PROVE  /\ IsOutcome(o) /\ Did(m, o.m, L, H, ino)
           /\ \/ o.err \in IoErrors /\ SameContents(m, o.m, ino)
              \/ o.err = "ok" /\ WroteUnit(m, o.m, ino, off, c)
<1> DEFINE fb == off \div Slots
           r == off % Slots
           us == {x \in 0 .. Slots - 1 : fb * Slots + x \in off .. off + 1 - 1}
<1>1. fb \in Nat /\ r \in 0 .. Slots - 1 /\ off = fb * Slots + r
  BY DivSlots
<1>2. PICK w : /\ Io(m, ino, off, 1, c) = w[fb - fb + 1]
               /\ IoRun(w, m, ino, off, 1, c, fb, fb - fb + 1)
  <2>1. fb = (off + 1 - 1) \div Slots
    OBVIOUS
  <2>2. 1 \in Nat \ {0}
    OBVIOUS
  <2> QED BY <2>1, <2>2, IoSteps
<1> HIDE DEF fb
<1>3. fb - fb + 1 = 1 /\ 1 \in 1 .. fb - fb + 1 /\ fb + 1 - 1 = fb /\ 1 - 1 = 0
  BY <1>1
<1>4. PICK p \in w[0] :
         IF p.err = "ok" THEN o \in WriteBlock(p.m, ino, fb + 1 - 1, off, 1, c)
         ELSE o = p
  <2>1. o \in w[1]
    BY <1>2, <1>3
  <2> QED BY <1>2, <1>3, <2>1 DEF IoRun
<1>5. o \in WriteBlock(m, ino, fb, off, 1, c)
  <2>1. p \in Ret(m, <<>>)
    BY <1>2, <1>4 DEF IoRun
  <2>2. p.m = m /\ p.err = "ok"
    BY <2>1, RetIs
  <2> QED BY <1>3, <1>4, <2>2
<1>6. us = {r}
  <2> DEFINE A == fb * Slots
  <2>1. A \in Nat
    BY <1>1, BlockFacts
  <2>2. off = A + r /\ Slots \in Nat
    BY <1>1, BlockFacts
  <2>3. ASSUME NEW x \in 0 .. Slots - 1
        PROVE  A + x \in off .. off + 1 - 1 <=> x = r
    <3> HIDE DEF A, r
    <3>1. r \in 0 .. Slots - 1
      BY <1>1
    <3> QED BY <2>1, <2>2, <3>1
  <2> HIDE DEF r
  <2> QED BY <1>1, <2>3
<1>7. Max(us) = r
  <2>1. us \in SUBSET (0 .. Slots - 1) /\ us # {}
    BY <1>1, <1>6
  <2> HIDE DEF us, r
  <2> QED BY <1>6, <2>1, Greatest
<1>8. /\ IsOutcome(o) /\ Did(m, o.m, L, H, ino)
      /\ \/ o.err \in IoErrors /\ SameContents(m, o.m, ino)
         \/ o.err = "ok" /\ Wrote(m, o.m, ino, fb, us, c)
  <2>1. us # {} /\ 1 \in Nat \ {0}
    BY <1>6
  <2> QED BY <1>1, <1>5, <2>1, WriteBlockDid
<1>9. ASSUME Wrote(m, o.m, ino, fb, us, c) PROVE WroteUnit(m, o.m, ino, off, c)
  <2>1. fb * Slots + Max(us) + 1 = off + 1
    BY <1>1, <1>7
  <2>2. IsState(o.m) /\ ino \in Block /\ InodeOf(o.m, ino).size \in Nat
    <3>1. Sound(o.m, L, H) /\ ino \in DOMAIN o.m.vn
      BY <1>8 DEF Did
    <3> QED BY <3>1, LoadedIs DEF Inode
  <2>3. ASSUME NEW u \in 1 .. InodeOf(o.m, ino).size
        PROVE  (u - 1) \div Slots = fb /\ (u - 1) % Slots \in us <=> u = off + 1
    <3>1. /\ u - 1 \in Nat
          /\ u - 1 = ((u - 1) \div Slots) * Slots + ((u - 1) % Slots)
      BY <2>2, DivSlots
    <3>2. u = off + 1 => (u - 1) \div Slots = fb /\ (u - 1) % Slots = r
      BY DEF fb
    <3>3. (u - 1) \div Slots = fb /\ (u - 1) % Slots = r => u - 1 = off
      BY <1>1, <3>1
    <3> HIDE DEF us, r
    <3> QED BY <1>6, <2>2, <3>2, <3>3
  <2> HIDE DEF us, r
  <2> QED BY <1>9, <2>1, <2>3 DEF Wrote, WroteUnit
<1> QED BY <1>8, <1>9

------------------------------------------------------------------------------
(* Reading, and sfs_dir_findname *)
LEMMA ReadUnitIs ==
    ASSUME NEW m, NEW L, NEW H, Sound(m, L, H), NEW ino \in DOMAIN m.vn,
           NEW off \in Nat, off < m.vn[ino].i.size, NEW o \in ReadUnit(m, ino, off)
    PROVE  /\ IsOutcome(o) /\ o.m = m
           /\ \/ o.err \in {"EIO", "EINVAL"}
              \/ o.err = "ok" /\ o.val = <<Units(m, ino)[off + 1]>>
<1> DEFINE fb == off \div Slots
           y == off % Slots
           b == Blocks(m, ino)[FbPlace(fb)]
<1>1. /\ IsState(m) /\ ino \in L /\ ino \in Block /\ WellFormed(m, ino)
      /\ InodeOf(m, ino) = m.vn[ino].i /\ m.vn[ino].i \in Inode
  BY LoadedIs
<1>2. fb \in Nat /\ y \in 0 .. Slots - 1
  BY DivSlots
<1>3. /\ FbPlace(fb) \in DataPlace
      /\ Units(m, ino)[off + 1] = Cont(m, ino, FbPlace(fb))[y]
  <2>1. InodeOf(m, ino).size <= MaxSize
    BY <1>1 DEF WellFormed
  <2>2. off + 1 \in 1 .. InodeOf(m, ino).size
    BY <1>1 DEF Inode
  <2>3. /\ UnitPlace(off + 1) \in DataPlace
        /\ Units(m, ino)[off + 1] = Cont(m, ino, UnitPlace(off + 1))[(off + 1 - 1) % Slots]
    BY <1>1, <2>1, <2>2, UnitsAre
  <2>4. off + 1 - 1 = off
    OBVIOUS
  <2> QED BY <2>3, <2>4 DEF UnitPlace
<1>4. PICK q \in Bmap(m, ino, fb, FALSE) :
         IF q.err = "ok"
         THEN o \in IF q.val[1] = 0 THEN Ret(q.m, <<Zero>>)
                    ELSE Then(Rblock(q.m, q.val[1], "units"), LAMBDA m2, w :
                            Ret(m2, <<AsUnits(m2.disk[q.val[1]])[y]>>))
         ELSE o = q
  BY DEF ReadUnit, Then
<1> HIDE DEF fb
<1>5. /\ IsOutcome(q) /\ q.m = m
      /\ \/ q.err \in {"EIO", "EINVAL"}
         \/ q.err = "ok" /\ q.val = <<b>>
  <2>1. fb \in Nat /\ q \in Bmap(m, ino, fb, FALSE)
    BY <1>2, <1>4
  <2>2. BmapFound(m, q, ino, fb)
    BY <2>1, BmapFinds
  <2> QED BY <2>2 DEF BmapFound
<1>6. CASE q.err # "ok"
  BY <1>4, <1>5, <1>6
<1>7. CASE q.err = "ok"
  <2>1. q.m = m /\ q.val[1] = b
    BY <1>5, <1>7
  <2>2. o \in IF q.val[1] = 0 THEN Ret(q.m, <<Zero>>)
              ELSE Then(Rblock(q.m, q.val[1], "units"), LAMBDA m2, w :
                      Ret(m2, <<AsUnits(m2.disk[q.val[1]])[y]>>))
    BY <1>4, <1>7
  <2> HIDE DEF b, y
  <2>3. CASE b = 0
    <3>1. o \in Ret(m, <<Zero>>)
      BY <2>1, <2>2, <2>3
    <3>2. IsOutcome(o) /\ o.m = m /\ o.err = "ok" /\ o.val = <<Zero>>
      BY <3>1, RetIs
    <3>3. Cont(m, ino, FbPlace(fb))[y] = Zero
      BY <1>2, <2>3 DEF Cont, b
    <3> QED BY <1>3, <3>2, <3>3
  <2>4. CASE b # 0
    <3>1. PICK r \in Rblock(m, b, "units") :
             IF r.err = "ok" THEN o \in Ret(r.m, <<AsUnits(r.m.disk[b])[y]>>)
             ELSE o = r
      BY <2>1, <2>2, <2>4 DEF Then
    <3>2. m.disk[b].k \in {"zero", "units"}
      BY <1>1, <1>3, <2>4 DEF WellFormed, b
    <3>3. IsOutcome(r) /\ r.m = m /\ r.err \in {"ok", "EIO"}
      BY <3>1, <3>2, RblockIs
    <3>4. CASE r.err = "ok"
      <4>1. o \in Ret(m, <<AsUnits(m.disk[b])[y]>>)
        BY <3>1, <3>3, <3>4
      <4>2. IsOutcome(o) /\ o.m = m /\ o.err = "ok" /\ o.val = <<AsUnits(m.disk[b])[y]>>
        BY <4>1, RetIs
      <4>3. Cont(m, ino, FbPlace(fb))[y] = AsUnits(m.disk[b])[y]
        BY <2>4 DEF Cont, b
      <4> QED BY <1>3, <4>2, <4>3
    <3>5. CASE r.err # "ok"
      BY <3>1, <3>3, <3>5
    <3> QED BY <3>4, <3>5
  <2> QED BY <2>3, <2>4
<1> QED BY <1>6, <1>7

DirOK(m) ==
    /\ \A u \in DOMAIN Dir(m) : Dir(m)[u] \in Entry \cup {Zero}
    /\ \A s, t \in Entries(m) : Dir(m)[s].name = Dir(m)[t].name => s = t
    /\ Root \notin Named(m)

(* What a search of the first n slots for a name found.                     *)
Found(m, name, n, f) ==
    /\ f \in Block \X Int \X Int
    /\ IF f[1] = 0
       THEN \A s \in 1 .. n : Dir(m)[s] # Zero => Dir(m)[s].name # name
       ELSE /\ f[2] \in 0 .. n - 1 /\ Dir(m)[f[2] + 1] # Zero
            /\ Dir(m)[f[2] + 1].name = name /\ Dir(m)[f[2] + 1].ino = f[1]
    /\ f[3] = -1 \/ (f[3] \in 0 .. n - 1 /\ Dir(m)[f[3] + 1] = Zero)

SearchStep(p, q, name, k) ==
    IF p.err = "ok"
    THEN \E r \in ReadUnit(p.m, Root, k) :
            IF r.err = "ok"
            THEN q \in IF r.val[1] = Zero
                       THEN Ret(r.m, [p.val EXCEPT ![3] = k])
                       ELSE IF r.val[1].name # name THEN Ret(r.m, p.val)
                       ELSE IF p.val[1] # 0 THEN Panic(r.m, "bug")
                       ELSE Ret(r.m, [p.val EXCEPT ![1] = r.val[1].ino, ![2] = k])
            ELSE q = r
    ELSE q = p

SearchRun(w, m, name, size) ==
    /\ w[0] = Ret(m, <<0, -1, -1>>)
    /\ \A n \in 1 .. size : \A q \in w[n] : \E p \in w[n - 1] :
          SearchStep(p, q, name, n - 1)

LEMMA FindnameSteps ==
    ASSUME NEW m, NEW name, NEW N, N = m.vn[Root].i.size, N \in Nat
    PROVE  \E w : Findname(m, name) = w[N] /\ SearchRun(w, m, name, N)
<1> DEFINE Next1(S, n) ==
               Then(S, LAMBDA m1, found :
               Then(ReadUnit(m1, Root, n - 1), LAMBDA m2, v :
                  IF v[1] = Zero THEN Ret(m2, [found EXCEPT ![3] = n - 1])
                  ELSE IF v[1].name # name THEN Ret(m2, found)
                  ELSE IF found[1] # 0 THEN Panic(m2, "bug")
                  ELSE Ret(m2, [found EXCEPT ![1] = v[1].ino, ![2] = n - 1])))
           Is(f, k) == f = [n \in 0 .. k |-> IF n = 0 THEN Ret(m, <<0, -1, -1>>)
                                            ELSE Next1(f[n - 1], n)]
<1>3. Findname(m, name) = (CHOOSE f : Is(f, N))[N]
  BY DEF Findname
<1> HIDE DEF Next1
<1>4. \A k \in 0 .. N : k \in {j \in Nat : \E f : Is(f, j)}
  <2> DEFINE S == {j \in Nat : \E f : Is(f, j)}
  <2>1. 0 \in S
    <3>1. Is([n \in 0 .. 0 |-> Ret(m, <<0, -1, -1>>)], 0)
      OBVIOUS
    <3> QED BY <3>1
  <2>2. ASSUME NEW k \in 0 .. N - 1, k \in S PROVE k + 1 \in S
    <3>1. PICK f : Is(f, k)
      BY <2>2
    <3> DEFINE g == [n \in 0 .. k + 1 |-> IF n = k + 1 THEN Next1(f[k], k + 1) ELSE f[n]]
    <3>2. ASSUME NEW n \in 0 .. k + 1
          PROVE  g[n] = IF n = 0 THEN Ret(m, <<0, -1, -1>>) ELSE Next1(g[n - 1], n)
      <4>1. CASE n = k + 1
        <5>1. /\ g[n] = Next1(f[k], k + 1) /\ n # 0 /\ n - 1 = k /\ k \in 0 .. k + 1
              /\ k # k + 1
          BY <4>1
        <5>2. g[k] = f[k]
          BY <5>1
        <5> QED BY <4>1, <5>1, <5>2
      <4>2. CASE n # k + 1
        <5>1. n \in 0 .. k /\ g[n] = f[n]
          BY <4>2
        <5>2. n # 0 => n - 1 \in 0 .. k + 1 /\ n - 1 # k + 1
          BY <5>1
        <5>3. n # 0 => g[n - 1] = f[n - 1]
          BY <5>2
        <5>4. f[n] = IF n = 0 THEN Ret(m, <<0, -1, -1>>) ELSE Next1(f[n - 1], n)
          BY <3>1, <5>1
        <5> QED BY <5>1, <5>3, <5>4
      <4> QED BY <4>1, <4>2
    <3>3. Is(g, k + 1)
      <4> HIDE DEF g
      <4>1. g = [n \in 0 .. k + 1 |-> g[n]]
        BY DEF g
      <4> QED BY <3>2, <4>1
    <3>4. k + 1 \in Nat
      OBVIOUS
    <3> HIDE DEF g
    <3> QED BY <3>3, <3>4
  <2> HIDE DEF S
  <2>3. \A k \in 0 .. N : k \in S
    BY <2>1, <2>2, BoundedInduction
  <2> QED BY <2>3 DEF S
<1>5. \E f : Is(f, N)
  <2> HIDE DEF Is
  <2>1. N \in 0 .. N
    OBVIOUS
  <2> QED BY <1>4, <2>1
<1> DEFINE w == CHOOSE f : Is(f, N)
<1>6. Is(w, N)
  BY <1>5
<1> HIDE DEF w
<1>7. w[0] = Ret(m, <<0, -1, -1>>)
  BY <1>6
<1>8. ASSUME NEW n \in 1 .. N, NEW q \in w[n]
      PROVE  \E p \in w[n - 1] : SearchStep(p, q, name, n - 1)
  <2>1. n \in 0 .. N /\ n # 0
    OBVIOUS
  <2>2. w[n] = Next1(w[n - 1], n)
    BY <1>6, <2>1
  <2>3. q \in Next1(w[n - 1], n)
    BY <1>8, <2>2
  <2>4. PICK p \in w[n - 1] :
           IF p.err = "ok"
           THEN q \in Then(ReadUnit(p.m, Root, n - 1), LAMBDA m2, v :
                  IF v[1] = Zero THEN Ret(m2, [p.val EXCEPT ![3] = n - 1])
                  ELSE IF v[1].name # name THEN Ret(m2, p.val)
                  ELSE IF p.val[1] # 0 THEN Panic(m2, "bug")
                  ELSE Ret(m2, [p.val EXCEPT ![1] = v[1].ino, ![2] = n - 1]))
           ELSE q = p
    BY <2>3 DEF Next1, Then
  <2> QED BY <2>4 DEF Then, SearchStep
<1>9. Findname(m, name) = w[N]
  BY <1>3 DEF w
<1>10. SearchRun(w, m, name, N)
  BY <1>7, <1>8 DEF SearchRun
<1> QED BY <1>9, <1>10

LEMMA DirIs ==
    ASSUME NEW m, NEW L, NEW H, Sound(m, L, H), DirOK(m)
    PROVE  /\ InodeOf(m, Root).size \in Nat
           /\ DOMAIN Dir(m) = 1 .. InodeOf(m, Root).size
           /\ \A u \in DOMAIN Dir(m) : Dir(m)[u] # Zero =>
                 /\ Dir(m)[u] \in Entry /\ u \in Entries(m)
                 /\ Dir(m)[u].ino \in Named(m) /\ Dir(m)[u].ino \in Block
           /\ \A s, t \in DOMAIN Dir(m) :
                 Dir(m)[s] # Zero /\ Dir(m)[t] # Zero /\ Dir(m)[s].name = Dir(m)[t].name
                    => s = t
<1>1. IsState(m) /\ Root \in Block /\ WellFormed(m, Root)
  BY BlockFacts DEF Sound
<1>2. /\ InodeOf(m, Root).size \in Nat
      /\ DOMAIN Dir(m) = 1 .. InodeOf(m, Root).size
  BY <1>1, UnitsAre DEF WellFormed, Dir
<1>3. ASSUME NEW u \in DOMAIN Dir(m), Dir(m)[u] # Zero
      PROVE  /\ Dir(m)[u] \in Entry /\ u \in Entries(m)
             /\ Dir(m)[u].ino \in Named(m) /\ Dir(m)[u].ino \in Block
  <2>1. Dir(m)[u] \in Entry
    BY <1>3 DEF DirOK
  <2>2. u \in Entries(m)
    BY <1>3 DEF Entries, Dir
  <2>3. Dir(m)[u].ino \in Named(m)
    BY <2>2 DEF Named, Dir
  <2> QED BY <2>1, <2>2, <2>3 DEF Entry
<1> QED BY <1>2, <1>3 DEF DirOK

LEMMA FoundMore ==
    ASSUME NEW m, NEW L, NEW H, Sound(m, L, H), DirOK(m), Named(m) \subseteq Block \ {0},
           NEW name, NEW n \in Nat, n + 1 <= InodeOf(m, Root).size,
           NEW f, Found(m, name, n, f), NEW e, e = Dir(m)[n + 1]
    PROVE  /\ e = Zero => Found(m, name, n + 1, [f EXCEPT ![3] = n])
           /\ e # Zero /\ e.name # name => Found(m, name, n + 1, f)
           /\ e # Zero /\ e.name = name =>
                 f[1] = 0 /\ Found(m, name, n + 1, [f EXCEPT ![1] = e.ino, ![2] = n])
<1>1. /\ InodeOf(m, Root).size \in Nat
      /\ DOMAIN Dir(m) = 1 .. InodeOf(m, Root).size
      /\ \A u \in DOMAIN Dir(m) : Dir(m)[u] # Zero =>
            Dir(m)[u].ino \in Named(m) /\ Dir(m)[u].ino \in Block
      /\ \A s, t \in DOMAIN Dir(m) :
            Dir(m)[s] # Zero /\ Dir(m)[t] # Zero /\ Dir(m)[s].name = Dir(m)[t].name
               => s = t
  BY DirIs
<1>2. /\ f \in Block \X Int \X Int /\ n + 1 \in DOMAIN Dir(m)
      /\ 0 .. n - 1 \subseteq 0 .. n + 1 - 1 /\ n \in 0 .. n + 1 - 1
      /\ \A s \in 1 .. n + 1 : s \in 1 .. n \/ s = n + 1
  BY <1>1 DEF Found
<1>3. CASE e = Zero
  <2> DEFINE g == [f EXCEPT ![3] = n]
  <2>1. g \in Block \X Int \X Int /\ g[1] = f[1] /\ g[2] = f[2] /\ g[3] = n
    BY <1>2
  <2> HIDE DEF g
  <2>0. g[3] \in 0 .. n + 1 - 1 /\ Dir(m)[g[3] + 1] = Zero
    BY <1>2, <1>3, <2>1
  <2>2. Found(m, name, n + 1, g)
    <3>1. CASE f[1] = 0
      <4>1. \A s \in 1 .. n : Dir(m)[s] # Zero => Dir(m)[s].name # name
        BY <3>1 DEF Found
      <4>2. \A s \in 1 .. n + 1 : Dir(m)[s] # Zero => Dir(m)[s].name # name
        BY <1>2, <1>3, <4>1
      <4> QED BY <2>0, <2>1, <3>1, <4>2 DEF Found
    <3>2. CASE f[1] # 0
      <4>1. /\ f[2] \in 0 .. n - 1 /\ Dir(m)[f[2] + 1] # Zero
            /\ Dir(m)[f[2] + 1].name = name /\ Dir(m)[f[2] + 1].ino = f[1]
        BY <3>2 DEF Found
      <4>2. g[2] \in 0 .. n + 1 - 1
        BY <2>1, <4>1
      <4> QED BY <2>0, <2>1, <3>2, <4>1, <4>2 DEF Found
    <3> QED BY <3>1, <3>2
  <2> QED BY <1>3, <2>2 DEF g
<1>4. CASE e # Zero /\ e.name # name
  <2>1. CASE f[1] = 0
    <3>1. \A s \in 1 .. n : Dir(m)[s] # Zero => Dir(m)[s].name # name
      BY <2>1 DEF Found
    <3>2. \A s \in 1 .. n + 1 : Dir(m)[s] # Zero => Dir(m)[s].name # name
      BY <1>2, <1>4, <3>1
    <3>3. Found(m, name, n + 1, f)
      BY <1>2, <2>1, <3>2 DEF Found
    <3> QED BY <1>4, <3>3
  <2>2. CASE f[1] # 0
    <3>1. Found(m, name, n + 1, f)
      BY <1>2, <2>2 DEF Found
    <3> QED BY <1>4, <3>1
  <2> QED BY <2>1, <2>2
<1>5. CASE e # Zero /\ e.name = name
  <2>1. f[1] = 0
    <3> SUFFICES ASSUME f[1] # 0 PROVE FALSE
      OBVIOUS
    <3>1. /\ f[2] \in 0 .. n - 1 /\ Dir(m)[f[2] + 1] # Zero
          /\ Dir(m)[f[2] + 1].name = name
      BY DEF Found
    <3>2. f[2] + 1 \in DOMAIN Dir(m)
      BY <1>1, <1>2, <3>1
    <3>3. f[2] + 1 = n + 1
      BY <1>1, <1>2, <1>5, <3>1, <3>2
    <3> QED BY <3>1, <3>3
  <2> DEFINE g == [f EXCEPT ![1] = e.ino, ![2] = n]
  <2>2. e.ino \in Block /\ e.ino # 0
    BY <1>1, <1>2, <1>5
  <2>3. g \in Block \X Int \X Int /\ g[1] = e.ino /\ g[2] = n /\ g[3] = f[3]
    BY <1>2, <2>2
  <2> HIDE DEF g
  <2>4. Found(m, name, n + 1, g)
    BY <1>2, <1>5, <2>2, <2>3 DEF Found
  <2> QED BY <1>5, <2>1, <2>4 DEF g
<1> QED BY <1>3, <1>4, <1>5

FindnameFound(m, o, name) ==
    /\ IsOutcome(o) /\ o.m = m
    /\ \/ o.err \in {"EIO", "EINVAL"}
       \/ o.err = "ok" /\ Found(m, name, InodeOf(m, Root).size, o.val)

LEMMA FindnameIs ==
    ASSUME NEW m, NEW L, NEW H, Sound(m, L, H), Root \in DOMAIN m.vn,
           DirOK(m), Named(m) \subseteq Block \ {0}, NEW name,
           NEW o \in Findname(m, name)
    PROVE  FindnameFound(m, o, name)
<1> DEFINE N == m.vn[Root].i.size
           Ok(q, n) == /\ IsOutcome(q) /\ q.m = m
                       /\ \/ q.err \in {"EIO", "EINVAL"}
                          \/ q.err = "ok" /\ Found(m, name, n, q.val)
<1>1. N \in Nat /\ InodeOf(m, Root).size = N
  BY LoadedIs DEF Inode
<1>2. PICK w : Findname(m, name) = w[N] /\ SearchRun(w, m, name, N)
  BY <1>1, FindnameSteps
<1> HIDE DEF N
<1> DEFINE S == {n \in Nat : \A q \in w[n] : Ok(q, n)}
<1>3. 0 \in S
  <2>1. ASSUME NEW q \in w[0] PROVE Ok(q, 0)
    <3>1. q \in Ret(m, <<0, -1, -1>>)
      BY <1>2, <2>1 DEF SearchRun
    <3>2. IsOutcome(q) /\ q.m = m /\ q.err = "ok" /\ q.val = <<0, -1, -1>>
      BY <3>1, RetIs
    <3>3. Found(m, name, 0, <<0, -1, -1>>)
      BY BlockFacts DEF Found
    <3> QED BY <3>2, <3>3
  <2> QED BY <2>1
<1>4. ASSUME NEW k \in 0 .. N - 1, k \in S PROVE k + 1 \in S
  <2>1. k + 1 \in 1 .. N /\ k + 1 \in Nat /\ k + 1 - 1 = k /\ k \in Nat
    BY <1>1
  <2>2. ASSUME NEW q \in w[k + 1] PROVE Ok(q, k + 1)
    <3>0. PICK p \in w[k + 1 - 1] : SearchStep(p, q, name, k + 1 - 1)
      BY <1>2, <2>1, <2>2 DEF SearchRun
    <3>1. p \in w[k] /\ SearchStep(p, q, name, k)
      BY <2>1, <3>0
    <3>2. Ok(p, k)
      BY <1>4, <2>1, <3>1
    <3>3. CASE p.err # "ok"
      BY <3>1, <3>2, <3>3 DEF SearchStep
    <3>4. CASE p.err = "ok"
      <4>1. IsOutcome(p) /\ p.m = m /\ Found(m, name, k, p.val)
        BY <3>2, <3>4
      <4> DEFINE f == p.val
                 e == Dir(m)[k + 1]
      <4>2. PICK r \in ReadUnit(m, Root, k) :
               IF r.err = "ok"
               THEN q \in IF r.val[1] = Zero
                          THEN Ret(r.m, [f EXCEPT ![3] = k])
                          ELSE IF r.val[1].name # name THEN Ret(r.m, f)
                          ELSE IF f[1] # 0 THEN Panic(r.m, "bug")
                          ELSE Ret(r.m, [f EXCEPT ![1] = r.val[1].ino, ![2] = k])
               ELSE q = r
        BY <2>1, <3>1, <3>4, <4>1 DEF SearchStep
      <4>3. k < m.vn[Root].i.size
        BY <1>1 DEF N
      <4>4. /\ IsOutcome(r) /\ r.m = m
            /\ \/ r.err \in {"EIO", "EINVAL"}
               \/ r.err = "ok" /\ r.val = <<Units(m, Root)[k + 1]>>
        BY <2>1, <4>2, <4>3, ReadUnitIs
      <4>5. CASE r.err # "ok"
        BY <4>2, <4>4, <4>5
      <4>6. CASE r.err = "ok"
        <5>1. r.val[1] = e /\ r.m = m
          BY <4>4, <4>6 DEF Dir
        <5>2. /\ e = Zero => Found(m, name, k + 1, [f EXCEPT ![3] = k])
              /\ e # Zero /\ e.name # name => Found(m, name, k + 1, f)
              /\ e # Zero /\ e.name = name =>
                    f[1] = 0 /\ Found(m, name, k + 1, [f EXCEPT ![1] = e.ino, ![2] = k])
          <6>1. k + 1 <= InodeOf(m, Root).size
            BY <1>1, <2>1
          <6> QED BY <2>1, <4>1, <6>1, FoundMore
        <5> HIDE DEF f, e
        <5>3. CASE e = Zero
          <6>1. q \in Ret(m, [f EXCEPT ![3] = k])
            BY <4>2, <4>6, <5>1, <5>3
          <6> QED BY <5>2, <5>3, <6>1, RetIs
        <5>4. CASE e # Zero /\ e.name # name
          <6>1. q \in Ret(m, f)
            BY <4>2, <4>6, <5>1, <5>4
          <6> QED BY <5>2, <5>4, <6>1, RetIs
        <5>5. CASE e # Zero /\ e.name = name
          <6>1. q \in Ret(m, [f EXCEPT ![1] = e.ino, ![2] = k])
            BY <4>2, <4>6, <5>1, <5>2, <5>5
          <6> QED BY <5>2, <5>5, <6>1, RetIs
        <5> QED BY <5>3, <5>4, <5>5
      <4> QED BY <4>5, <4>6
    <3> QED BY <3>3, <3>4
  <2> HIDE DEF Ok
  <2> QED BY <2>1, <2>2
<1> HIDE DEF S
<1>5. N \in S
  <2>1. \A n \in 0 .. N : n \in S
    BY <1>1, <1>3, <1>4, BoundedInduction
  <2> QED BY <1>1, <2>1
<1>6. Ok(o, N)
  BY <1>2, <1>5 DEF S
<1> QED BY <1>1, <1>6 DEF FindnameFound

------------------------------------------------------------------------------
(* Vnodes: their counts, their inodes on disk, loading and letting go       *)

(* The counts of vnode ino are now rc and op.                               *)
Recounted(m, m2, ino, rc, op) ==
    /\ DOMAIN m2.vn = DOMAIN m.vn
    /\ \A j \in DOMAIN m.vn \ {ino} : m2.vn[j] = m.vn[j]
    /\ m2.vn[ino].i = m.vn[ino].i
    /\ m2.vn[ino].refcount = rc /\ m2.vn[ino].opencount = op
    /\ m2.up = m.up /\ m2.lost = m.lost

LEMMA Recount ==
    ASSUME NEW m, NEW L, NEW H, Sound(m, L, H), NEW ino \in DOMAIN m.vn,
           NEW rc \in Nat, NEW op \in Nat,
           NEW m2, m2 = [m EXCEPT !.vn = [@ EXCEPT ![ino] =
                            [m.vn[ino] EXCEPT !.refcount = rc, !.opencount = op]]]
    PROVE  SameFiles(m, m2, L, H) /\ Recounted(m, m2, ino, rc, op)
<1> DEFINE v == [m.vn[ino] EXCEPT !.refcount = rc, !.opencount = op]
<1>1. /\ IsState(m) /\ m.panic = "no" /\ ino \in L /\ ino \in Block
      /\ m.vn[ino] \in Vnode
  BY LoadedIs
<1>2. /\ v \in Vnode /\ v.i = m.vn[ino].i /\ v.dirty = m.vn[ino].dirty
      /\ v.refcount = rc /\ v.opencount = op
  BY <1>1 DEF Vnode
<1>3. m2 = [m EXCEPT !.vn = [@ EXCEPT ![ino] = v]]
  OBVIOUS
<1> HIDE DEF v
<1>4. /\ IsState(m2) /\ DOMAIN m2.vn = DOMAIN m.vn
      /\ m2.vn[ino] = v
      /\ \A j \in DOMAIN m.vn \ {ino} : m2.vn[j] = m.vn[j]
      /\ m2.up = m.up /\ m2.used = m.used /\ m2.mapdirty = m.mapdirty
      /\ m2.disk = m.disk /\ m2.lost = m.lost /\ m2.panic = m.panic
  <2>1. IsState(m) /\ v \in Vnode
    BY <1>1, <1>2
  <2> QED BY ONLY <1>3, <2>1, VnIs, ino \in DOMAIN m.vn
<1>5. Recounted(m, m2, ino, rc, op)
  BY <1>2, <1>4 DEF Recounted
<1>6. \A i \in L : InodeOf(m2, i) = InodeOf(m, i)
  BY <1>2, <1>4 DEF InodeOf
<1>7. /\ DOMAIN m2.vn \subseteq L /\ \A i \in L \ DOMAIN m2.vn : m2.disk[i].k = "inode"
      /\ m2.disk[Map].k = "map"
  BY <1>4 DEF Sound, WellFormed
<1>8. Truthful(m2)
  <2>1. Truthful(m)
    BY DEF Sound
  <2> QED BY <1>2, <1>4, <2>1 DEF Truthful
<1>9. SameFiles(m, m2, L, H)
  BY <1>1, <1>4, <1>6, <1>7, <1>8, SameInodes
<1> QED BY <1>5, <1>9

LEMMA IncrefIs ==
    ASSUME NEW m, NEW L, NEW H, Sound(m, L, H), NEW ino \in DOMAIN m.vn,
           NEW m2, m2 = Incref(m, ino)
    PROVE  /\ SameFiles(m, m2, L, H)
           /\ Recounted(m, m2, ino, m.vn[ino].refcount + 1, m.vn[ino].opencount)
<1>1. IsState(m) /\ m.vn[ino] \in Vnode
  BY LoadedIs
<1>2. m.vn[ino].refcount + 1 \in Nat /\ m.vn[ino].opencount \in Nat
  BY <1>1 DEF Vnode
<1>3. m2 = [m EXCEPT !.vn = [@ EXCEPT ![ino] =
              [m.vn[ino] EXCEPT !.refcount = m.vn[ino].refcount + 1,
                                !.opencount = m.vn[ino].opencount]]]
  BY <1>1 DEF Incref, IsState, Vnode
<1> QED BY <1>2, <1>3, Recount

LEMMA IncopenIs ==
    ASSUME NEW m, NEW L, NEW H, Sound(m, L, H), NEW ino \in DOMAIN m.vn,
           NEW m2, m2 = Incopen(m, ino)
    PROVE  /\ SameFiles(m, m2, L, H)
           /\ Recounted(m, m2, ino, m.vn[ino].refcount, m.vn[ino].opencount + 1)
<1>1. IsState(m) /\ m.vn[ino] \in Vnode
  BY LoadedIs
<1>2. m.vn[ino].refcount \in Nat /\ m.vn[ino].opencount + 1 \in Nat
  BY <1>1 DEF Vnode
<1>3. m2 = [m EXCEPT !.vn = [@ EXCEPT ![ino] =
              [m.vn[ino] EXCEPT !.refcount = m.vn[ino].refcount,
                                !.opencount = m.vn[ino].opencount + 1]]]
  BY <1>1 DEF Incopen, IsState, Vnode
<1> QED BY <1>2, <1>3, Recount

LEMMA DecrementIs ==
    ASSUME NEW m, NEW L, NEW H, Sound(m, L, H), NEW ino \in DOMAIN m.vn, NEW m2
    PROVE  /\ m2 = [m EXCEPT !.vn[ino].refcount = @ - 1] /\ m.vn[ino].refcount > 0 =>
                 /\ SameFiles(m, m2, L, H)
                 /\ Recounted(m, m2, ino, m.vn[ino].refcount - 1, m.vn[ino].opencount)
           /\ m2 = [m EXCEPT !.vn[ino].opencount = @ - 1] /\ m.vn[ino].opencount # 0 =>
                 /\ SameFiles(m, m2, L, H)
                 /\ Recounted(m, m2, ino, m.vn[ino].refcount, m.vn[ino].opencount - 1)
<1>1. IsState(m) /\ m.vn[ino] \in Vnode
  BY LoadedIs
<1>2. ASSUME m2 = [m EXCEPT !.vn[ino].refcount = @ - 1], m.vn[ino].refcount > 0
      PROVE  /\ SameFiles(m, m2, L, H)
             /\ Recounted(m, m2, ino, m.vn[ino].refcount - 1, m.vn[ino].opencount)
  <2>1. m.vn[ino].refcount - 1 \in Nat /\ m.vn[ino].opencount \in Nat
    BY <1>1, <1>2 DEF Vnode
  <2>2. m2 = [m EXCEPT !.vn = [@ EXCEPT ![ino] =
                [m.vn[ino] EXCEPT !.refcount = m.vn[ino].refcount - 1,
                                  !.opencount = m.vn[ino].opencount]]]
    BY <1>1, <1>2 DEF IsState, Vnode
  <2> QED BY <2>1, <2>2, Recount
<1>3. ASSUME m2 = [m EXCEPT !.vn[ino].opencount = @ - 1], m.vn[ino].opencount # 0
      PROVE  /\ SameFiles(m, m2, L, H)
             /\ Recounted(m, m2, ino, m.vn[ino].refcount, m.vn[ino].opencount - 1)
  <2>1. m.vn[ino].refcount \in Nat /\ m.vn[ino].opencount - 1 \in Nat
    BY <1>1, <1>3 DEF Vnode
  <2>2. m2 = [m EXCEPT !.vn = [@ EXCEPT ![ino] =
                [m.vn[ino] EXCEPT !.refcount = m.vn[ino].refcount,
                                  !.opencount = m.vn[ino].opencount - 1]]]
    BY <1>1, <1>3 DEF IsState, Vnode
  <2> QED BY <2>1, <2>2, Recount
<1> QED BY <1>2, <1>3

(* sfs_sync_inode *)
Synced(m, m2, ino) ==
    /\ DOMAIN m2.vn = DOMAIN m.vn
    /\ \A j \in DOMAIN m.vn \ {ino} : m2.vn[j] = m.vn[j]
    /\ m2.vn[ino].i = m.vn[ino].i /\ m2.vn[ino].dirty = FALSE
    /\ m2.vn[ino].refcount = m.vn[ino].refcount
    /\ m2.vn[ino].opencount = m.vn[ino].opencount
    /\ m2.up = m.up /\ m2.lost = m.lost

LEMMA SyncInodeIs ==
    ASSUME NEW m, NEW L, NEW H, Sound(m, L, H), NEW ino \in DOMAIN m.vn,
           NEW m2, m2 = SyncInode(m, ino)
    PROVE  SameFiles(m, m2, L, H) /\ Synced(m, m2, ino)
<1>1. /\ IsState(m) /\ m.panic = "no" /\ ino \in L /\ ino \in Block
      /\ m.vn[ino] \in Vnode /\ m.vn[ino].i \in Inode
  BY LoadedIs
<1>2. /\ DOMAIN m.vn \subseteq L /\ Truthful(m) /\ m.disk[Map].k = "map"
      /\ \A i \in L : WellFormed(m, i)
      /\ L \subseteq Block /\ {Super, Map} \cap L = {}
  BY DEF Sound, Divided
<1>3. CASE m.vn[ino].dirty
  <2> DEFINE c == InodeBlock(m.vn[ino].i)
             m1 == Wblock(m, ino, c)
             v == [m.vn[ino] EXCEPT !.dirty = FALSE]
  <2>1. c \in Content /\ AsInode(c) = m.vn[ino].i /\ c.k = "inode"
    BY <1>1, ContentIntro
  <2>2. m2 = [m1 EXCEPT !.vn[ino].dirty = FALSE]
    BY <1>3 DEF SyncInode
  <2>3. /\ IsState(m1) /\ m1.disk[ino] = c
        /\ \A j \in Block \ {ino} : m1.disk[j] = m.disk[j]
        /\ m1.up = m.up /\ m1.used = m.used /\ m1.mapdirty = m.mapdirty
        /\ m1.vn = m.vn /\ m1.lost = m.lost /\ m1.panic = m.panic
    BY <1>1, <2>1, WblockIs
  <2> HIDE DEF m1, c
  <2>4. /\ v \in Vnode /\ v.i = m.vn[ino].i /\ v.dirty = FALSE
        /\ v.refcount = m.vn[ino].refcount /\ v.opencount = m.vn[ino].opencount
    BY <1>1 DEF Vnode
  <2>5. m2 = [m1 EXCEPT !.vn = [@ EXCEPT ![ino] = v]]
    BY <1>1, <2>2, <2>3 DEF IsState, Vnode
  <2> HIDE DEF v
  <2>6. /\ IsState(m2) /\ DOMAIN m2.vn = DOMAIN m.vn
        /\ m2.vn[ino] = v
        /\ \A j \in DOMAIN m.vn \ {ino} : m2.vn[j] = m.vn[j]
        /\ m2.up = m.up /\ m2.used = m.used /\ m2.mapdirty = m.mapdirty
        /\ m2.disk = m1.disk /\ m2.lost = m.lost /\ m2.panic = m.panic
    <3>1. ino \in DOMAIN m1.vn
      BY <2>3
    <3> QED BY <2>3, <2>4, <2>5, <3>1, VnIs
  <2>7. Synced(m, m2, ino)
    BY <2>4, <2>6 DEF Synced
  <2>8. \A i \in L : InodeOf(m2, i) = InodeOf(m, i)
    BY <1>2, <2>3, <2>4, <2>6 DEF InodeOf
  <2>9. \A i \in L \ DOMAIN m2.vn : m2.disk[i].k = "inode"
    BY <1>2, <2>3, <2>6 DEF WellFormed
  <2>10. /\ \A b \in Block \ L : b # Map => m2.disk[b] = m.disk[b]
         /\ m2.disk[Map] = m.disk[Map]
    <3>1. Map # ino /\ Map \in Block
      BY <1>1, <1>2, BlockFacts
    <3> QED BY <1>1, <2>3, <2>6, <3>1
  <2>11. Truthful(m2)
    <3>1. m2.disk[ino] = InodeBlock(m2.vn[ino].i)
      BY <2>3, <2>4, <2>6 DEF c
    <3>2. ASSUME NEW i \in DOMAIN m2.vn, i # ino
          PROVE  m2.vn[i].dirty \/ m2.disk[i] = InodeBlock(m2.vn[i].i)
      <4>1. i \in Block /\ m2.vn[i] = m.vn[i] /\ m2.disk[i] = m.disk[i]
        BY <1>2, <2>3, <2>6, <3>2
      <4> QED BY <1>2, <2>6, <4>1 DEF Truthful
    <3>3. m2.mapdirty \/ m2.disk[Map] = MapBlock(m2.used)
      BY <1>2, <2>6, <2>10 DEF Truthful
    <3> QED BY <3>1, <3>2, <3>3 DEF Truthful
  <2>12. SameFiles(m, m2, L, H)
    <3>1. DOMAIN m2.vn \subseteq L /\ m2.disk[Map].k = "map" /\ m2.panic = "no"
      BY <1>1, <1>2, <2>6, <2>10
    <3> QED BY <2>6, <2>8, <2>9, <2>10, <2>11, <3>1, SameInodes
  <2> QED BY <2>7, <2>12
<1>4. CASE ~m.vn[ino].dirty
  <2>1. m2 = m
    BY <1>4 DEF SyncInode
  <2>2. m.vn[ino].dirty = FALSE
    BY <1>1, <1>4 DEF Vnode
  <2>3. SameFiles(m, m, L, H)
    <3>1. ASSUME NEW i \in L PROVE SameFile(m, m, i)
      BY <1>2 DEF SameFile
    <3> QED BY <3>1 DEF SameFiles
  <2> QED BY <2>1, <2>2, <2>3 DEF Synced
<1> QED BY <1>3, <1>4

(* The vnode leaves the table; its inode is on the disk.                    *)
Gone(m, m2, ino) ==
    /\ DOMAIN m2.vn = DOMAIN m.vn \ {ino}
    /\ \A j \in DOMAIN m.vn \ {ino} : m2.vn[j] = m.vn[j]
    /\ m2.up = m.up /\ m2.lost = m.lost

LEMMA GoneIs ==
    ASSUME NEW m, IsState(m), NEW ino, NEW m2,
           m2 = [m EXCEPT !.vn = [j \in DOMAIN @ \ {ino} |-> @[j]]]
    PROVE  /\ IsState(m2) /\ Gone(m, m2, ino)
           /\ m2.used = m.used /\ m2.mapdirty = m.mapdirty /\ m2.disk = m.disk
           /\ m2.panic = m.panic
<1>1. m2.vn = [j \in DOMAIN m.vn \ {ino} |-> m.vn[j]]
  BY DEF IsState
<1>2. /\ m2.up = m.up /\ m2.used = m.used /\ m2.mapdirty = m.mapdirty
      /\ m2.disk = m.disk /\ m2.lost = m.lost /\ m2.panic = m.panic
  BY DEF IsState
<1>3. m2.vn \in [DOMAIN m2.vn -> Vnode] /\ DOMAIN m2.vn = DOMAIN m.vn \ {ino}
  BY <1>1 DEF IsState
<1>4. IsState(m2)
  BY <1>2, <1>3 DEF IsState
<1> QED BY <1>1, <1>2, <1>3, <1>4 DEF Gone

LEMMA ForgetInode ==
    ASSUME NEW m, NEW L, NEW H, Sound(m, L, H), NEW ino \in DOMAIN m.vn,
           ~m.vn[ino].dirty,
           NEW m2, m2 = [m EXCEPT !.vn = [j \in DOMAIN @ \ {ino} |-> @[j]]]
    PROVE  SameFiles(m, m2, L, H) /\ Gone(m, m2, ino)
<1>1. /\ IsState(m) /\ m.panic = "no" /\ ino \in L /\ m.vn[ino].i \in Inode
  BY LoadedIs
<1>2. /\ DOMAIN m.vn \subseteq L /\ Truthful(m) /\ m.disk[Map].k = "map"
      /\ \A i \in L : WellFormed(m, i)
  BY DEF Sound
<1>3. /\ IsState(m2) /\ Gone(m, m2, ino)
      /\ m2.used = m.used /\ m2.mapdirty = m.mapdirty /\ m2.disk = m.disk
      /\ m2.panic = m.panic
  BY <1>1, GoneIs
<1>4. m.disk[ino] = InodeBlock(m.vn[ino].i)
  BY <1>2 DEF Truthful
<1>5. AsInode(m.disk[ino]) = m.vn[ino].i /\ m.disk[ino].k = "inode"
  BY <1>1, <1>4, ContentIntro
<1>6. \A i \in L : InodeOf(m2, i) = InodeOf(m, i)
  BY <1>3, <1>5 DEF InodeOf, Gone
<1>7. \A i \in L \ DOMAIN m2.vn : m2.disk[i].k = "inode"
  BY <1>2, <1>3, <1>5 DEF WellFormed, Gone
<1>8. Truthful(m2)
  BY <1>2, <1>3 DEF Truthful, Gone
<1>9. SameFiles(m, m2, L, H)
  <2>1. DOMAIN m2.vn \subseteq L /\ m2.disk[Map].k = "map" /\ m2.panic = "no"
    BY <1>1, <1>2, <1>3 DEF Gone
  <2> QED BY <1>3, <1>6, <1>7, <1>8, <2>1, SameInodes
<1> QED BY <1>3, <1>9

(* A vnode joins the table.                                                 *)
Loaded(m, m2, ino, i, d) ==
    /\ DOMAIN m2.vn = DOMAIN m.vn \cup {ino}
    /\ \A j \in DOMAIN m.vn : m2.vn[j] = m.vn[j]
    /\ m2.vn[ino].i = i /\ m2.vn[ino].dirty = d
    /\ m2.vn[ino].refcount = 1 /\ m2.vn[ino].opencount = 0
    /\ m2.up = m.up /\ m2.lost = m.lost

LEMMA VnMore ==
    ASSUME NEW m, IsState(m), NEW ino \in Block, ino \notin DOMAIN m.vn,
           NEW v \in Vnode, v.refcount = 1, v.opencount = 0,
           NEW vn, vn = [j \in DOMAIN m.vn \cup {ino} |-> IF j # ino THEN m.vn[j] ELSE v],
           NEW m2, m2 = [m EXCEPT !.vn = vn]
    PROVE  /\ IsState(m2) /\ Loaded(m, m2, ino, v.i, v.dirty)
           /\ m2.used = m.used /\ m2.mapdirty = m.mapdirty /\ m2.disk = m.disk
           /\ m2.panic = m.panic
<1>1. m2.vn = [j \in DOMAIN m.vn \cup {ino} |-> IF j # ino THEN m.vn[j] ELSE v]
  BY DEF IsState
<1>2. /\ m2.up = m.up /\ m2.used = m.used /\ m2.mapdirty = m.mapdirty
      /\ m2.disk = m.disk /\ m2.lost = m.lost /\ m2.panic = m.panic
  BY DEF IsState
<1>4. /\ DOMAIN m2.vn = DOMAIN m.vn \cup {ino} /\ m2.vn[ino] = v
      /\ \A j \in DOMAIN m.vn : m2.vn[j] = m.vn[j]
  BY <1>1
<1>5. m2.vn \in [DOMAIN m2.vn -> Vnode]
  BY <1>1 DEF IsState
<1>6. IsState(m2)
  BY <1>2, <1>4, <1>5 DEF IsState
<1> QED BY <1>2, <1>4, <1>6 DEF Loaded

LEMMA LoadInode ==
    ASSUME NEW m, NEW L, NEW H, Sound(m, L, H), NEW ino \in L, ino \notin DOMAIN m.vn,
           NEW i, i = AsInode(m.disk[ino]), NEW m2,
           m2 = [m EXCEPT !.vn = [j \in DOMAIN @ \cup {ino} |->
                   IF j # ino THEN @[j]
                   ELSE [i |-> i, dirty |-> FALSE, refcount |-> 1, opencount |-> 0]]]
    PROVE  SameFiles(m, m2, L, H) /\ Loaded(m, m2, ino, i, FALSE)
<1>1. /\ IsState(m) /\ m.panic = "no" /\ ino \in Block
      /\ DOMAIN m.vn \subseteq L /\ Truthful(m) /\ m.disk[Map].k = "map"
      /\ \A j \in L : WellFormed(m, j)
  BY DEF Sound
<1>2. i = InodeOf(m, ino) /\ i \in Inode
  BY <1>1, InodeOfIs
<1>3. /\ IsState(m2) /\ Loaded(m, m2, ino, i, FALSE)
      /\ m2.used = m.used /\ m2.mapdirty = m.mapdirty /\ m2.disk = m.disk
      /\ m2.panic = m.panic
  <2> DEFINE v == [i |-> i, dirty |-> FALSE, refcount |-> 1, opencount |-> 0]
  <2>1. v \in Vnode /\ v.refcount = 1 /\ v.opencount = 0
    BY <1>2 DEF Vnode
  <2>2. v.i = i /\ v.dirty = FALSE
    OBVIOUS
  <2> DEFINE vn == [j \in DOMAIN m.vn \cup {ino} |-> IF j # ino THEN m.vn[j] ELSE v]
  <2>3. m2 = [m EXCEPT !.vn = vn]
    OBVIOUS
  <2> HIDE DEF v
  <2>4. vn = [j \in DOMAIN m.vn \cup {ino} |-> IF j # ino THEN m.vn[j] ELSE v]
    OBVIOUS
  <2>5. IsState(m) /\ ino \in Block /\ ino \notin DOMAIN m.vn
    BY <1>1
  <2> HIDE DEF vn
  <2>6. /\ IsState(m2) /\ Loaded(m, m2, ino, v.i, v.dirty)
        /\ m2.used = m.used /\ m2.mapdirty = m.mapdirty /\ m2.disk = m.disk
        /\ m2.panic = m.panic
    BY ONLY <2>1, <2>3, <2>4, <2>5, VnMore
  <2> QED BY <2>2, <2>6
<1>4. m.disk[ino] = InodeBlock(i)
  <2>1. m.disk[ino].k = "inode" /\ m.disk[ino] \in Content
    BY <1>1 DEF WellFormed, IsState
  <2> QED BY <2>1 DEF Content, InodeBlock, AsInode
<1>5. \A j \in L : InodeOf(m2, j) = InodeOf(m, j)
  BY <1>2, <1>3 DEF InodeOf, Loaded
<1>6. \A j \in L \ DOMAIN m2.vn : m2.disk[j].k = "inode"
  BY <1>1, <1>3 DEF WellFormed, Loaded
<1>7. Truthful(m2)
  BY <1>1, <1>3, <1>4 DEF Truthful, Loaded
<1>8. SameFiles(m, m2, L, H)
  <2>1. DOMAIN m2.vn \subseteq L /\ m2.disk[Map].k = "map" /\ m2.panic = "no"
    BY <1>1, <1>3 DEF Loaded
  <2> QED BY <1>3, <1>5, <1>6, <1>7, <2>1, SameInodes
<1> QED BY <1>3, <1>8

------------------------------------------------------------------------------
(* Between two calls.  `op` and `rc` are the open counts and the references  *)
(* that somebody answers for, by inode.                                      *)
Links(m) ==
    /\ \A i \in Live(m) \ {Root} :
          InodeOf(m, i).linkcount = Cardinality({s \in Entries(m) : Dir(m)[s].ino = i})
    /\ InodeOf(m, Root).linkcount # 0

Refs(m, op, rc) ==
    \A i \in Block \ {0} :
        /\ rc[i] # 0 => i \in DOMAIN m.vn
        /\ i \in DOMAIN m.vn =>
              /\ m.vn[i].opencount = op[i]
              /\ m.vn[i].refcount = IF rc[i] = 0 THEN 1 ELSE rc[i]
              /\ rc[i] = 0 => m.vn[i].i.linkcount = 0 /\ m.vn[i].i.indirect # 0

Good(m, op, rc) ==
    m.up /\ Sound(m, Live(m), m.lost) /\ DirOK(m) /\ Links(m) /\ Refs(m, op, rc)

Counts(op, rc) ==
    op \in [Block -> Nat] /\ rc \in [Block -> Nat] /\ \A i \in Block : op[i] <= rc[i]

Up(rc, i) == [rc EXCEPT ![i] = @ + 1]

LEMMA UpIs ==
    ASSUME NEW rc \in [Block -> Nat], NEW i \in Block
    PROVE  /\ Up(rc, i) \in [Block -> Nat] /\ Up(rc, i)[i] = rc[i] + 1
           /\ Up(rc, i)[i] # 0
           /\ \A j \in Block : j # i => Up(rc, i)[j] = rc[j]
           /\ \A j \in Block : rc[j] # 0 => Up(rc, i)[j] # 0
BY DEF Up

LEMMA UpSwap ==
    ASSUME NEW rc \in [Block -> Nat], NEW i \in Block, NEW j \in Block
    PROVE  Up(Up(rc, i), j) = Up(Up(rc, j), i)
BY DEF Up

LEMMA CountsUp ==
    ASSUME NEW op, NEW rc, Counts(op, rc), NEW i \in Block
    PROVE  Counts(op, Up(rc, i)) /\ Counts(Up(op, i), Up(rc, i))
BY DEF Counts, Up

LEMMA EntriesAre ==
    ASSUME NEW m, NEW L, NEW H, Sound(m, L, H), DirOK(m)
    PROVE  /\ IsFiniteSet(Entries(m)) /\ Entries(m) \subseteq Nat
           /\ Entries(m) = {s \in DOMAIN Dir(m) : Dir(m)[s] # Zero}
           /\ \A i : LET es == {s \in Entries(m) : Dir(m)[s].ino = i}
                     IN  /\ IsFiniteSet(es) /\ Cardinality(es) \in Nat
                         /\ Cardinality(es) # 0 <=> i \in Named(m)
<1>1. InodeOf(m, Root).size \in Nat /\ DOMAIN Dir(m) = 1 .. InodeOf(m, Root).size
  BY DirIs
<1>2. IsFiniteSet(DOMAIN Dir(m)) /\ DOMAIN Dir(m) \subseteq Nat
  BY <1>1, FS_Interval
<1>3. Entries(m) = {s \in DOMAIN Dir(m) : Dir(m)[s] # Zero}
  BY DEF Entries, Dir
<1>4. IsFiniteSet(Entries(m)) /\ Entries(m) \subseteq Nat
  BY <1>2, <1>3, FS_Subset
<1>5. ASSUME NEW i
      PROVE  LET es == {s \in Entries(m) : Dir(m)[s].ino = i}
             IN  /\ IsFiniteSet(es) /\ Cardinality(es) \in Nat
                 /\ Cardinality(es) # 0 <=> i \in Named(m)
  <2> DEFINE es == {s \in Entries(m) : Dir(m)[s].ino = i}
  <2>1. IsFiniteSet(es)
    BY <1>4, FS_Subset
  <2>2. Cardinality(es) \in Nat /\ (Cardinality(es) = 0 <=> es = {})
    BY <2>1, FS_CardinalityType, FS_EmptySet
  <2>3. i \in Named(m) <=> es # {}
    BY DEF Named, Dir
  <2> QED BY <2>1, <2>2, <2>3
<1> QED BY <1>3, <1>4, <1>5

LEMMA GoodIs ==
    ASSUME NEW m, NEW op, NEW rc, Good(m, op, rc)
    PROVE  /\ Sound(m, Live(m), m.lost) /\ IsState(m) /\ m.up /\ m.panic = "no"
           /\ Root \in Live(m) /\ DOMAIN m.vn \subseteq Live(m)
           /\ Named(m) \subseteq Live(m) /\ Live(m) \subseteq Block \ {0}
           /\ Named(m) \subseteq Block \ {0} /\ Root \notin Named(m) /\ DirOK(m)
           /\ \A i \in Live(m) :
                 InodeOf(m, i).linkcount # 0 <=> i = Root \/ i \in Named(m)
<1>1. Sound(m, Live(m), m.lost) /\ DirOK(m) /\ Links(m) /\ m.up
  BY DEF Good
<1>2. /\ IsState(m) /\ m.panic = "no" /\ Root \in Live(m)
      /\ DOMAIN m.vn \subseteq Live(m) /\ Live(m) \subseteq Block
      /\ Divided(m, Live(m), m.lost)
  BY <1>1 DEF Sound
<1>3. Live(m) \subseteq Block \ {0}
  BY <1>2, BlockFacts DEF Divided
<1>4. Named(m) \subseteq Live(m)
  BY DEF Live
<1>5. Root \notin Named(m)
  BY <1>1 DEF DirOK
<1>6. ASSUME NEW i \in Live(m)
      PROVE  InodeOf(m, i).linkcount # 0 <=> i = Root \/ i \in Named(m)
  <2>1. CASE i = Root
    BY <1>1, <2>1 DEF Links
  <2>2. CASE i # Root
    <3>1. InodeOf(m, i).linkcount
            = Cardinality({s \in Entries(m) : Dir(m)[s].ino = i})
      BY <1>1, <2>2 DEF Links
    <3> QED BY <1>1, <2>2, <3>1, EntriesAre
  <2> QED BY <2>1, <2>2
<1> QED BY <1>1, <1>2, <1>3, <1>4, <1>5, <1>6

(* The directory is the same, and so are the link counts.                   *)
LEMMA GoodKept ==
    ASSUME NEW m, NEW op, NEW rc, Good(m, op, rc), NEW m2, NEW op2, NEW rc2,
           m2.up, Sound(m2, Live(m2), m2.lost), Live(m2) \subseteq Live(m),
           Dir(m2) = Dir(m),
           \A i \in Live(m2) : InodeOf(m2, i).linkcount = InodeOf(m, i).linkcount,
           Refs(m2, op2, rc2)
    PROVE  Good(m2, op2, rc2)
<1>1. DirOK(m) /\ Links(m)
  BY DEF Good
<1>2. Entries(m2) = Entries(m) /\ Named(m2) = Named(m)
  BY DEF Entries, Named, Dir
<1>3. DirOK(m2)
  BY <1>1, <1>2 DEF DirOK
<1>4. Root \in Live(m2)
  BY DEF Live
<1>5. Links(m2)
  BY <1>1, <1>2, <1>4 DEF Links
<1> QED BY <1>3, <1>5 DEF Good

LEMMA GoodSame ==
    ASSUME NEW m, NEW op, NEW rc, Good(m, op, rc), NEW m2, NEW op2, NEW rc2,
           SameFiles(m, m2, Live(m), m.lost), m2.up = m.up, m2.lost = m.lost,
           {Root} \cup DOMAIN m2.vn \cup Named(m) = Live(m),
           Refs(m2, op2, rc2)
    PROVE  Good(m2, op2, rc2) /\ Dir(m2) = Dir(m) /\ Live(m2) = Live(m)
<1>1. Sound(m2, Live(m), m.lost) /\ \A i \in Live(m) : SameFile(m, m2, i)
  BY DEF SameFiles
<1>2. Root \in Live(m) /\ m.up
  BY GoodIs
<1>3. Dir(m2) = Dir(m)
  BY <1>1, <1>2 DEF SameFile, Dir
<1>4. Live(m2) = Live(m)
  BY <1>3 DEF Live, Named, Entries, Dir
<1>5. \A i \in Live(m2) : InodeOf(m2, i).linkcount = InodeOf(m, i).linkcount
  BY <1>1, <1>4 DEF SameFile
<1> QED BY <1>1, <1>2, <1>3, <1>4, <1>5, GoodKept

(* Calls on one inode that is referred to, or that keeps its indirect block. *)
LEMMA GoodDid ==
    ASSUME NEW m, NEW op, NEW rc, Good(m, op, rc), NEW ino \in DOMAIN m.vn,
           NEW m2, Did(m, m2, Live(m), m.lost, ino),
           ino # Root \/ SameContents(m, m2, ino),
           rc[ino] # 0 \/ m2.vn[ino].i.indirect # 0
    PROVE  Good(m2, op, rc) /\ Dir(m2) = Dir(m) /\ Live(m2) = Live(m)
<1>1. /\ Root \in Live(m) /\ m.up /\ DOMAIN m.vn \subseteq Live(m)
      /\ Live(m) \subseteq Block \ {0}
  BY GoodIs
<1>2. /\ Sound(m2, Live(m), m.lost) /\ m2.up = m.up /\ m2.lost = m.lost
      /\ DOMAIN m2.vn = DOMAIN m.vn
      /\ \A j \in DOMAIN m.vn \ {ino} : m2.vn[j] = m.vn[j]
      /\ m2.vn[ino].refcount = m.vn[ino].refcount
      /\ m2.vn[ino].opencount = m.vn[ino].opencount
      /\ m2.vn[ino].i.linkcount = m.vn[ino].i.linkcount
      /\ \A j \in Live(m) \ {ino} : InodeOf(m2, j) = InodeOf(m, j)
                                    /\ Units(m2, j) = Units(m, j)
  BY DEF Did
<1>3. Dir(m2) = Dir(m)
  BY <1>1, <1>2 DEF SameContents, Dir
<1>4. Live(m2) = Live(m)
  BY <1>2, <1>3 DEF Live, Named, Entries, Dir
<1>5. ASSUME NEW i \in Live(m2)
      PROVE  InodeOf(m2, i).linkcount = InodeOf(m, i).linkcount
  BY <1>2, <1>4 DEF InodeOf
<1>6. Refs(m2, op, rc)
  <2>1. Refs(m, op, rc)
    BY DEF Good
  <2>2. ASSUME NEW i \in Block \ {0}, i # ino
        PROVE  /\ rc[i] # 0 => i \in DOMAIN m2.vn
               /\ i \in DOMAIN m2.vn =>
                    /\ m2.vn[i].opencount = op[i]
                    /\ m2.vn[i].refcount = IF rc[i] = 0 THEN 1 ELSE rc[i]
                    /\ rc[i] = 0 => m2.vn[i].i.linkcount = 0 /\ m2.vn[i].i.indirect # 0
    BY <1>2, <2>1, <2>2 DEF Refs
  <2>3. /\ rc[ino] # 0 => ino \in DOMAIN m2.vn
        /\ m2.vn[ino].opencount = op[ino]
        /\ m2.vn[ino].refcount = IF rc[ino] = 0 THEN 1 ELSE rc[ino]
        /\ rc[ino] = 0 => m2.vn[ino].i.linkcount = 0 /\ m2.vn[ino].i.indirect # 0
    BY <1>1, <1>2, <2>1 DEF Refs
  <2> QED BY <2>2, <2>3 DEF Refs
<1> QED BY <1>1, <1>2, <1>3, <1>4, <1>5, <1>6, GoodKept

------------------------------------------------------------------------------
(* sfs_loadvnode of an inode that has a name, and sfs_getroot.              *)
LEMMA LiveUsed ==
    ASSUME NEW m, NEW L, NEW H, Sound(m, L, H)
    PROVE  L \subseteq m.used /\ H \subseteq m.used /\ m.used \subseteq Block
BY DEF Sound, Divided, IsState

LEMMA PanicIs ==
    ASSUME NEW m, NEW why, NEW o \in Panic(m, why), IsState(m)
    PROVE  IsOutcome(o) /\ o.err = "panic" /\ o.m.panic = why
BY DEF Panic, Fail, IsOutcome, IsState

LoadedGood(m, o, ino, op, rc) ==
    /\ IsOutcome(o)
    /\ \/ o.err \in {"EIO", "ENOMEM"} /\ o.m = m
       \/ /\ o.err = "ok" /\ o.val = <<ino>> /\ ino \in DOMAIN o.m.vn
          /\ Good(o.m, op, Up(rc, ino))
          /\ Dir(o.m) = Dir(m) /\ Live(o.m) = Live(m)

LEMMA LoadVnodeIs ==
    ASSUME NEW m, NEW op, NEW rc, Good(m, op, rc), Counts(op, rc),
           NEW ino \in Live(m), InodeOf(m, ino).linkcount # 0,
           NEW o \in LoadVnode(m, ino, FALSE)
    PROVE  LoadedGood(m, o, ino, op, rc)
<1>1. /\ Sound(m, Live(m), m.lost) /\ DOMAIN m.vn \subseteq Live(m)
      /\ Live(m) \subseteq Block \ {0} /\ IsState(m)
      /\ {Root} \cup DOMAIN m.vn \cup Named(m) = Live(m)
  BY GoodIs DEF Live
<1>2. DOMAIN m.vn \subseteq m.used /\ ino \in m.used /\ ino \in Block /\ ino # 0
  BY <1>1, LiveUsed
<1>3. Refs(m, op, rc) /\ op \in [Block -> Nat] /\ rc \in [Block -> Nat]
      /\ op[ino] <= rc[ino]
  BY <1>2 DEF Good, Counts
<1>4. /\ Up(rc, ino) \in [Block -> Nat] /\ Up(rc, ino)[ino] = rc[ino] + 1
      /\ \A j \in Block : j # ino => Up(rc, ino)[j] = rc[j]
  BY <1>2, <1>3, UpIs
<1>5. CASE ino \in DOMAIN m.vn
  <2>1. o \in Ret(Incref(m, ino), <<ino>>)
    BY <1>2, <1>5 DEF LoadVnode
  <2> DEFINE m2 == Incref(m, ino)
  <2>2. /\ SameFiles(m, m2, Live(m), m.lost)
        /\ Recounted(m, m2, ino, m.vn[ino].refcount + 1, m.vn[ino].opencount)
    BY <1>1, <1>5, IncrefIs
  <2>3. IsOutcome(o) /\ o.m = m2 /\ o.err = "ok" /\ o.val = <<ino>>
    BY <2>1, RetIs
  <2> HIDE DEF m2
  <2>4. rc[ino] # 0
    BY <1>2, <1>3, <1>5 DEF Refs, InodeOf
  <2>5. Refs(m2, op, Up(rc, ino))
    <3>1. ASSUME NEW i \in Block \ {0}, i # ino
          PROVE  /\ Up(rc, ino)[i] # 0 => i \in DOMAIN m2.vn
                 /\ i \in DOMAIN m2.vn =>
                      /\ m2.vn[i].opencount = op[i]
                      /\ m2.vn[i].refcount = IF Up(rc, ino)[i] = 0 THEN 1
                                             ELSE Up(rc, ino)[i]
                      /\ Up(rc, ino)[i] = 0 =>
                           m2.vn[i].i.linkcount = 0 /\ m2.vn[i].i.indirect # 0
      BY <1>3, <1>4, <2>2, <3>1 DEF Refs, Recounted
    <3>2. /\ ino \in DOMAIN m2.vn /\ Up(rc, ino)[ino] # 0
          /\ m2.vn[ino].opencount = op[ino]
          /\ m2.vn[ino].refcount = Up(rc, ino)[ino]
      BY <1>2, <1>3, <1>4, <1>5, <2>2, <2>4 DEF Refs, Recounted
    <3> QED BY <3>1, <3>2 DEF Refs
  <2>6. /\ m2.up = m.up /\ m2.lost = m.lost /\ DOMAIN m2.vn = DOMAIN m.vn
    BY <2>2 DEF Recounted
  <2>7. Good(m2, op, Up(rc, ino)) /\ Dir(m2) = Dir(m) /\ Live(m2) = Live(m)
    BY <1>1, <2>2, <2>5, <2>6, GoodSame
  <2> QED BY <1>5, <2>3, <2>6, <2>7 DEF LoadedGood
<1>6. CASE ino \notin DOMAIN m.vn
  <2> DEFINE i == AsInode(m.disk[ino])
             m2 == [m EXCEPT !.vn = [j \in DOMAIN @ \cup {ino} |->
                      IF j # ino THEN @[j]
                      ELSE [i |-> i, dirty |-> FALSE, refcount |-> 1, opencount |-> 0]]]
  <2>1. /\ m.disk[ino].k = "inode" /\ i.type # "invalid"
    BY <1>1, <1>6 DEF Sound, WellFormed, InodeOf
  <2>2. PICK p \in Rblock(m, ino, "inode") \cup (IF Faulty THEN Fail(m, "ENOMEM") ELSE {}) :
           IF p.err = "ok"
           THEN o \in LET i1 == AsInode(p.m.disk[ino])
                      IN IF FALSE # (i1.type = "invalid") THEN Panic(p.m, "bug")
                         ELSE Ret([p.m EXCEPT !.vn = [j \in DOMAIN @ \cup {ino} |->
                                IF j # ino THEN @[j]
                                ELSE [i |-> IF FALSE THEN [i1 EXCEPT !.type = "file"]
                                            ELSE i1,
                                      dirty |-> FALSE,
                                      refcount |-> 1, opencount |-> 0]]], <<ino>>)
           ELSE o = p
    BY <1>2, <1>6 DEF LoadVnode, Then
  <2>3. IsOutcome(p) /\ p.m = m /\ p.err \in {"ok", "EIO", "ENOMEM"}
    BY <2>1, <2>2, RblockIs, FailIs
  <2>4. CASE p.err # "ok"
    BY <2>2, <2>3, <2>4 DEF LoadedGood
  <2>5. CASE p.err = "ok"
    <3>1. o \in Ret(m2, <<ino>>)
      BY <2>1, <2>2, <2>3, <2>5
    <3>2. SameFiles(m, m2, Live(m), m.lost) /\ Loaded(m, m2, ino, i, FALSE)
      BY <1>1, <1>6, LoadInode
    <3>3. IsOutcome(o) /\ o.m = m2 /\ o.err = "ok" /\ o.val = <<ino>>
      BY <3>1, RetIs
    <3> HIDE DEF m2, i
    <3>4. /\ DOMAIN m2.vn = DOMAIN m.vn \cup {ino}
          /\ \A j \in DOMAIN m.vn : m2.vn[j] = m.vn[j]
          /\ m2.vn[ino].refcount = 1 /\ m2.vn[ino].opencount = 0
          /\ m2.up = m.up /\ m2.lost = m.lost
      BY <3>2 DEF Loaded
    <3>5. rc[ino] = 0 /\ op[ino] = 0
      BY <1>2, <1>3, <1>6 DEF Refs
    <3>6. Refs(m2, op, Up(rc, ino))
      <4>1. ASSUME NEW j \in Block \ {0}, j # ino
            PROVE  /\ Up(rc, ino)[j] # 0 => j \in DOMAIN m2.vn
                   /\ j \in DOMAIN m2.vn =>
                        /\ m2.vn[j].opencount = op[j]
                        /\ m2.vn[j].refcount = IF Up(rc, ino)[j] = 0 THEN 1
                                               ELSE Up(rc, ino)[j]
                        /\ Up(rc, ino)[j] = 0 =>
                             m2.vn[j].i.linkcount = 0 /\ m2.vn[j].i.indirect # 0
        BY <1>3, <1>4, <3>4, <4>1 DEF Refs
      <4>2. /\ ino \in DOMAIN m2.vn /\ Up(rc, ino)[ino] = 1
            /\ m2.vn[ino].opencount = op[ino]
            /\ m2.vn[ino].refcount = Up(rc, ino)[ino]
        BY <1>2, <1>4, <3>4, <3>5
      <4> QED BY <4>1, <4>2 DEF Refs
    <3>7. {Root} \cup DOMAIN m2.vn \cup Named(m) = Live(m)
      BY <1>1, <3>4
    <3>8. Good(m2, op, Up(rc, ino)) /\ Dir(m2) = Dir(m) /\ Live(m2) = Live(m)
      BY <3>2, <3>4, <3>6, <3>7, GoodSame
    <3> QED BY <3>3, <3>4, <3>8 DEF LoadedGood
  <2> QED BY <2>4, <2>5
<1> QED BY <1>5, <1>6

(* The kernel gave up on a failed read. *)
Died(o) == IsOutcome(o) /\ o.err = "panic" /\ o.m.panic = "io"

LEMMA GetRootIs ==
    ASSUME NEW m, NEW op, NEW rc, Good(m, op, rc), Counts(op, rc),
           NEW o \in GetRoot(m)
    PROVE  /\ o.err \in {"ok", "panic"}
           /\ o.err # "ok" => Died(o)
           /\ o.err = "ok" => LoadedGood(m, o, Root, op, rc)
<1>1. PICK p \in LoadVnode(m, Root, FALSE) :
         o \in IF p.err \in {"EIO", "ENOMEM"} THEN Panic(p.m, "io") ELSE {p}
  BY DEF GetRoot
<1>2. IsState(m) /\ Root \in Live(m) /\ InodeOf(m, Root).linkcount # 0
  BY GoodIs
<1>3. LoadedGood(m, p, Root, op, rc)
  BY <1>1, <1>2, LoadVnodeIs
<1>4. CASE p.err \in {"EIO", "ENOMEM"}
  <2>1. p.m = m
    BY <1>3, <1>4 DEF LoadedGood
  <2> QED BY <1>1, <1>2, <1>4, <2>1, PanicIs DEF Died
<1>5. CASE p.err \notin {"EIO", "ENOMEM"}
  BY <1>1, <1>3, <1>5 DEF LoadedGood
<1> QED BY <1>4, <1>5

------------------------------------------------------------------------------
(* sfs_bfree *)
FreedBlocks(m, o, bs) ==
    /\ IsOutcome(o) /\ o.err = "ok" /\ IsState(o.m)
    /\ o.m.used = m.used \ bs
    /\ o.m.mapdirty \/ (o.m.mapdirty = m.mapdirty /\ o.m.used = m.used)
    /\ o.m.disk = m.disk /\ o.m.vn = m.vn /\ o.m.up = m.up
    /\ o.m.lost = m.lost /\ o.m.panic = m.panic

LEMMA BfreeAllIs ==
    ASSUME NEW m, IsState(m), NEW D, IsFiniteSet(D), NEW f \in [D -> Block],
           \A x \in D : f[x] # 0 => f[x] \in m.used,
           \A x, y \in D : f[x] = f[y] /\ f[x] # 0 => x = y,
           NEW bs, \A b : b \in bs <=> b # 0 /\ \E x \in D : b = f[x],
           NEW o \in BfreeAll(m, f)
    PROVE  FreedBlocks(m, o, bs)
<1> DEFINE named == {x \in DOMAIN f : f[x] # 0}
           g == [x \in named |-> f[x]]
<1>1. DOMAIN f = D
  OBVIOUS
<1>2. bs = {f[x] : x \in named} /\ bs \subseteq m.used
  BY <1>1
<1>3. Cardinality(bs) = Cardinality(named)
  <2>1. IsFiniteSet(named)
    BY <1>1, FS_Subset
  <2>2. g \in [named -> bs]
    BY <1>2
  <2>3. \A x, y \in named : g[x] = g[y] => x = y
    BY <1>1
  <2>4. \A b \in bs : \E x \in named : g[x] = b
    BY <1>2
  <2> HIDE DEF named, g
  <2>5. g \in Bijection(named, bs)
    BY <2>2, <2>3, <2>4 DEF Bijection, Injection, Surjection, IsInjective
  <2>6. ExistsBijection(named, bs)
    BY <2>5 DEF ExistsBijection
  <2> QED BY <2>1, <2>6, FS_Bijection
<1>4. bs # {} <=> named # {}
  BY <1>2
<1> DEFINE m2 == [m EXCEPT !.used = @ \ bs, !.mapdirty = @ \/ named # {}]
<1>5. o \in Ret(m2, <<>>)
  BY <1>2, <1>3 DEF BfreeAll
<1>6. IsOutcome(o) /\ o.err = "ok" /\ o.m = m2
  BY <1>5, RetIs
<1>7. /\ m2.used = m.used \ bs /\ m2.mapdirty = (m.mapdirty \/ named # {})
      /\ m2.disk = m.disk /\ m2.vn = m.vn /\ m2.up = m.up
      /\ m2.lost = m.lost /\ m2.panic = m.panic
  BY DEF IsState
<1>8. IsState(m2)
  BY <1>7 DEF IsState
<1>9. m2.mapdirty \/ (m2.mapdirty = m.mapdirty /\ m2.used = m.used)
  <2>1. CASE named = {}
    <3>1. bs = {} /\ m.mapdirty \in BOOLEAN
      BY <1>4, <2>1 DEF IsState
    <3> HIDE DEF m2, named
    <3> QED BY <1>7, <2>1, <3>1
  <2>2. CASE named # {}
    <3> HIDE DEF m2, named
    <3> QED BY <1>7, <2>2
  <2> QED BY <2>1, <2>2
<1> HIDE DEF m2, named
<1> QED BY <1>6, <1>7, <1>8, <1>9 DEF FreedBlocks

(* The places S of inode ino no longer hold a block.                        *)
Freed(m, m2, ino, S) ==
    /\ IsState(m2) /\ m2.panic = m.panic /\ m2.disk = m.disk
    /\ m2.up = m.up /\ m2.lost = m.lost
    /\ DOMAIN m2.vn = DOMAIN m.vn
    /\ \A j \in DOMAIN m.vn \ {ino} : m2.vn[j] = m.vn[j]
    /\ m2.vn[ino].dirty \/ m2.vn[ino] = m.vn[ino]
    /\ m2.vn[ino].refcount = m.vn[ino].refcount
    /\ m2.vn[ino].opencount = m.vn[ino].opencount
    /\ m2.vn[ino].i.linkcount = m.vn[ino].i.linkcount
    /\ m2.vn[ino].i.type = m.vn[ino].i.type
    /\ m2.vn[ino].i.size = m.vn[ino].i.size
    /\ \A x \in Place : Blocks(m2, ino)[x] = IF x \in S THEN 0 ELSE Blocks(m, ino)[x]
    /\ m2.used = m.used \ ({Blocks(m, ino)[x] : x \in S} \ {0})
    /\ m2.mapdirty \/ (m2.mapdirty = m.mapdirty /\ m2.used = m.used)

LEMMA FreedDid ==
    ASSUME NEW m, NEW L, NEW H, Sound(m, L, H), NEW ino \in DOMAIN m.vn,
           NEW S \in SUBSET Place, NEW m2, Freed(m, m2, ino, S)
    PROVE  Did(m, m2, L, H, ino)
<1> DEFINE f == Blocks(m, ino)
           g == Blocks(m2, ino)
<1>1. /\ IsState(m) /\ m.panic = "no" /\ ino \in L /\ ino \in Block
      /\ WellFormed(m, ino) /\ InodeOf(m, ino) = m.vn[ino].i
      /\ Divided(m, L, H) /\ H \subseteq Block
  BY LoadedIs DEF Sound
<1>2. /\ IsState(m2) /\ m2.panic = "no" /\ m2.disk = m.disk
      /\ DOMAIN m2.vn = DOMAIN m.vn /\ InodeOf(m2, ino) = m2.vn[ino].i
      /\ InodeOf(m2, ino).type = InodeOf(m, ino).type
      /\ InodeOf(m2, ino).size = InodeOf(m, ino).size
  BY <1>1 DEF Freed, InodeOf
<1>3. /\ \A x \in Place : g[x] = IF x \in S THEN 0 ELSE f[x]
      /\ m2.used = m.used \ ({f[x] : x \in S} \ {0})
  BY DEF Freed
<1>4. f[NDirect] = InodeOf(m, ino).indirect /\ g[NDirect] = InodeOf(m2, ino).indirect
  BY <1>1, <1>2, BlocksAre
<1>5. Distinct(f)
  BY <1>1 DEF WellFormed
<1>6. /\ \A x \in Place : f[x] # 0 => f[x] \in Held(m, ino)
      /\ \A b \in Held(m, ino) : \E x \in Place : b = f[x] /\ b # 0
      /\ \A x \in Place : g[x] # 0 => g[x] \in Held(m2, ino)
      /\ \A b \in Held(m2, ino) : \E x \in Place : b = g[x] /\ b # 0
      /\ Held(m, ino) \subseteq Block \ {0}
  BY <1>1, <1>2, HeldIs
<1>7. Held(m, ino) \subseteq m.used /\ H \subseteq m.used /\ H \cap Held(m, ino) = {}
  BY <1>1, <1>6 DEF Divided
<1> HIDE DEF f, g
<1>8. Held(m2, ino) = Held(m, ino) \ ({f[x] : x \in S} \ {0})
  <2>1. ASSUME NEW b \in Held(m2, ino)
        PROVE  b \in Held(m, ino) /\ b \notin {f[x] : x \in S} \ {0}
    <3>1. PICK x \in Place : b = g[x] /\ b # 0
      BY <1>6
    <3>2. x \notin S /\ f[x] = b
      BY <1>3, <3>1
    <3>3. ASSUME NEW y \in S, f[y] = b PROVE FALSE
      BY <1>5, <3>1, <3>2, <3>3 DEF Distinct
    <3> QED BY <1>6, <3>1, <3>2, <3>3
  <2>2. ASSUME NEW b \in Held(m, ino), b \notin {f[x] : x \in S} \ {0}
        PROVE  b \in Held(m2, ino)
    <3>1. PICK x \in Place : b = f[x] /\ b # 0
      BY <1>6
    <3>2. x \notin S
      BY <2>2, <3>1
    <3> QED BY <1>3, <1>6, <3>1, <3>2
  <2> QED BY <2>1, <2>2
<1>9. WellFormed(m2, ino)
  <2>1. Distinct(g)
    BY <1>3, <1>5 DEF Distinct
  <2>2. InodeOf(m2, ino).indirect # 0 =>
            m2.disk[InodeOf(m2, ino).indirect].k \in {"zero", "ids"}
    <3>1. InodeOf(m2, ino).indirect # 0 =>
              InodeOf(m2, ino).indirect = InodeOf(m, ino).indirect
      BY <1>3, <1>4, PlaceIs
    <3> QED BY <1>1, <1>2, <3>1 DEF WellFormed
  <2>3. ASSUME NEW x \in DataPlace, g[x] # 0
        PROVE  m2.disk[g[x]].k \in {"zero", "units"}
    <3>1. g[x] = f[x]
      BY <1>3, <2>3 DEF DataPlace
    <3> QED BY <1>1, <1>2, <2>3, <3>1 DEF WellFormed, f
  <2> QED BY <1>1, <1>2, <2>1, <2>2, <2>3 DEF WellFormed, g
<1>10. Trade(m, m2, H, H, ino)
  <2>1. m2.used = (m.used \ (H \cup Held(m, ino))) \cup H \cup Held(m2, ino)
    <3>1. {f[x] : x \in S} \ {0} \subseteq Held(m, ino)
      BY <1>6
    <3> HIDE DEF Held
    <3> QED BY <1>3, <1>7, <1>8, <3>1
  <2>2. H \cap Held(m2, ino) = {} /\ H \cup Held(m2, ino) \subseteq H \cup Held(m, ino)
    BY <1>7, <1>8
  <2> QED BY <1>2, <1>9, <2>1, <2>2 DEF Trade, Freed
<1>11. Updated(m, m2, L, H, ino)
  BY <1>10, Update
<1>12. /\ m2.up = m.up /\ m2.lost = m.lost /\ DOMAIN m2.vn = DOMAIN m.vn
       /\ \A j \in DOMAIN m.vn \ {ino} : m2.vn[j] = m.vn[j]
       /\ m2.vn[ino].refcount = m.vn[ino].refcount
       /\ m2.vn[ino].opencount = m.vn[ino].opencount
       /\ m2.vn[ino].i.linkcount = m.vn[ino].i.linkcount
       /\ m.vn[ino].dirty => m2.vn[ino].dirty
  BY DEF Freed
<1> QED BY <1>11, <1>12, DidUpdate

(* sfs_truncate *)
LEMMA TruncateDirectDid ==
    ASSUME NEW m, NEW L, NEW H, Sound(m, L, H), NEW ino \in DOMAIN m.vn,
           NEW o \in TruncateDirect(m, ino)
    PROVE  /\ IsOutcome(o) /\ o.err = "ok" /\ Did(m, o.m, L, H, ino)
           /\ \A x \in 0 .. NDirect - 1 : Blocks(o.m, ino)[x] = 0
<1> DEFINE i == m.vn[ino].i
           i2 == [i EXCEPT !.direct = NoInode.direct]
           S == 0 .. NDirect - 1
           f == Blocks(m, ino)
           bs == {i.direct[x] : x \in S} \ {0}
<1>1. /\ IsState(m) /\ ino \in L /\ ino \in Block
      /\ WellFormed(m, ino) /\ InodeOf(m, ino) = i /\ i \in Inode
  BY LoadedIs
<1>2. /\ i.direct \in [S -> Block] /\ \A x \in S : i.direct[x] = f[x] /\ x \in Place
  BY <1>1, BlocksAre, PlaceIs DEF Inode, DataPlace
<1>3. IsFiniteSet(S)
  BY BlockFacts, FS_Interval
<1>4. \A x \in S : i.direct[x] # 0 => i.direct[x] \in m.used
  BY <1>1, <1>2, HeldUsed
<1>5. \A x, y \in S : i.direct[x] = i.direct[y] /\ i.direct[x] # 0 => x = y
  <2>1. Distinct(f)
    BY <1>1 DEF WellFormed
  <2> HIDE DEF f, i, S
  <2> QED BY <1>2, <2>1 DEF Distinct
<1>6. PICK p \in BfreeAll(m, i.direct) :
         IF p.err = "ok"
         THEN o \in Ret(IF i.direct = NoInode.direct THEN p.m
                        ELSE SetInode(p.m, ino, i2), <<>>)
         ELSE o = p
  BY DEF TruncateDirect, Then
<1>7. /\ IsOutcome(p) /\ p.err = "ok" /\ IsState(p.m)
      /\ p.m.used = m.used \ bs
      /\ p.m.mapdirty \/ (p.m.mapdirty = m.mapdirty /\ p.m.used = m.used)
      /\ p.m.disk = m.disk /\ p.m.vn = m.vn /\ p.m.up = m.up
      /\ p.m.lost = m.lost /\ p.m.panic = m.panic
  <2> DEFINE d == i.direct
  <2>1. /\ d \in [S -> Block] /\ \A x \in S : d[x] # 0 => d[x] \in m.used
        /\ \A x, y \in S : d[x] = d[y] /\ d[x] # 0 => x = y
        /\ \A b : b \in bs <=> b # 0 /\ \E x \in S : b = d[x]
        /\ p \in BfreeAll(m, d)
    BY <1>2, <1>4, <1>5, <1>6
  <2>2. IsState(m)
    BY <1>1
  <2> HIDE DEF S, d, bs
  <2>3. FreedBlocks(m, p, bs)
    BY ONLY <1>3, <2>1, <2>2, BfreeAllIs
  <2> QED BY ONLY <2>3 DEF FreedBlocks
<1> DEFINE m2 == IF i.direct = NoInode.direct THEN p.m ELSE SetInode(p.m, ino, i2)
<1>8. o \in Ret(m2, <<>>)
  BY <1>6, <1>7
<1>9. IsOutcome(o) /\ o.err = "ok" /\ o.m = m2
  BY <1>8, RetIs
<1>10. /\ i2 \in Inode /\ i2.type = i.type /\ i2.size = i.size
       /\ i2.linkcount = i.linkcount /\ i2.indirect = i.indirect
       /\ \A x \in S : i2.direct[x] = 0
  BY <1>1, NoInodeType DEF Inode, NoInode
<1>11. i.direct = NoInode.direct => \A x \in S : i.direct[x] = 0
  BY DEF NoInode
<1> HIDE DEF i2
<1>12. SetInode(p.m, ino, i2) = m2 =>
          /\ IsState(m2) /\ DOMAIN m2.vn = DOMAIN m.vn
          /\ m2.vn[ino].i = i2 /\ m2.vn[ino].dirty
          /\ m2.vn[ino].refcount = m.vn[ino].refcount
          /\ m2.vn[ino].opencount = m.vn[ino].opencount
          /\ \A j \in DOMAIN m.vn \ {ino} : m2.vn[j] = m.vn[j]
          /\ m2.up = p.m.up /\ m2.used = p.m.used /\ m2.mapdirty = p.m.mapdirty
          /\ m2.disk = p.m.disk /\ m2.lost = p.m.lost /\ m2.panic = p.m.panic
  <2> DEFINE m1 == p.m
  <2> HIDE DEF m2, m1
  <2>1. IsState(m1) /\ ino \in DOMAIN m1.vn /\ i2 \in Inode /\ m1.vn = m.vn
    BY <1>7, <1>10 DEF m1
  <2>2. m2 = SetInode(m1, ino, i2) =>
          /\ IsState(m2) /\ DOMAIN m2.vn = DOMAIN m1.vn
          /\ m2.vn[ino].i = i2 /\ m2.vn[ino].dirty
          /\ m2.vn[ino].refcount = m1.vn[ino].refcount
          /\ m2.vn[ino].opencount = m1.vn[ino].opencount
          /\ \A j \in DOMAIN m1.vn \ {ino} : m2.vn[j] = m1.vn[j]
          /\ m2.up = m1.up /\ m2.used = m1.used /\ m2.mapdirty = m1.mapdirty
          /\ m2.disk = m1.disk /\ m2.lost = m1.lost /\ m2.panic = m1.panic
    BY ONLY <2>1, SetInodeIs
  <2> QED BY ONLY <2>1, <2>2 DEF m1
<1>13. /\ IsState(m2) /\ DOMAIN m2.vn = DOMAIN m.vn
       /\ \A j \in DOMAIN m.vn \ {ino} : m2.vn[j] = m.vn[j]
       /\ m2.vn[ino].dirty \/ m2.vn[ino] = m.vn[ino]
       /\ m2.vn[ino].refcount = m.vn[ino].refcount
       /\ m2.vn[ino].opencount = m.vn[ino].opencount
       /\ m2.vn[ino].i.type = i.type /\ m2.vn[ino].i.size = i.size
       /\ m2.vn[ino].i.linkcount = i.linkcount /\ m2.vn[ino].i.indirect = i.indirect
       /\ \A x \in S : m2.vn[ino].i.direct[x] = 0
       /\ m2.up = m.up /\ m2.used = m.used \ bs
       /\ m2.mapdirty \/ (m2.mapdirty = m.mapdirty /\ m2.used = m.used)
       /\ m2.disk = m.disk /\ m2.lost = m.lost /\ m2.panic = m.panic
  <2>1. CASE i.direct = NoInode.direct
    <3>1. m2 = p.m
      BY <2>1
    <3> QED BY <1>7, <1>11, <2>1, <3>1
  <2>2. CASE i.direct # NoInode.direct
    <3>1. SetInode(p.m, ino, i2) = m2
      BY <2>2
    <3> HIDE DEF m2, i, S
    <3> QED BY <1>7, <1>10, <1>12, <3>1
  <2> QED BY <2>1, <2>2
<1> HIDE DEF m2
<1>14. \A x \in Place : Blocks(m2, ino)[x] = IF x \in S THEN 0 ELSE f[x]
  <2> DEFINE g == Blocks(m2, ino)
             n == m2.vn[ino].i
  <2>1. Tabled(m, f, i)
    BY <1>1, TabledIs
  <2>2. Tabled(m2, g, n)
    <3>1. InodeOf(m2, ino) = n
      BY <1>13 DEF InodeOf
    <3> QED BY <1>1, <1>13, <3>1, TabledIs
  <2>3. NDirect \notin S /\ \A x \in 0 .. DbPerId - 1 : NDirect + 1 + x \notin S
    BY BlockFacts
  <2> HIDE DEF f, g, i, n
  <2>4. n.indirect = i.indirect /\ m2.disk = m.disk /\ \A x \in S : n.direct[x] = 0
    BY <1>13 DEF i, n
  <2>5. \A x \in S : g[x] = 0
    BY <2>2, <2>4 DEF Tabled
  <2>6. g[NDirect] = f[NDirect]
    BY <2>1, <2>2, <2>4 DEF Tabled
  <2>7. \A x \in 0 .. DbPerId - 1 : g[NDirect + 1 + x] = f[NDirect + 1 + x]
    BY <2>1, <2>2, <2>4 DEF Tabled
  <2> HIDE DEF S
  <2>8. \A x \in Place : g[x] = IF x \in S THEN 0 ELSE f[x]
    BY <2>3, <2>5, <2>6, <2>7, PlaceIs DEF S
  <2> QED BY <2>8 DEF g
<1>15. bs = {f[x] : x \in S} \ {0}
  BY <1>2
<1>16. Freed(m, m2, ino, S)
  <2> HIDE DEF bs, S, f
  <2> QED BY <1>13, <1>14, <1>15 DEF Freed, f
<1>17. Did(m, m2, L, H, ino)
  <2>1. S \in SUBSET Place
    BY <1>2
  <2> QED BY <1>16, <2>1, FreedDid
<1> QED BY <1>2, <1>9, <1>14, <1>17

LEMMA TruncateIndirectDid ==
    ASSUME NEW m, NEW L, NEW H, Sound(m, L, H), NEW ino \in DOMAIN m.vn,
           NEW o \in TruncateIndirect(m, ino)
    PROVE  /\ IsOutcome(o) /\ o.err \in {"ok", "EIO"} /\ Did(m, o.m, L, H, ino)
           /\ o.err # "ok" => o.m.vn[ino].i.indirect # 0
           /\ o.err = "ok" =>
                 /\ \A x \in NDirect .. NDirect + DbPerId : Blocks(o.m, ino)[x] = 0
                 /\ \A x \in 0 .. NDirect - 1 : Blocks(o.m, ino)[x] = Blocks(m, ino)[x]
<1> DEFINE i == m.vn[ino].i
           b == i.indirect
           i2 == [i EXCEPT !.indirect = 0]
           S == NDirect .. NDirect + DbPerId
           D == 0 .. DbPerId - 1
           f == Blocks(m, ino)
           ids == AsIds(m.disk[b])
           bs == {ids[x] : x \in D} \ {0}
<1>1. /\ IsState(m) /\ ino \in L /\ ino \in Block /\ Sound(m, L, H)
      /\ WellFormed(m, ino) /\ InodeOf(m, ino) = i /\ i \in Inode
  BY LoadedIs
<1>2. /\ \A x \in S : x = NDirect \/ \E y \in D : x = NDirect + 1 + y
      /\ NDirect \in S /\ S \subseteq Place
      /\ \A y \in D : NDirect + 1 + y \in S /\ NDirect + 1 + y # NDirect
      /\ \A x \in 0 .. NDirect - 1 : x \notin S /\ x \in Place
  <2>1. \A x \in S : x # NDirect => x - NDirect - 1 \in D
                                    /\ x = NDirect + 1 + (x - NDirect - 1)
    BY BlockFacts
  <2>2. /\ NDirect \in S /\ S \subseteq Place
        /\ \A y \in D : NDirect + 1 + y \in S /\ NDirect + 1 + y # NDirect
        /\ \A x \in 0 .. NDirect - 1 : x \notin S /\ x \in Place
    BY BlockFacts DEF Place
  <2> HIDE DEF D, S
  <2> QED BY <2>1, <2>2
<1>3. Tabled(m, f, i) /\ Distinct(f)
  BY <1>1, TabledIs DEF WellFormed
<1>4. f[NDirect] = b /\ \A y \in D : f[NDirect + 1 + y] = IF b = 0 THEN 0 ELSE ids[y]
  BY <1>3 DEF Tabled
<1>5. CASE b = 0
  <2>1. o \in Ret(m, <<>>)
    BY <1>5 DEF TruncateIndirect
  <2>2. IsOutcome(o) /\ o.err = "ok" /\ o.m = m
    BY <2>1, RetIs
  <2>3. Did(m, m, L, H, ino)
    BY <1>1, DidNothing
  <2>4. \A x \in S : f[x] = 0
    <3> HIDE DEF f, b, S, D
    <3> QED BY <1>2, <1>4, <1>5
  <2> QED BY <2>2, <2>3, <2>4
<1>6. CASE b # 0
  <2>1. PICK r \in Rblock(m, b, "ids") :
           IF r.err = "ok"
           THEN \E p \in BfreeAll(r.m, AsIds(r.m.disk[b])) :
                   IF p.err = "ok"
                   THEN \E q \in Bfree(p.m, b) :
                           IF q.err = "ok" THEN o \in Ret(SetInode(q.m, ino, i2), <<>>)
                           ELSE o = q
                   ELSE o = p
           ELSE o = r
    BY <1>6 DEF TruncateIndirect, Then
  <2>2. m.disk[b].k \in {"zero", "ids"}
    BY <1>1, <1>6 DEF WellFormed
  <2>3. IsOutcome(r) /\ r.m = m /\ r.err \in {"ok", "EIO"}
    BY <2>1, <2>2, RblockIs
  <2>4. CASE r.err # "ok"
    BY <1>1, <1>6, <2>1, <2>3, <2>4, DidNothing
  <2>5. CASE r.err = "ok"
    <3>1. PICK p \in BfreeAll(m, ids) :
             IF p.err = "ok"
             THEN \E q \in Bfree(p.m, b) :
                     IF q.err = "ok" THEN o \in Ret(SetInode(q.m, ino, i2), <<>>)
                     ELSE o = q
             ELSE o = p
      BY <2>1, <2>3, <2>5
    <3>2. ids \in [D -> Block] /\ b \in Block
      <4>1. b \in Block /\ m.disk[b] \in Content
        BY <1>1 DEF IsState, Inode
      <4> QED BY <4>1, ContentFacts
    <3>3. FreedBlocks(m, p, bs)
      <4>1. IsFiniteSet(D)
        BY BlockFacts, FS_Interval
      <4> HIDE DEF f, ids, b, D, S
      <4>2. \A x \in D : ids[x] # 0 => ids[x] \in m.used
        BY <1>1, <1>2, <1>4, <1>6, HeldUsed DEF f
      <4>3. \A x, y \in D : ids[x] = ids[y] /\ ids[x] # 0 => x = y
        <5>1. ASSUME NEW x \in D, NEW y \in D, ids[x] = ids[y], ids[x] # 0
              PROVE  x = y
          <6>1. NDirect + 1 + x = NDirect + 1 + y
            BY <1>2, <1>3, <1>4, <1>6, <5>1 DEF Distinct
          <6> QED BY <6>1, BlockFacts DEF D
        <5> QED BY <5>1
      <4>4. \A c : c \in bs <=> c # 0 /\ \E x \in D : c = ids[x]
        OBVIOUS
      <4>5. p \in BfreeAll(m, ids) /\ IsState(m)
        BY <1>1, <3>1
      <4> HIDE DEF bs
      <4> QED BY ONLY <3>2, <4>1, <4>2, <4>3, <4>4, <4>5, BfreeAllIs
    <3> DEFINE m1 == p.m
    <3>4. /\ p.err = "ok" /\ IsState(m1) /\ m1.used = m.used \ bs
          /\ m1.mapdirty \/ (m1.mapdirty = m.mapdirty /\ m1.used = m.used)
          /\ m1.disk = m.disk /\ m1.vn = m.vn /\ m1.up = m.up
          /\ m1.lost = m.lost /\ m1.panic = m.panic
      BY <3>3 DEF FreedBlocks
    <3>5. PICK q \in Bfree(m1, b) :
             IF q.err = "ok" THEN o \in Ret(SetInode(q.m, ino, i2), <<>>)
             ELSE o = q
      BY <3>1, <3>4
    <3>6. b \in m.used /\ b \notin bs
      <4> HIDE DEF f, ids, b, D, S
      <4>1. b \in m.used
        BY <1>1, <1>2, <1>4, <1>6, HeldUsed DEF f
      <4>2. ASSUME NEW x \in D, ids[x] = b PROVE FALSE
        <5>1. f[NDirect + 1 + x] = f[NDirect]
          BY <1>4, <1>6, <4>2
        <5> QED BY <1>2, <1>3, <1>4, <1>6, <5>1 DEF Distinct
      <4> QED BY <4>1, <4>2
    <3>7. FreedBlocks(m1, q, {b})
      <4> DEFINE g == <<b>>
      <4>1. g \in [{1} -> Block] /\ g[1] = b
        BY <3>2
      <4>2. IsFiniteSet({1})
        BY FS_Singleton
      <4>3. q \in BfreeAll(m1, g)
        BY <3>5 DEF Bfree
      <4> HIDE DEF g, m1, bs, b
      <4>4. /\ \A x \in {1} : g[x] # 0 => g[x] \in m1.used
            /\ \A x, y \in {1} : g[x] = g[y] /\ g[x] # 0 => x = y
            /\ \A c : c \in {b} <=> c # 0 /\ \E x \in {1} : c = g[x]
        BY <1>6, <3>4, <3>6, <4>1
      <4>5. IsState(m1)
        BY <3>4
      <4> QED BY ONLY <4>1, <4>2, <4>3, <4>4, <4>5, BfreeAllIs
    <3> DEFINE m2 == q.m
    <3>8. /\ q.err = "ok" /\ IsState(m2) /\ m2.used = m1.used \ {b}
          /\ m2.mapdirty \/ (m2.mapdirty = m1.mapdirty /\ m2.used = m1.used)
          /\ m2.disk = m1.disk /\ m2.vn = m1.vn /\ m2.up = m1.up
          /\ m2.lost = m1.lost /\ m2.panic = m1.panic
      BY <3>7 DEF FreedBlocks
    <3> DEFINE m3 == SetInode(m2, ino, i2)
    <3>9. o \in Ret(m3, <<>>)
      BY <3>5, <3>8
    <3>10. IsOutcome(o) /\ o.err = "ok" /\ o.m = m3
      BY <3>9, RetIs
    <3>11. /\ i2 \in Inode /\ i2.type = i.type /\ i2.size = i.size
           /\ i2.linkcount = i.linkcount /\ i2.indirect = 0 /\ i2.direct = i.direct
      BY <1>1, BlockFacts DEF Inode
    <3>12. /\ IsState(m3) /\ DOMAIN m3.vn = DOMAIN m2.vn
           /\ m3.vn[ino].i = i2 /\ m3.vn[ino].dirty
           /\ m3.vn[ino].refcount = m2.vn[ino].refcount
           /\ m3.vn[ino].opencount = m2.vn[ino].opencount
           /\ \A j \in DOMAIN m2.vn \ {ino} : m3.vn[j] = m2.vn[j]
           /\ m3.up = m2.up /\ m3.used = m2.used /\ m3.mapdirty = m2.mapdirty
           /\ m3.disk = m2.disk /\ m3.lost = m2.lost /\ m3.panic = m2.panic
      <4>1. IsState(m2) /\ ino \in DOMAIN m2.vn
        BY <3>4, <3>8
      <4>2. m3 = SetInode(m2, ino, i2)
        OBVIOUS
      <4> HIDE DEF m3, m2, m1, i2
      <4> QED BY ONLY <3>11, <4>1, <4>2, SetInodeIs
    <3> HIDE DEF m3, m2, m1, i2
    <3>13. /\ IsState(m3) /\ DOMAIN m3.vn = DOMAIN m.vn
           /\ \A j \in DOMAIN m.vn \ {ino} : m3.vn[j] = m.vn[j]
           /\ m3.vn[ino].dirty
           /\ m3.vn[ino].refcount = m.vn[ino].refcount
           /\ m3.vn[ino].opencount = m.vn[ino].opencount
           /\ m3.vn[ino].i.type = i.type /\ m3.vn[ino].i.size = i.size
           /\ m3.vn[ino].i.linkcount = i.linkcount
           /\ m3.up = m.up /\ m3.disk = m.disk /\ m3.lost = m.lost
           /\ m3.panic = m.panic /\ m3.used = m.used \ (bs \cup {b})
      <4> HIDE DEF i, b, bs
      <4> QED BY <3>4, <3>8, <3>11, <3>12
    <3>14. m3.mapdirty \/ (m3.mapdirty = m.mapdirty /\ m3.used = m.used)
      <4> HIDE DEF i, b, bs
      <4> QED BY <3>4, <3>8, <3>12
    <3>15. \A x \in Place : Blocks(m3, ino)[x] = IF x \in S THEN 0 ELSE f[x]
      <4> DEFINE g == Blocks(m3, ino)
      <4>1. Tabled(m3, g, i2)
        <5>1. InodeOf(m3, ino) = i2
          BY <3>12, <3>13 DEF InodeOf
        <5> QED BY <1>1, <3>13, <5>1, TabledIs
      <4> HIDE DEF g, f, i, b, ids
      <4>2. g[NDirect] = 0 /\ \A y \in D : g[NDirect + 1 + y] = 0
        BY <3>11, <4>1 DEF Tabled
      <4>3. \A x \in 0 .. NDirect - 1 : g[x] = f[x]
        BY <1>3, <3>11, <4>1 DEF Tabled
      <4> HIDE DEF S, D
      <4>4. \A x \in S : g[x] = 0
        BY <1>2, <4>2
      <4>5. \A x \in Place : x \in S \/ x \in 0 .. NDirect - 1
        BY <1>2, PlaceIs DEF D
      <4>6. \A x \in Place : g[x] = IF x \in S THEN 0 ELSE f[x]
        BY <1>2, <4>3, <4>4, <4>5
      <4> QED BY <4>6 DEF g
    <3>16. bs \cup {b} = {f[x] : x \in S} \ {0}
      <4> HIDE DEF f, ids, b, D, S
      <4>1. ASSUME NEW c \in bs \cup {b} PROVE c \in {f[x] : x \in S} \ {0}
        BY <1>2, <1>4, <1>6
      <4>2. ASSUME NEW x \in S, f[x] # 0 PROVE f[x] \in bs \cup {b}
        BY <1>2, <1>4, <1>6, <4>2
      <4> QED BY <4>1, <4>2
    <3>17. Freed(m, m3, ino, S)
      <4> HIDE DEF bs, b, S, f
      <4> QED BY <3>13, <3>14, <3>15, <3>16 DEF Freed, f
    <3>18. Did(m, m3, L, H, ino)
      BY <1>1, <1>2, <3>17, FreedDid
    <3>19. /\ \A x \in S : Blocks(m3, ino)[x] = 0
           /\ \A x \in 0 .. NDirect - 1 : Blocks(m3, ino)[x] = f[x]
      <4> HIDE DEF S, f
      <4> QED BY <1>2, <3>15
    <3> QED BY <3>10, <3>18, <3>19
  <2> QED BY <2>3, <2>4, <2>5
<1> QED BY <1>5, <1>6

TruncateResult(m, o, L, H, ino) ==
    /\ IsOutcome(o) /\ o.err \in {"ok", "EIO"} /\ Did(m, o.m, L, H, ino)
    /\ o.err # "ok" => o.m.vn[ino].i.indirect # 0
    /\ o.err = "ok" => Held(o.m, ino) = {}

LEMMA TruncateDid ==
    ASSUME NEW m, NEW L, NEW H, Sound(m, L, H), NEW ino \in DOMAIN m.vn,
           NEW o \in Truncate(m, ino)
    PROVE  TruncateResult(m, o, L, H, ino)
<1>1. PICK p \in TruncateDirect(m, ino) :
         IF p.err = "ok"
         THEN \E q \in TruncateIndirect(p.m, ino) :
                 IF q.err = "ok"
                 THEN o \in Ret(SetInode(q.m, ino, [q.m.vn[ino].i EXCEPT !.size = 0]),
                                <<>>)
                 ELSE o = q
         ELSE o = p
  BY DEF Truncate, Then
<1> DEFINE m1 == p.m
<1>2. /\ IsOutcome(p) /\ p.err = "ok" /\ Did(m, m1, L, H, ino)
      /\ \A x \in 0 .. NDirect - 1 : Blocks(m1, ino)[x] = 0
  BY <1>1, TruncateDirectDid
<1>3. Sound(m1, L, H) /\ ino \in DOMAIN m1.vn
  BY <1>2 DEF Did
<1>4. PICK q \in TruncateIndirect(m1, ino) :
         IF q.err = "ok"
         THEN o \in Ret(SetInode(q.m, ino, [q.m.vn[ino].i EXCEPT !.size = 0]), <<>>)
         ELSE o = q
  BY <1>1, <1>2
<1> DEFINE m2 == q.m
<1> HIDE DEF m1
<1>5. /\ IsOutcome(q) /\ q.err \in {"ok", "EIO"} /\ Did(m1, m2, L, H, ino)
      /\ q.err # "ok" => m2.vn[ino].i.indirect # 0
      /\ q.err = "ok" =>
            /\ \A x \in NDirect .. NDirect + DbPerId : Blocks(m2, ino)[x] = 0
            /\ \A x \in 0 .. NDirect - 1 : Blocks(m2, ino)[x] = Blocks(m1, ino)[x]
  BY <1>3, <1>4, TruncateIndirectDid
<1>6. Did(m, m2, L, H, ino)
  <2> HIDE DEF m2
  <2> QED BY <1>2, <1>5, DidTrans
<1>7. CASE q.err # "ok"
  BY <1>4, <1>5, <1>6, <1>7 DEF TruncateResult
<1>8. CASE q.err = "ok"
  <2> DEFINE i == m2.vn[ino].i
             i2 == [i EXCEPT !.size = 0]
             m3 == SetInode(m2, ino, i2)
  <2>1. IsOutcome(o) /\ o.err = "ok" /\ o.m = m3
    BY <1>4, <1>8, RetIs
  <2> HIDE DEF m2
  <2>2. Sound(m2, L, H) /\ ino \in DOMAIN m2.vn
    BY <1>3, <1>5 DEF Did
  <2>3. i \in Inode /\ InodeOf(m2, ino) = i /\ IsState(m2) /\ ino \in Block
    BY <2>2, LoadedIs
  <2>4. /\ i2 \in Inode /\ i2.type = i.type /\ i2.size = 0 /\ i2.linkcount = i.linkcount
        /\ i2.direct = i.direct /\ i2.indirect = i.indirect
    BY <2>3 DEF Inode
  <2>5. 0 <= MaxSize
    BY BlockFacts, TimesSlots DEF MaxSize
  <2>6. m3 = SetInode(m2, ino, i2)
    OBVIOUS
  <2> HIDE DEF i2, m3
  <2>7. Updated(m2, m3, L, H, ino) /\ ScalarsSet(m2, m3, ino, i2)
    BY <2>2, <2>4, <2>5, <2>6, SetScalars
  <2>8. Did(m2, m3, L, H, ino)
    BY <2>2, <2>4, <2>7, DidUpdate DEF ScalarsSet
  <2>9. Did(m, m3, L, H, ino)
    BY <1>6, <2>8, DidTrans
  <2>10. Held(m3, ino) = {}
    <3> DEFINE f == Blocks(m2, ino)
               g == Blocks(m3, ino)
    <3>1. Tabled(m2, f, i)
      BY <2>3, TabledIs
    <3>2. InodeOf(m3, ino) = i2 /\ m3.disk = m2.disk
      BY <2>7 DEF ScalarsSet
    <3>3. Tabled(m3, g, i2)
      <4>1. IsState(m3)
        BY <2>9 DEF Did, Sound
      <4> QED BY <2>3, <3>2, <4>1, TabledIs
    <3>4. /\ f[NDirect] = 0 /\ \A x \in 0 .. NDirect - 1 : f[x] = 0
      <4>1. NDirect \in NDirect .. NDirect + DbPerId
        BY BlockFacts
      <4> QED BY <1>2, <1>5, <1>8, <4>1
    <3> HIDE DEF f, g, i
    <3>5. /\ g[NDirect] = 0 /\ \A x \in 0 .. NDirect - 1 : g[x] = 0
      BY <2>4, <3>1, <3>3, <3>4 DEF Tabled
    <3>6. \A x \in 0 .. DbPerId - 1 : g[NDirect + 1 + x] = 0
      BY <3>3, <3>5 DEF Tabled
    <3>7. \A x \in Place : g[x] = 0
      BY <3>5, <3>6, PlaceIs
    <3> QED BY <3>7 DEF Held, BlocksIn, g
  <2> QED BY <2>1, <2>9, <2>10 DEF TruncateResult
<1> QED BY <1>5, <1>7, <1>8

------------------------------------------------------------------------------
(* vnode_decref and sfs_reclaim                                             *)

(* The block of an empty inode is freed and its vnode leaves the table.     *)
LEMMA DropInode ==
    ASSUME NEW m, NEW L, NEW H, Sound(m, L, H), NEW ino \in DOMAIN m.vn,
           ino # Root, Held(m, ino) = {},
           NEW o, FreedBlocks(m, o, {ino}),
           NEW m2, m2 = [o.m EXCEPT !.vn = [j \in DOMAIN @ \ {ino} |-> @[j]]]
    PROVE  SameFiles(m, m2, L \ {ino}, H) /\ Gone(m, m2, ino)
<1>1. /\ IsState(m) /\ m.panic = "no" /\ L \subseteq Block /\ H \subseteq Block
      /\ Root \in L /\ DOMAIN m.vn \subseteq L /\ Divided(m, L, H) /\ Truthful(m)
      /\ m.disk[Super].k = "super" /\ m.disk[Map].k = "map"
      /\ \A i \in L : WellFormed(m, i)
  BY DEF Sound
<1> DEFINE m1 == o.m
<1>2. /\ IsState(m1) /\ m1.used = m.used \ {ino}
      /\ m1.mapdirty \/ (m1.mapdirty = m.mapdirty /\ m1.used = m.used)
      /\ m1.disk = m.disk /\ m1.vn = m.vn /\ m1.up = m.up
      /\ m1.lost = m.lost /\ m1.panic = m.panic
  BY DEF FreedBlocks
<1>3. m2 = [m1 EXCEPT !.vn = [j \in DOMAIN @ \ {ino} |-> @[j]]]
  OBVIOUS
<1> HIDE DEF m1
<1>4. /\ IsState(m2) /\ Gone(m1, m2, ino)
      /\ m2.used = m1.used /\ m2.mapdirty = m1.mapdirty /\ m2.disk = m1.disk
      /\ m2.panic = m1.panic
  BY ONLY <1>2, <1>3, GoneIs
<1>5. /\ Gone(m, m2, ino) /\ m2.used = m.used \ {ino} /\ m2.disk = m.disk
      /\ m2.mapdirty \/ (m2.mapdirty = m.mapdirty /\ m2.used = m.used)
      /\ m2.panic = "no"
  BY <1>1, <1>2, <1>4 DEF Gone
<1>6. ASSUME NEW j \in L \ {ino} PROVE SameFile(m, m2, j)
  <2>1. j \in Block /\ WellFormed(m, j)
    BY <1>1
  <2>2. InodeOf(m2, j) = InodeOf(m, j)
    BY <1>5 DEF InodeOf, Gone
  <2>3. j \notin DOMAIN m2.vn => m2.disk[j].k = "inode"
    BY <1>5, <2>1 DEF Gone, WellFormed
  <2>4. \A b \in Held(m, j) : m2.disk[b] = m.disk[b]
    BY <1>5
  <2> QED BY <1>1, <1>4, <2>1, <2>2, <2>3, <2>4, InodeKept
<1>7. \A j \in L \ {ino} : Held(m2, j) = Held(m, j) /\ WellFormed(m2, j)
  BY <1>6 DEF SameFile
<1>8. Divided(m2, L \ {ino}, H)
  <2>1. ASSUME NEW b \in Block
        PROVE  b \in m2.used <=> \/ b \in {Super, Map} \/ b \in L \ {ino} \/ b \in H
                                 \/ \E i \in L \ {ino} : b \in Held(m2, i)
    <3>1. b \in m.used <=> \/ b \in {Super, Map} \/ b \in L \/ b \in H
                           \/ \E i \in L \ {ino} : b \in Held(m, i)
      BY <1>1 DEF Divided
    <3>2. /\ ino \notin {Super, Map} /\ ino \notin H /\ ino \in L
          /\ \A i \in L \ {ino} : ino \notin Held(m, i)
      BY <1>1 DEF Divided
    <3> QED BY <1>5, <1>7, <3>1, <3>2
  <2>2. /\ {Super, Map} \cap (L \ {ino}) = {} /\ {Super, Map} \cap H = {}
        /\ (L \ {ino}) \cap H = {}
    BY <1>1 DEF Divided
  <2>3. \A i \in L \ {ino} : Held(m2, i) \cap ({Super, Map} \cup (L \ {ino}) \cup H) = {}
    BY <1>1, <1>7 DEF Divided
  <2>4. \A i, j \in L \ {ino} : i # j => Held(m2, i) \cap Held(m2, j) = {}
    BY <1>1, <1>7 DEF Divided
  <2> QED BY <2>1, <2>2, <2>3, <2>4 DEF Divided
<1>9. Truthful(m2)
  BY <1>1, <1>5 DEF Truthful, Gone
<1>10. Sound(m2, L \ {ino}, H)
  <2>1. Root \in L \ {ino} /\ DOMAIN m2.vn \subseteq L \ {ino} /\ L \ {ino} \subseteq Block
    BY <1>1, <1>5 DEF Gone
  <2> QED BY <1>1, <1>4, <1>5, <1>7, <1>8, <1>9, <2>1 DEF Sound
<1> QED BY <1>5, <1>6, <1>10 DEF SameFiles

(* Whoever called answers for one reference less.                           *)
Released(m, o, op, rc) ==
    /\ IsOutcome(o) /\ o.err = "ok" /\ Good(o.m, op, rc) /\ Dir(o.m) = Dir(m)

LEMMA RefsGone ==
    ASSUME NEW m, NEW op, NEW rc, NEW ino \in Block \ {0}, Counts(op, rc),
           Refs(m, op, Up(rc, ino)), rc[ino] = 0, NEW m2, Gone(m, m2, ino)
    PROVE  Refs(m2, op, rc)
<1>1. \A j \in Block : j # ino => Up(rc, ino)[j] = rc[j]
  BY UpIs DEF Counts
<1>2. ASSUME NEW j \in Block \ {0}, j # ino
      PROVE  /\ rc[j] # 0 => j \in DOMAIN m2.vn
             /\ j \in DOMAIN m2.vn =>
                  /\ m2.vn[j].opencount = op[j]
                  /\ m2.vn[j].refcount = IF rc[j] = 0 THEN 1 ELSE rc[j]
                  /\ rc[j] = 0 => m2.vn[j].i.linkcount = 0 /\ m2.vn[j].i.indirect # 0
  BY <1>1, <1>2 DEF Refs, Gone
<1>3. ino \notin DOMAIN m2.vn
  BY DEF Gone
<1> QED BY <1>2, <1>3 DEF Refs

LEMMA ReclaimIs ==
    ASSUME NEW m, NEW op, NEW rc, NEW ino \in Block \ {0}, Counts(op, rc),
           Good(m, op, Up(rc, ino)), rc[ino] = 0, NEW o \in Reclaim(m, ino)
    PROVE  /\ IsOutcome(o) /\ o.err # "panic" /\ Good(o.m, op, rc)
           /\ Dir(o.m) = Dir(m)
<1> DEFINE L == Live(m)
           H == m.lost
<1>1. /\ Sound(m, L, H) /\ Root \in L /\ DOMAIN m.vn \subseteq L /\ m.up
      /\ L \subseteq Block \ {0} /\ L = {Root} \cup DOMAIN m.vn \cup Named(m)
      /\ \A i \in L : InodeOf(m, i).linkcount # 0 <=> i = Root \/ i \in Named(m)
  BY GoodIs DEF Live
<1>2. Refs(m, op, Up(rc, ino)) /\ op[ino] = 0
  <2>1. op[ino] <= rc[ino] /\ op[ino] \in Nat
    BY DEF Counts
  <2> QED BY <2>1 DEF Good
<1>3. Up(rc, ino)[ino] = 1 /\ \A j \in Block : j # ino => Up(rc, ino)[j] = rc[j]
  BY UpIs DEF Counts
<1>4. /\ ino \in DOMAIN m.vn /\ m.vn[ino].refcount = 1 /\ m.vn[ino].opencount = 0
      /\ InodeOf(m, ino) = m.vn[ino].i /\ ino \in L
  BY <1>1, <1>2, <1>3 DEF Refs, InodeOf
<1>5. CASE m.vn[ino].i.linkcount # 0
  <2> DEFINE m1 == SyncInode(m, ino)
             m2 == [m1 EXCEPT !.vn = [j \in DOMAIN @ \ {ino} |-> @[j]]]
  <2>1. o \in Kill(m1, ino)
    <3>1. \E p \in Ret(m, <<>>) :
             IF p.err = "ok"
             THEN \E q \in Ret(SyncInode(p.m, ino), <<>>) :
                     IF q.err = "ok" THEN o \in Kill(q.m, ino) ELSE o = q
             ELSE o = p
      BY <1>5 DEF Reclaim, Then
    <3> QED BY <3>1, RetIs
  <2>2. SameFiles(m, m1, L, H) /\ Synced(m, m1, ino)
    BY <1>1, <1>4, SyncInodeIs
  <2> HIDE DEF m1
  <2>3. /\ DOMAIN m1.vn = DOMAIN m.vn /\ m1.vn[ino].refcount = 1
        /\ m1.vn[ino].opencount = 0 /\ ~m1.vn[ino].dirty
        /\ m1.up = m.up /\ m1.lost = m.lost
    BY <1>4, <2>2 DEF Synced
  <2>4. o \in Ret(m2, <<>>)
    BY <2>1, <2>3 DEF Kill
  <2>5. IsOutcome(o) /\ o.err = "ok" /\ o.m = m2
    BY <2>4, RetIs
  <2>6. SameFiles(m1, m2, L, H) /\ Gone(m1, m2, ino)
    <3>1. Sound(m1, L, H) /\ ino \in DOMAIN m1.vn
      BY <1>4, <2>2, <2>3 DEF SameFiles
    <3> QED BY <2>3, <3>1, ForgetInode
  <2> HIDE DEF m2
  <2>7. SameFiles(m, m2, L, H)
    BY <2>2, <2>6 DEF SameFiles, SameFile
  <2>8. Gone(m, m2, ino)
    BY <2>2, <2>6 DEF Gone, Synced
  <2>9. {Root} \cup DOMAIN m2.vn \cup Named(m) = L
    BY <1>1, <1>4, <1>5, <2>8 DEF Gone
  <2>10. Refs(m2, op, rc)
    BY <1>2, <2>8, RefsGone
  <2>11. m2.up = m.up /\ m2.lost = m.lost
    BY <2>8 DEF Gone
  <2> QED BY <2>5, <2>7, <2>9, <2>10, <2>11, GoodSame
<1>6. CASE m.vn[ino].i.linkcount = 0
  <2>1. ino # Root /\ ino \notin Named(m)
    BY <1>1, <1>4, <1>6
  <2>2. PICK p \in Truncate(m, ino) :
           IF p.err = "ok"
           THEN \E q \in Bfree(SyncInode(p.m, ino), ino) :
                   IF q.err = "ok" THEN o \in Kill(q.m, ino) ELSE o = q
           ELSE o = p
    BY <1>6 DEF Reclaim, Then
  <2>3. TruncateResult(m, p, L, H, ino)
    BY <1>1, <1>4, <2>2, TruncateDid
  <2> DEFINE m1 == p.m
  <2>4. /\ IsOutcome(p) /\ p.err \in {"ok", "EIO"} /\ Did(m, m1, L, H, ino)
        /\ p.err # "ok" => m1.vn[ino].i.indirect # 0
        /\ p.err = "ok" => Held(m1, ino) = {}
    BY <2>3 DEF TruncateResult
  <2>5. CASE p.err # "ok"
    <3>1. o = p
      BY <2>2, <2>5
    <3>2. Good(m1, op, Up(rc, ino)) /\ Dir(m1) = Dir(m)
      BY <1>3, <1>4, <2>1, <2>4, GoodDid
    <3>3. /\ m1.vn[ino].i.indirect # 0 /\ m1.vn[ino].i.linkcount = 0
          /\ DOMAIN m1.vn = DOMAIN m.vn
      BY <1>6, <2>4, <2>5 DEF Did
    <3>4. Refs(m1, op, rc)
      <4>1. Refs(m1, op, Up(rc, ino))
        BY <3>2 DEF Good
      <4>2. ASSUME NEW j \in Block \ {0}
            PROVE  /\ rc[j] # 0 => j \in DOMAIN m1.vn
                   /\ j \in DOMAIN m1.vn =>
                        /\ m1.vn[j].opencount = op[j]
                        /\ m1.vn[j].refcount = IF rc[j] = 0 THEN 1 ELSE rc[j]
                        /\ rc[j] = 0 => m1.vn[j].i.linkcount = 0
                                        /\ m1.vn[j].i.indirect # 0
        <5>1. CASE j = ino
          BY <1>3, <3>3, <4>1, <5>1 DEF Refs
        <5>2. CASE j # ino
          BY <1>3, <4>1, <5>2 DEF Refs
        <5> QED BY <5>1, <5>2
      <4> QED BY <4>2 DEF Refs
    <3>5. Good(m1, op, rc)
      BY <3>2, <3>4 DEF Good
    <3> QED BY <2>4, <3>1, <3>2, <3>5
  <2>6. CASE p.err = "ok"
    <3> DEFINE m2 == SyncInode(m1, ino)
    <3>1. PICK q \in Bfree(m2, ino) :
             IF q.err = "ok" THEN o \in Kill(q.m, ino) ELSE o = q
      BY <2>2, <2>6
    <3> HIDE DEF m1
    <3>2. Sound(m1, L, H) /\ ino \in DOMAIN m1.vn /\ Held(m1, ino) = {}
      BY <1>4, <2>4, <2>6 DEF Did
    <3>3. SameFiles(m1, m2, L, H) /\ Synced(m1, m2, ino)
      BY <3>2, SyncInodeIs
    <3> HIDE DEF m2
    <3>4. Sound(m2, L, H) /\ ino \in DOMAIN m2.vn /\ Held(m2, ino) = {}
      BY <1>4, <3>2, <3>3 DEF SameFiles, SameFile, Synced
    <3>5. FreedBlocks(m2, q, {ino})
      <4> DEFINE g == <<ino>>
      <4>1. g \in [{1} -> Block] /\ g[1] = ino
        OBVIOUS
      <4>2. IsFiniteSet({1})
        BY FS_Singleton
      <4>3. q \in BfreeAll(m2, g)
        BY <3>1 DEF Bfree
      <4>4. ino \in m2.used /\ IsState(m2)
        BY <1>4, <3>4, LiveUsed DEF Sound
      <4> HIDE DEF g
      <4>5. /\ \A x \in {1} : g[x] # 0 => g[x] \in m2.used
            /\ \A x, y \in {1} : g[x] = g[y] /\ g[x] # 0 => x = y
            /\ \A c : c \in {ino} <=> c # 0 /\ \E x \in {1} : c = g[x]
        BY <4>1, <4>4
      <4> QED BY ONLY <4>1, <4>2, <4>3, <4>4, <4>5, BfreeAllIs
    <3> DEFINE m3 == q.m
               m4 == [m3 EXCEPT !.vn = [j \in DOMAIN @ \ {ino} |-> @[j]]]
    <3>6. q.err = "ok" /\ m3.vn = m2.vn
      BY <3>5 DEF FreedBlocks
    <3>7. m2.vn[ino].refcount = 1 /\ m2.vn[ino].opencount = 0
      BY <1>4, <2>4, <3>3 DEF Did, Synced, m1
    <3>8. o \in Ret(m4, <<>>)
      BY <3>1, <3>6, <3>7 DEF Kill
    <3>9. IsOutcome(o) /\ o.err = "ok" /\ o.m = m4
      BY <3>8, RetIs
    <3>10. m4 = [q.m EXCEPT !.vn = [j \in DOMAIN @ \ {ino} |-> @[j]]]
      OBVIOUS
    <3> HIDE DEF m4
    <3>11. SameFiles(m2, m4, L \ {ino}, H) /\ Gone(m2, m4, ino)
      BY ONLY <2>1, <3>4, <3>5, <3>10, DropInode
    <3>12. Gone(m, m4, ino)
      BY <2>4, <3>3, <3>11 DEF Gone, Synced, Did, m1
    <3>13. ASSUME NEW j \in L \ {ino}
           PROVE  InodeOf(m4, j) = InodeOf(m, j) /\ Units(m4, j) = Units(m, j)
      <4>1. InodeOf(m1, j) = InodeOf(m, j) /\ Units(m1, j) = Units(m, j)
        BY <2>4 DEF Did, m1
      <4>2. InodeOf(m2, j) = InodeOf(m1, j) /\ Units(m2, j) = Units(m1, j)
        BY <3>3 DEF SameFiles, SameFile
      <4>3. InodeOf(m4, j) = InodeOf(m2, j) /\ Units(m4, j) = Units(m2, j)
        BY <3>11 DEF SameFiles, SameFile
      <4> QED BY <4>1, <4>2, <4>3
    <3>14. Dir(m4) = Dir(m)
      BY <1>1, <2>1, <3>13 DEF Dir
    <3>15. Live(m4) = L \ {ino}
      <4>1. Named(m4) = Named(m) /\ DOMAIN m4.vn = DOMAIN m.vn \ {ino}
        BY <3>12, <3>14 DEF Named, Entries, Dir, Gone
      <4> HIDE DEF L
      <4> QED BY <1>1, <2>1, <4>1 DEF Live
    <3>16. m4.up /\ m4.lost = H
      BY <1>1, <3>12 DEF Gone
    <3>17. Refs(m4, op, rc)
      BY <1>2, <3>12, RefsGone
    <3>18. Sound(m4, Live(m4), m4.lost)
      BY <3>11, <3>15, <3>16 DEF SameFiles
    <3>19. Good(m4, op, rc)
      BY <3>13, <3>14, <3>15, <3>16, <3>17, <3>18, GoodKept
    <3> QED BY <3>9, <3>14, <3>19
  <2> QED BY <2>5, <2>6
<1> QED BY <1>5, <1>6

(* The counts of one vnode change.                                          *)
LEMMA RefsRecounted ==
    ASSUME NEW m, NEW op, NEW rc, Refs(m, op, rc), NEW ino \in DOMAIN m.vn,
           NEW m2, NEW r, NEW n, Recounted(m, m2, ino, r, n), NEW op2, NEW rc2,
           \A j \in Block : j # ino => op2[j] = op[j] /\ rc2[j] = rc[j],
           n = op2[ino], r = rc2[ino], r # 0
    PROVE  Refs(m2, op2, rc2)
<1>1. ASSUME NEW j \in Block \ {0}, j # ino
      PROVE  /\ rc2[j] # 0 => j \in DOMAIN m2.vn
             /\ j \in DOMAIN m2.vn =>
                  /\ m2.vn[j].opencount = op2[j]
                  /\ m2.vn[j].refcount = IF rc2[j] = 0 THEN 1 ELSE rc2[j]
                  /\ rc2[j] = 0 => m2.vn[j].i.linkcount = 0 /\ m2.vn[j].i.indirect # 0
  BY <1>1 DEF Refs, Recounted
<1>2. /\ ino \in DOMAIN m2.vn /\ m2.vn[ino].opencount = op2[ino]
      /\ m2.vn[ino].refcount = rc2[ino] /\ rc2[ino] # 0
  BY DEF Recounted
<1> QED BY <1>1, <1>2 DEF Refs

LEMMA GoodRecounted ==
    ASSUME NEW m, NEW op, NEW rc, Good(m, op, rc), NEW ino \in DOMAIN m.vn,
           NEW m2, NEW r, NEW n, Recounted(m, m2, ino, r, n),
           SameFiles(m, m2, Live(m), m.lost), NEW op2, NEW rc2,
           \A j \in Block : j # ino => op2[j] = op[j] /\ rc2[j] = rc[j],
           n = op2[ino], r = rc2[ino], r # 0
    PROVE  Good(m2, op2, rc2) /\ Dir(m2) = Dir(m)
<1>1. Refs(m2, op2, rc2)
  <2>1. Refs(m, op, rc)
    BY DEF Good
  <2> QED BY <2>1, RefsRecounted
<1>2. m2.up = m.up /\ m2.lost = m.lost /\ DOMAIN m2.vn = DOMAIN m.vn
  BY DEF Recounted
<1>3. {Root} \cup DOMAIN m2.vn \cup Named(m) = Live(m)
  BY <1>2 DEF Live
<1> QED BY <1>1, <1>2, <1>3, GoodSame

LEMMA DecrefIs ==
    ASSUME NEW m, NEW op, NEW rc, NEW ino \in Block \ {0}, Counts(op, rc),
           Good(m, op, Up(rc, ino)), NEW o \in Decref(m, ino)
    PROVE  Released(m, o, op, rc)
<1>1. /\ Up(rc, ino)[ino] = rc[ino] + 1 /\ rc[ino] \in Nat
      /\ \A j \in Block : j # ino => Up(rc, ino)[j] = rc[j]
  BY UpIs DEF Counts
<1>2. Refs(m, op, Up(rc, ino)) /\ Sound(m, Live(m), m.lost)
  BY DEF Good
<1>3. /\ ino \in DOMAIN m.vn /\ m.vn[ino].refcount = rc[ino] + 1
      /\ m.vn[ino].opencount = op[ino]
  BY <1>1, <1>2 DEF Refs
<1>4. CASE rc[ino] # 0
  <2> DEFINE m2 == [m EXCEPT !.vn[ino].refcount = @ - 1]
  <2>1. o \in Ret(m2, <<>>)
    BY <1>1, <1>3, <1>4 DEF Decref
  <2>2. IsOutcome(o) /\ o.err = "ok" /\ o.m = m2
    BY <2>1, RetIs
  <2>3. /\ SameFiles(m, m2, Live(m), m.lost)
        /\ Recounted(m, m2, ino, m.vn[ino].refcount - 1, m.vn[ino].opencount)
    <3>1. m2 = [m EXCEPT !.vn[ino].refcount = @ - 1] /\ m.vn[ino].refcount > 0
      BY <1>1, <1>3, <1>4
    <3> HIDE DEF m2
    <3> QED BY ONLY <1>2, <1>3, <3>1, DecrementIs
  <2> HIDE DEF m2
  <2>4. Recounted(m, m2, ino, rc[ino], op[ino])
    BY <1>1, <1>3, <2>3
  <2>5. Good(m2, op, rc) /\ Dir(m2) = Dir(m)
    BY <1>1, <1>3, <1>4, <2>3, <2>4, GoodRecounted
  <2> QED BY <2>2, <2>5 DEF Released
<1>5. CASE rc[ino] = 0
  <2>1. o \in Swallow(Reclaim(m, ino))
    BY <1>1, <1>3, <1>5 DEF Decref
  <2>2. PICK p \in Reclaim(m, ino) :
           o = IF p.err = "panic" THEN p ELSE [p EXCEPT !.err = "ok", !.val = <<>>]
    BY <2>1 DEF Swallow
  <2>3. /\ IsOutcome(p) /\ p.err # "panic" /\ Good(p.m, op, rc) /\ Dir(p.m) = Dir(m)
    BY <1>5, <2>2, ReclaimIs
  <2>4. o.m = p.m /\ o.err = "ok" /\ IsOutcome(o)
    BY <2>2, <2>3 DEF IsOutcome
  <2> QED BY <2>3, <2>4 DEF Released
<1> QED BY <1>4, <1>5

LEMMA DecopenIs ==
    ASSUME NEW m, NEW op, NEW rc, NEW ino \in Block \ {0}, Counts(op, rc),
           Good(m, Up(op, ino), Up(rc, ino)), NEW o \in Decopen(m, ino)
    PROVE  Released(m, o, op, Up(rc, ino))
<1>1. /\ Up(rc, ino)[ino] = rc[ino] + 1 /\ rc[ino] \in Nat
      /\ Up(op, ino)[ino] = op[ino] + 1 /\ op[ino] \in Nat
      /\ \A j \in Block : j # ino => Up(op, ino)[j] = op[j]
  BY UpIs DEF Counts
<1>2. Refs(m, Up(op, ino), Up(rc, ino)) /\ Sound(m, Live(m), m.lost)
  BY DEF Good
<1>3. /\ ino \in DOMAIN m.vn /\ m.vn[ino].refcount = rc[ino] + 1
      /\ m.vn[ino].opencount = op[ino] + 1
  BY <1>1, <1>2 DEF Refs
<1> DEFINE m1 == [m EXCEPT !.vn[ino].opencount = @ - 1]
           m2 == IF m1.vn[ino].opencount = 0 THEN SyncInode(m1, ino) ELSE m1
<1>4. o \in Ret(m2, <<>>)
  BY <1>1, <1>3 DEF Decopen
<1>5. IsOutcome(o) /\ o.err = "ok" /\ o.m = m2
  BY <1>4, RetIs
<1>6. /\ SameFiles(m, m1, Live(m), m.lost)
      /\ Recounted(m, m1, ino, m.vn[ino].refcount, m.vn[ino].opencount - 1)
  BY <1>1, <1>2, <1>3, DecrementIs
<1> HIDE DEF m1
<1>7. Recounted(m, m1, ino, rc[ino] + 1, op[ino])
  BY <1>1, <1>3, <1>6
<1>8. /\ SameFiles(m, m2, Live(m), m.lost)
      /\ Recounted(m, m2, ino, rc[ino] + 1, op[ino])
  <2>1. CASE m1.vn[ino].opencount # 0
    BY <1>6, <1>7, <2>1
  <2>2. CASE m1.vn[ino].opencount = 0
    <3>1. Sound(m1, Live(m), m.lost) /\ ino \in DOMAIN m1.vn
      BY <1>3, <1>6, <1>7 DEF SameFiles, Recounted
    <3>2. m2 = SyncInode(m1, ino)
      BY <2>2
    <3> HIDE DEF m2
    <3>3. SameFiles(m1, m2, Live(m), m.lost) /\ Synced(m1, m2, ino)
      BY <3>1, <3>2, SyncInodeIs
    <3>4. SameFiles(m, m2, Live(m), m.lost)
      BY <1>6, <3>3 DEF SameFiles, SameFile
    <3> QED BY <1>7, <3>3, <3>4 DEF Recounted, Synced
  <2> QED BY <2>1, <2>2
<1> HIDE DEF m2
<1>9. Good(m2, op, Up(rc, ino)) /\ Dir(m2) = Dir(m)
  BY <1>1, <1>3, <1>8, GoodRecounted
<1> QED BY <1>5, <1>9 DEF Released

LEMMA DecopenDecrefIs ==
    ASSUME NEW m, NEW op, NEW rc, NEW ino \in Block \ {0}, Counts(op, rc),
           Good(m, Up(op, ino), Up(rc, ino)), NEW o \in DecopenDecref(m, ino)
    PROVE  Released(m, o, op, rc)
<1>1. PICK p \in Decopen(m, ino) :
         IF p.err = "ok" THEN o \in Decref(p.m, ino) ELSE o = p
  BY DEF DecopenDecref, Then
<1>2. Released(m, p, op, Up(rc, ino))
  BY <1>1, DecopenIs
<1> DEFINE m1 == p.m
<1>3. p.err = "ok" /\ Good(m1, op, Up(rc, ino)) /\ Dir(m1) = Dir(m)
  BY <1>2 DEF Released
<1>4. o \in Decref(m1, ino)
  BY <1>1, <1>3
<1> HIDE DEF m1
<1>5. Released(m1, o, op, rc)
  BY <1>3, <1>4, DecrefIs
<1> QED BY <1>3, <1>5 DEF Released

------------------------------------------------------------------------------
(* sfs_dir_link and sfs_dir_unlink, with the link count that goes with them. *)
Count(m, i) == Cardinality({s \in Entries(m) : Dir(m)[s].ino = i})

(* The directory of m1 has entry e in a slot where that of m has none.      *)
EntryMore(m, m1, s, e) ==
    /\ s \notin Entries(m) /\ Entries(m1) = Entries(m) \cup {s}
    /\ Dir(m1)[s] = e /\ \A t \in Entries(m) : Dir(m1)[t] = Dir(m)[t]

LEMMA CountMore ==
    ASSUME NEW m, NEW L, NEW H, Sound(m, L, H), DirOK(m),
           NEW m1, NEW s, NEW e, EntryMore(m, m1, s, e)
    PROVE  /\ Named(m1) = Named(m) \cup {e.ino}
           /\ \A i : Count(m1, i) = Count(m, i) + (IF i = e.ino THEN 1 ELSE 0)
<1>1. /\ s \notin Entries(m) /\ Entries(m1) = Entries(m) \cup {s}
      /\ Dir(m1)[s] = e /\ \A t \in Entries(m) : Dir(m1)[t] = Dir(m)[t]
  BY DEF EntryMore
<1>2. Named(m1) = {Dir(m1)[t].ino : t \in Entries(m1)}
      /\ Named(m) = {Dir(m)[t].ino : t \in Entries(m)}
  BY DEF Named, Dir
<1>3. Named(m1) = Named(m) \cup {e.ino}
  BY <1>1, <1>2
<1>4. ASSUME NEW i
      PROVE  Count(m1, i) = Count(m, i) + (IF i = e.ino THEN 1 ELSE 0)
  <2> DEFINE es == {t \in Entries(m) : Dir(m)[t].ino = i}
             es1 == {t \in Entries(m1) : Dir(m1)[t].ino = i}
  <2>1. IsFiniteSet(es) /\ Cardinality(es) \in Nat
    <3>1. IsFiniteSet(Entries(m)) /\ es \in SUBSET Entries(m)
      BY EntriesAre
    <3> HIDE DEF es
    <3> QED BY <3>1, FS_Subset, FS_CardinalityType
  <2>2. CASE i = e.ino
    <3>1. es1 = es \cup {s} /\ s \notin es
      BY <1>1, <2>2
    <3> HIDE DEF es, es1
    <3>2. Cardinality(es1) = Cardinality(es) + 1
      BY <2>1, <3>1, FS_AddElement
    <3> QED BY <2>2, <3>2 DEF Count, es, es1
  <2>3. CASE i # e.ino
    <3>1. es1 = es
      BY <1>1, <2>3
    <3> HIDE DEF es, es1
    <3>2. Cardinality(es1) = Cardinality(es) + 0
      BY <2>1, <3>1
    <3> QED BY <2>3, <3>2 DEF Count, es, es1
  <2> QED BY <2>2, <2>3
<1> QED BY <1>3, <1>4

LEMMA DirSize ==
    ASSUME NEW m, NEW L, NEW H, Sound(m, L, H)
    PROVE  /\ InodeOf(m, Root).size \in Nat
           /\ DOMAIN Dir(m) = 1 .. InodeOf(m, Root).size
           /\ Entries(m) = {s \in DOMAIN Dir(m) : Dir(m)[s] # Zero}
<1>1. IsState(m) /\ Root \in Block /\ InodeOf(m, Root).size <= MaxSize
  BY DEF Sound, WellFormed
<1>2. /\ InodeOf(m, Root).size \in Nat
      /\ DOMAIN Dir(m) = 1 .. InodeOf(m, Root).size
  BY <1>1, UnitsAre DEF Dir
<1>3. Entries(m) = {s \in DOMAIN Dir(m) : Dir(m)[s] # Zero}
  BY DEF Entries, Dir
<1> QED BY <1>2, <1>3

LEMMA EntryAdded ==
    ASSUME NEW m, NEW L, NEW H, Sound(m, L, H), DirOK(m),
           NEW m1, NEW H1, Sound(m1, L, H1), NEW slot \in Nat,
           slot <= InodeOf(m, Root).size,
           slot < InodeOf(m, Root).size => Dir(m)[slot + 1] = Zero,
           NEW e \in Entry, e.ino # Root,
           \A s \in Entries(m) : Dir(m)[s].name # e.name,
           WroteUnit(m, m1, Root, slot, e)
    PROVE  DirOK(m1) /\ EntryMore(m, m1, slot + 1, e)
<1> DEFINE n == InodeOf(m, Root).size
           n1 == InodeOf(m1, Root).size
           d == Dir(m)
           d1 == Dir(m1)
           s == slot + 1
<1>1. /\ n \in Nat /\ DOMAIN d = 1 .. n /\ Entries(m) = {t \in DOMAIN d : d[t] # Zero}
      /\ n1 \in Nat /\ DOMAIN d1 = 1 .. n1
      /\ Entries(m1) = {t \in DOMAIN d1 : d1[t] # Zero}
  BY DirSize
<1>2. n1 = IF s > n THEN s ELSE n
  BY DEF WroteUnit
<1>3. \A t \in 1 .. n1 : (t = s => d1[t] = e) /\ (t <= n /\ t # s => d1[t] = d[t])
  BY DEF WroteUnit, Dir
<1>4. e # Zero
  BY CallAssumption DEF Entry
<1>5. /\ \A t \in DOMAIN d : d[t] \in Entry \cup {Zero}
      /\ \A t, u \in Entries(m) : d[t].name = d[u].name => t = u
      /\ Root \notin Named(m)
  BY DEF DirOK
<1>6. s \in Nat /\ s \in 1 .. n1 /\ s \notin Entries(m)
  <2> HIDE DEF d, d1, n, n1
  <2>1. slot < n => d[s] = Zero
    BY DEF d, n, s
  <2>2. s \in Nat /\ s \in 1 .. n1
    BY <1>1, <1>2
  <2>3. s \in 1 .. n => slot < n
    BY <1>1
  <2> QED BY <1>1, <2>1, <2>2, <2>3
<1>7. \A t \in 1 .. n1 : t # s => t \in 1 .. n
  <2>1. slot <= n
    OBVIOUS
  <2> HIDE DEF n, n1, d, d1
  <2> QED BY <1>1, <1>2, <2>1
<1>8. \A t \in 1 .. n : t \in 1 .. n1 /\ t <= n
  <2> HIDE DEF n, n1, d, d1
  <2> QED BY <1>1, <1>2
<1> HIDE DEF n, n1, d, d1, s
<1>9. d1[s] = e /\ \A t \in 1 .. n : t # s => d1[t] = d[t]
  BY <1>3, <1>6, <1>8
<1>10. Entries(m1) = Entries(m) \cup {s}
  BY <1>1, <1>4, <1>6, <1>7, <1>8, <1>9
<1>11. \A t \in Entries(m) : d1[t] = d[t] /\ t # s
  BY <1>1, <1>6, <1>9
<1>12. EntryMore(m, m1, s, e)
  BY <1>6, <1>9, <1>10, <1>11 DEF EntryMore, d, d1
<1>13. DirOK(m1)
  <2>1. \A t \in DOMAIN d1 : d1[t] \in Entry \cup {Zero}
    BY <1>1, <1>5, <1>7, <1>9
  <2>2. \A t, u \in Entries(m1) : d1[t].name = d1[u].name => t = u
    <3>1. \A t \in Entries(m) : d[t].name # e.name
      BY DEF d
    <3> QED BY <1>5, <1>9, <1>10, <1>11, <3>1
  <2>3. Root \notin Named(m1)
    BY <1>5, <1>12, CountMore
  <2> QED BY <2>1, <2>2, <2>3 DEF DirOK, d1
<1> QED BY <1>12, <1>13 DEF s

LEMMA EntryRemoved ==
    ASSUME NEW m, NEW L, NEW H, Sound(m, L, H), DirOK(m),
           NEW m1, NEW H1, Sound(m1, L, H1), NEW slot \in Nat,
           slot + 1 \in Entries(m), WroteUnit(m, m1, Root, slot, Zero)
    PROVE  DirOK(m1) /\ EntryMore(m1, m, slot + 1, Dir(m)[slot + 1])
<1> DEFINE n == InodeOf(m, Root).size
           n1 == InodeOf(m1, Root).size
           d == Dir(m)
           d1 == Dir(m1)
           s == slot + 1
<1>1. /\ n \in Nat /\ DOMAIN d = 1 .. n /\ Entries(m) = {t \in DOMAIN d : d[t] # Zero}
      /\ n1 \in Nat /\ DOMAIN d1 = 1 .. n1
      /\ Entries(m1) = {t \in DOMAIN d1 : d1[t] # Zero}
  BY DirSize
<1>2. n1 = IF s > n THEN s ELSE n
  BY DEF WroteUnit
<1>3. \A t \in 1 .. n1 : (t = s => d1[t] = Zero) /\ (t <= n /\ t # s => d1[t] = d[t])
  BY DEF WroteUnit, Dir
<1>4. /\ \A t \in DOMAIN d : d[t] \in Entry \cup {Zero}
      /\ \A t, u \in Entries(m) : d[t].name = d[u].name => t = u
      /\ Root \notin Named(m)
  BY DEF DirOK
<1>5. s \in Entries(m)
  OBVIOUS
<1> HIDE DEF n, n1, d, d1, s
<1>6. s \in 1 .. n /\ n1 = n
  BY <1>1, <1>2, <1>5
<1>7. d1[s] = Zero /\ \A t \in 1 .. n : t # s => d1[t] = d[t]
  BY <1>1, <1>3, <1>6
<1>8. /\ s \notin Entries(m1) /\ Entries(m) = Entries(m1) \cup {s}
      /\ \A t \in Entries(m1) : d[t] = d1[t]
  BY <1>1, <1>5, <1>6, <1>7
<1>9. EntryMore(m1, m, s, d[s])
  BY <1>8 DEF EntryMore, d, d1
<1>10. DirOK(m1)
  <2>1. \A t \in DOMAIN d1 : d1[t] \in Entry \cup {Zero}
    BY <1>1, <1>4, <1>6, <1>7
  <2>2. \A t, u \in Entries(m1) : d1[t].name = d1[u].name => t = u
    BY <1>4, <1>8
  <2>3. Root \notin Named(m1)
    <3>1. /\ Named(m1) = {Dir(m1)[t].ino : t \in Entries(m1)}
          /\ Named(m) = {Dir(m)[t].ino : t \in Entries(m)}
      BY DEF Named, Dir
    <3> QED BY <1>4, <1>8, <3>1 DEF d, d1
  <2> QED BY <2>1, <2>2, <2>3 DEF DirOK, d1
<1> QED BY <1>9, <1>10 DEF s, d

LEMMA LinkSet ==
    ASSUME NEW m, NEW op, NEW rc, Good(m, op, rc),
           Root \in DOMAIN m.vn, rc[Root] # 0,
           NEW ino \in DOMAIN m.vn, ino # Root, rc[ino] # 0, NEW d \in Int,
           NEW m1, Did(m, m1, Live(m), m.lost, Root), DirOK(m1),
           Live(m1) = Live(m),
           \A i \in Live(m) : Count(m1, i) = Count(m, i) + (IF i = ino THEN d ELSE 0),
           NEW m2, m2 = AddLinks(m1, ino, d)
    PROVE  /\ Good(m2, op, rc) /\ Dir(m2) = Dir(m1)
           /\ Entries(m2) = Entries(m1) /\ m2.vn[ino].dirty
<1> DEFINE L == Live(m)
           H == m.lost
           i1 == m1.vn[ino].i
           i2 == [i1 EXCEPT !.linkcount = @ + d]
<1>1. /\ Root \in L /\ DOMAIN m.vn \subseteq L /\ m.up /\ L \subseteq Block \ {0}
      /\ Links(m) /\ Refs(m, op, rc)
  BY GoodIs DEF Good
<1>2. /\ Sound(m1, L, H) /\ m1.up = m.up /\ m1.lost = m.lost
      /\ DOMAIN m1.vn = DOMAIN m.vn
      /\ \A j \in DOMAIN m.vn \ {Root} : m1.vn[j] = m.vn[j]
      /\ m1.vn[Root].refcount = m.vn[Root].refcount
      /\ m1.vn[Root].opencount = m.vn[Root].opencount
      /\ m1.vn[Root].i.linkcount = m.vn[Root].i.linkcount
      /\ \A j \in L \ {Root} : InodeOf(m1, j) = InodeOf(m, j)
  BY DEF Did
<1>3. /\ i1 \in Inode /\ InodeOf(m1, ino) = i1 /\ WellFormed(m1, ino)
      /\ i1.size <= MaxSize
  <2>1. Sound(m1, L, H) /\ ino \in DOMAIN m1.vn
    BY <1>2
  <2>2. i1 \in Inode /\ InodeOf(m1, ino) = i1 /\ WellFormed(m1, ino)
    BY <2>1, LoadedIs
  <2> QED BY <2>2 DEF WellFormed
<1>4. /\ i2 \in Inode /\ i2.type = i1.type /\ i2.size = i1.size
      /\ i2.linkcount = i1.linkcount + d
      /\ i2.direct = i1.direct /\ i2.indirect = i1.indirect
  BY <1>3 DEF Inode
<1>5. m2 = SetInode(m1, ino, i2)
  BY DEF AddLinks
<1> HIDE DEF i2
<1>6. Updated(m1, m2, L, H, ino) /\ ScalarsSet(m1, m2, ino, i2)
  BY <1>2, <1>3, <1>4, <1>5, SetScalars
<1>7. /\ Sound(m2, L, H) /\ \A j \in L \ {ino} : InodeOf(m2, j) = InodeOf(m1, j)
                                                 /\ Units(m2, j) = Units(m1, j)
  BY <1>6 DEF Updated
<1>8. Dir(m2) = Dir(m1)
  BY <1>1, <1>7 DEF Dir
<1>9. Entries(m2) = Entries(m1) /\ Named(m2) = Named(m1) /\ DOMAIN m2.vn = DOMAIN m1.vn
  BY <1>6, <1>8 DEF Entries, Named, Dir, ScalarsSet
<1>10. Live(m2) = L
  <2>1. Live(m2) = Live(m1)
    BY <1>9 DEF Live
  <2> QED BY <2>1
<1>11. DirOK(m2)
  BY <1>8, <1>9 DEF DirOK
<1>12. Links(m2)
  <2>1. ASSUME NEW i \in Live(m2) \ {Root}
        PROVE  InodeOf(m2, i).linkcount = Count(m2, i)
    <3>1. InodeOf(m, i).linkcount = Count(m, i) /\ i \in L
      BY <1>1, <1>10, <2>1 DEF Links, Count
    <3>2. Count(m2, i) = Count(m, i) + (IF i = ino THEN d ELSE 0)
      BY <1>8, <1>9, <3>1 DEF Count
    <3>3. CASE i = ino
      <4>1. InodeOf(m2, i).linkcount = i1.linkcount + d
        BY <1>4, <1>6, <3>3 DEF ScalarsSet
      <4>2. i1 = InodeOf(m, i)
        BY <1>2, <1>3, <2>1, <3>1, <3>3
      <4> QED BY <3>1, <3>2, <3>3, <4>1, <4>2
    <3>4. CASE i # ino
      <4>1. InodeOf(m2, i) = InodeOf(m, i)
        BY <1>2, <1>7, <2>1, <3>1, <3>4
      <4>2. InodeOf(m, i).linkcount \in Int
        <5>1. IsState(m) /\ i \in Block
          BY <1>1, <3>1, GoodIs
        <5> QED BY <5>1, InodeOfIs DEF Inode
      <4> QED BY <3>1, <3>2, <3>4, <4>1, <4>2
    <3> QED BY <3>3, <3>4
  <2>2. InodeOf(m2, Root).linkcount # 0
    <3>1. InodeOf(m2, Root) = m1.vn[Root].i
      BY <1>1, <1>2, <1>7 DEF InodeOf
    <3>2. InodeOf(m, Root) = m.vn[Root].i
      BY DEF InodeOf
    <3> QED BY <1>1, <1>2, <3>1, <3>2 DEF Links
  <2> QED BY <2>1, <2>2 DEF Links, Count
<1>13. Refs(m2, op, rc)
  <2>1. ASSUME NEW j \in Block \ {0}
        PROVE  /\ rc[j] # 0 => j \in DOMAIN m2.vn
               /\ j \in DOMAIN m2.vn =>
                    /\ m2.vn[j].opencount = op[j]
                    /\ m2.vn[j].refcount = IF rc[j] = 0 THEN 1 ELSE rc[j]
                    /\ rc[j] = 0 => m2.vn[j].i.linkcount = 0
                                    /\ m2.vn[j].i.indirect # 0
    <3>1. CASE j = Root \/ j = ino
      BY <1>1, <1>2, <1>6, <3>1 DEF Refs, ScalarsSet
    <3>2. CASE j # Root /\ j # ino
      BY <1>1, <1>2, <1>6, <3>2 DEF Refs, ScalarsSet
    <3> QED BY <3>1, <3>2
  <2> QED BY <2>1 DEF Refs
<1>14. m2.up /\ m2.lost = H /\ m2.vn[ino].dirty
  BY <1>1, <1>2, <1>6 DEF ScalarsSet
<1> QED BY <1>7, <1>8, <1>9, <1>10, <1>11, <1>12, <1>13, <1>14 DEF Good

DirLinked(m, o, name, ino, op, rc) ==
    /\ IsOutcome(o)
    /\ \/ /\ o.err \in IoErrors \cup {"EEXIST"}
          /\ Good(o.m, op, rc) /\ Dir(o.m) = Dir(m)
       \/ /\ o.err = "ok"
          /\ \E slot \in Nat :
                /\ o.val = <<slot>>
                /\ EntryMore(m, o.m, slot + 1, [name |-> name, ino |-> ino])
          /\ \A m2 : m2 = AddLinks(o.m, ino, 1) =>
                /\ Good(m2, op, rc) /\ Dir(m2) = Dir(o.m)
                /\ Entries(m2) = Entries(o.m) /\ m2.vn[ino].dirty

LEMMA DirLinkIs ==
    ASSUME NEW m, NEW op, NEW rc, Good(m, op, rc), rc[Root] # 0,
           NEW ino \in Block \ {0, Root}, rc[ino] # 0, NEW name \in Names,
           NEW o \in DirLink(m, name, ino)
    PROVE  DirLinked(m, o, name, ino, op, rc)
<1> DEFINE L == Live(m)
           H == m.lost
           e == [name |-> name, ino |-> ino]
           size == InodeOf(m, Root).size
<1>1. /\ Sound(m, L, H) /\ DOMAIN m.vn \subseteq L /\ DirOK(m)
      /\ Named(m) \subseteq Block \ {0} /\ Refs(m, op, rc)
  BY GoodIs DEF Good
<1>2. Root \in DOMAIN m.vn /\ ino \in DOMAIN m.vn
  <2>1. Root \in Block \ {0}
    BY BlockFacts
  <2> QED BY <1>1, <2>1 DEF Refs
<1> DEFINE At(p) == IF p.val[3] >= 0 THEN p.val[3] ELSE p.m.vn[Root].i.size
<1>3. PICK p \in Findname(m, name) :
         IF p.err = "ok"
         THEN IF p.val[1] # 0 THEN o \in Fail(p.m, "EEXIST")
              ELSE \E q \in Io(p.m, Root, At(p), 1, e) :
                      IF q.err = "ok" THEN o \in Ret(q.m, <<At(p)>>) ELSE o = q
         ELSE o = p
  <2>1. PICK p \in Findname(m, name) :
           o \in IF p.err = "ok"
                 THEN IF p.val[1] # 0 THEN Fail(p.m, "EEXIST")
                      ELSE UNION {IF q.err = "ok" THEN Ret(q.m, <<At(p)>>) ELSE {q} :
                                     q \in Io(p.m, Root, At(p), 1, e)}
                 ELSE {p}
    BY DEF DirLink, Then
  <2> HIDE DEF At, e
  <2> QED BY <2>1
<1>4. FindnameFound(m, p, name)
  BY <1>1, <1>2, <1>3, FindnameIs
<1>5. /\ IsOutcome(p) /\ p.m = m
      /\ \/ p.err \in {"EIO", "EINVAL"}
         \/ p.err = "ok" /\ Found(m, name, size, p.val)
  BY <1>4 DEF FindnameFound
<1>6. CASE p.err # "ok"
  BY <1>3, <1>5, <1>6 DEF DirLinked, IoErrors
<1>7. CASE p.err = "ok"
  <2> DEFINE f == p.val
             slot == IF f[3] >= 0 THEN f[3] ELSE size
  <2>1. Found(m, name, size, f)
    BY <1>5, <1>7
  <2>2. m.vn[Root].i.size = size
    BY <1>2 DEF InodeOf
  <2>3. IF f[1] # 0 THEN o \in Fail(m, "EEXIST")
        ELSE \E q \in Io(m, Root, slot, 1, e) :
                IF q.err = "ok" THEN o \in Ret(q.m, <<slot>>) ELSE o = q
    BY <1>3, <1>5, <1>7, <2>2
  <2>4. CASE f[1] # 0
    <3>1. o \in Fail(m, "EEXIST")
      BY <2>3, <2>4
    <3> QED BY <3>1, FailIs DEF DirLinked
  <2>5. CASE f[1] = 0
    <3>1. PICK q \in Io(m, Root, slot, 1, e) :
             IF q.err = "ok" THEN o \in Ret(q.m, <<slot>>) ELSE o = q
      BY <2>3, <2>5
    <3>2. /\ size \in Nat /\ DOMAIN Dir(m) = 1 .. size
          /\ Entries(m) = {s \in DOMAIN Dir(m) : Dir(m)[s] # Zero}
      BY <1>1, DirSize
    <3> HIDE DEF f, size
    <3>3. /\ \A s \in 1 .. size : Dir(m)[s] # Zero => Dir(m)[s].name # name
          /\ f[3] = -1 \/ (f[3] \in 0 .. size - 1 /\ Dir(m)[f[3] + 1] = Zero)
      BY <2>1, <2>5 DEF Found
    <3>4. /\ slot \in Nat /\ slot <= size
          /\ slot < size => Dir(m)[slot + 1] = Zero
      BY <3>2, <3>3
    <3>5. \A s \in Entries(m) : Dir(m)[s].name # name
      BY <3>2, <3>3
    <3>6. e \in Entry /\ e \in Unit /\ e.ino # Root /\ e.name = name /\ e.ino = ino
      BY DEF Entry, Unit
    <3> HIDE DEF slot, e
    <3>7. /\ IsOutcome(q) /\ Did(m, q.m, L, H, Root)
          /\ \/ q.err \in IoErrors /\ SameContents(m, q.m, Root)
             \/ q.err = "ok" /\ WroteUnit(m, q.m, Root, slot, e)
      BY <1>1, <1>2, <3>1, <3>4, <3>6, IoUnitDid
    <3>8. CASE q.err # "ok"
      <4>1. Good(q.m, op, rc) /\ Dir(q.m) = Dir(m)
        BY <1>2, <3>7, <3>8, GoodDid
      <4> QED BY <3>1, <3>7, <3>8, <4>1 DEF DirLinked
    <3>9. CASE q.err = "ok"
      <4> DEFINE m1 == q.m
      <4>1. IsOutcome(o) /\ o.err = "ok" /\ o.m = m1 /\ o.val = <<slot>>
        BY <3>1, <3>9, RetIs
      <4>2. /\ Did(m, m1, L, H, Root) /\ WroteUnit(m, m1, Root, slot, e)
            /\ Sound(m1, L, H)
        BY <3>7, <3>9 DEF IoErrors, Did
      <4> HIDE DEF m1
      <4>3. DirOK(m1) /\ EntryMore(m, m1, slot + 1, e)
        BY <1>1, <3>4, <3>5, <3>6, <4>2, EntryAdded DEF size
      <4>4. /\ Named(m1) = Named(m) \cup {ino}
            /\ \A i : Count(m1, i) = Count(m, i) + (IF i = ino THEN 1 ELSE 0)
        BY <1>1, <3>6, <4>3, CountMore
      <4>5. Live(m1) = L
        BY <1>2, <4>2, <4>4 DEF Live, Did
      <4>6. ASSUME NEW m2, m2 = AddLinks(m1, ino, 1)
            PROVE  /\ Good(m2, op, rc) /\ Dir(m2) = Dir(m1)
                   /\ Entries(m2) = Entries(m1) /\ m2.vn[ino].dirty
        BY <1>2, <4>2, <4>3, <4>4, <4>5, <4>6, LinkSet
      <4> QED BY <3>4, <4>1, <4>3, <4>6 DEF DirLinked, e
    <3> QED BY <3>8, <3>9
  <2> QED BY <2>4, <2>5
<1> QED BY <1>6, <1>7

DirUnlinked(m, o, ino, op, rc) ==
    /\ IsOutcome(o) /\ \A j \in DOMAIN m.vn \ {Root} : o.m.vn[j] = m.vn[j]
    /\ IsState(o.m) /\ DOMAIN o.m.vn = DOMAIN m.vn
    /\ \/ o.err \in IoErrors /\ Good(o.m, op, rc) /\ Dir(o.m) = Dir(m)
                             /\ Entries(o.m) = Entries(m)
       \/ o.err = "ok" /\ \A m2 : m2 = AddLinks(o.m, ino, -1) => Good(m2, op, rc)

LEMMA DirUnlinkIs ==
    ASSUME NEW m, NEW op, NEW rc, Good(m, op, rc), rc[Root] # 0,
           NEW ino \in Block \ {0, Root}, rc[ino] # 0, NEW slot \in Nat,
           slot + 1 \in Entries(m), Dir(m)[slot + 1].ino = ino,
           NEW o \in DirUnlink(m, slot)
    PROVE  DirUnlinked(m, o, ino, op, rc)
<1> DEFINE L == Live(m)
           H == m.lost
           m1 == o.m
<1>1. /\ Sound(m, L, H) /\ DOMAIN m.vn \subseteq L /\ DirOK(m)
      /\ Named(m) \subseteq Block \ {0} /\ Refs(m, op, rc)
  BY GoodIs DEF Good
<1>2. Root \in DOMAIN m.vn /\ ino \in DOMAIN m.vn
  <2>1. Root \in Block \ {0}
    BY BlockFacts
  <2> QED BY <1>1, <2>1 DEF Refs
<1>3. o \in Io(m, Root, slot, 1, Zero) /\ Zero \in Unit
  BY DEF DirUnlink, Unit
<1>4. /\ IsOutcome(o) /\ Did(m, m1, L, H, Root)
      /\ \/ o.err \in IoErrors /\ SameContents(m, m1, Root)
         \/ o.err = "ok" /\ WroteUnit(m, m1, Root, slot, Zero)
  BY <1>1, <1>2, <1>3, IoUnitDid
<1> HIDE DEF m1
<1>5. /\ \A j \in DOMAIN m.vn \ {Root} : m1.vn[j] = m.vn[j]
      /\ IsState(m1) /\ DOMAIN m1.vn = DOMAIN m.vn /\ Sound(m1, L, H)
  BY <1>4 DEF Did, Sound
<1>6. CASE o.err # "ok"
  <2>1. Good(m1, op, rc) /\ Dir(m1) = Dir(m)
    BY <1>2, <1>4, <1>6, GoodDid
  <2>2. Entries(m1) = Entries(m)
    BY <2>1 DEF Entries, Dir
  <2> QED BY <1>4, <1>5, <1>6, <2>1, <2>2 DEF DirUnlinked, m1
<1>7. CASE o.err = "ok"
  <2>1. WroteUnit(m, m1, Root, slot, Zero)
    BY <1>4, <1>7 DEF IoErrors
  <2>2. DirOK(m1) /\ EntryMore(m1, m, slot + 1, Dir(m)[slot + 1])
    BY <1>1, <1>5, <2>1, EntryRemoved
  <2>3. /\ Named(m) = Named(m1) \cup {ino}
        /\ \A i : Count(m, i) = Count(m1, i) + (IF i = ino THEN 1 ELSE 0)
    BY <1>5, <2>2, CountMore
  <2>4. Live(m1) = L
    BY <1>2, <1>5, <2>3 DEF Live
  <2>5. ASSUME NEW i PROVE Count(m1, i) = Count(m, i) + (IF i = ino THEN -1 ELSE 0)
    <3>1. Count(m1, i) \in Int
      <4> DEFINE es == {t \in Entries(m1) : Dir(m1)[t].ino = i}
      <4>1. IsFiniteSet(Entries(m1)) /\ es \in SUBSET Entries(m1)
        BY <1>5, <2>2, EntriesAre
      <4> HIDE DEF es
      <4>2. Cardinality(es) \in Nat
        BY <4>1, FS_Subset, FS_CardinalityType
      <4> QED BY <4>2 DEF Count, es
    <3> QED BY <2>3, <3>1
  <2>6. ASSUME NEW m2, m2 = AddLinks(m1, ino, -1) PROVE Good(m2, op, rc)
    BY <1>2, <1>4, <2>2, <2>4, <2>5, <2>6, LinkSet
  <2> QED BY <1>4, <1>5, <1>7, <2>6 DEF DirUnlinked, m1
<1> QED BY <1>6, <1>7

------------------------------------------------------------------------------
(* sfs_makeobj: a free block becomes the inode of a file.                   *)
(* The vnode that sfs_loadvnode makes of what it reads. *)
NewVnode(i, make) ==
    [i |-> IF make THEN [i EXCEPT !.type = "file"] ELSE i, dirty |-> make,
     refcount |-> 1, opencount |-> 0]

FilesKept(m, m2, L) ==
    \A j \in L : InodeOf(m2, j) = InodeOf(m, j) /\ Units(m2, j) = Units(m, j)

EmptyFile(i) ==
    /\ i \in Inode /\ i.type = "file" /\ i.size = 0 /\ i.indirect = 0
    /\ i.linkcount = 0 /\ \A x \in 0 .. NDirect - 1 : i.direct[x] = 0

LEMMA Adopt ==
    ASSUME NEW m, NEW L, NEW H2, Sound(m, L, H2), NEW b \in H2, m.disk[b] = Cleared,
           NEW i, EmptyFile(i), NEW m2, IsState(m2), NEW d, Loaded(m, m2, b, i, d), d,
           m2.used = m.used,
           m2.mapdirty = m.mapdirty, m2.disk = m.disk, m2.panic = m.panic
    PROVE  Sound(m2, L \cup {b}, H2 \ {b}) /\ FilesKept(m, m2, L)
<1> DEFINE H == H2 \ {b}
<1>0. H2 = H \cup {b} /\ b \in Block /\ b \notin H /\ H \subseteq Block
  BY DEF Sound
<1> HIDE DEF H
<1>1. /\ IsState(m) /\ m.panic = "no" /\ L \subseteq Block /\ H \subseteq Block
      /\ Root \in L /\ DOMAIN m.vn \subseteq L /\ Divided(m, L, H \cup {b}) /\ Truthful(m)
      /\ m.disk[Super].k = "super" /\ m.disk[Map].k = "map"
      /\ \A j \in L : WellFormed(m, j)
  BY <1>0 DEF Sound
<1>2. /\ b \notin L /\ b \notin {Super, Map} /\ b \notin DOMAIN m.vn /\ b # 0
      /\ {Super, Map} \cap L = {} /\ {Super, Map} \cap H = {} /\ L \cap H = {}
      /\ \A j \in L : b \notin Held(m, j)
  BY <1>0, <1>1, BlockFacts DEF Divided
<1>3. /\ i \in Inode /\ i.type = "file" /\ i.size = 0 /\ i.indirect = 0
      /\ \A x \in 0 .. NDirect - 1 : i.direct[x] = 0
  BY DEF EmptyFile
<1>4. /\ IsState(m2) /\ Loaded(m, m2, b, i, d) /\ d
      /\ m2.used = m.used /\ m2.mapdirty = m.mapdirty /\ m2.disk = m.disk
      /\ m2.panic = m.panic
  OBVIOUS
<1>5. ASSUME NEW j \in L PROVE SameFile(m, m2, j)
  <2>1. j \in Block /\ WellFormed(m, j)
    BY <1>1
  <2>2. InodeOf(m2, j) = InodeOf(m, j)
    BY <1>2, <1>4 DEF InodeOf, Loaded
  <2>3. j \notin DOMAIN m2.vn => m2.disk[j].k = "inode"
    BY <1>4, <2>1 DEF Loaded, WellFormed
  <2>4. \A c \in Held(m, j) : m2.disk[c] = m.disk[c]
    BY <1>4
  <2> QED BY <1>1, <1>4, <2>1, <2>2, <2>3, <2>4, InodeKept
<1>6. \A j \in L : Held(m2, j) = Held(m, j) /\ WellFormed(m2, j)
  BY <1>5 DEF SameFile
<1>7. InodeOf(m2, b) = i
  BY <1>4 DEF InodeOf, Loaded
<1>8. /\ \A x \in Place : Blocks(m2, b)[x] = 0
      /\ Held(m2, b) = {}
  <2> DEFINE f == Blocks(m2, b)
  <2>1. Tabled(m2, f, i)
    BY <1>0, <1>4, <1>7, TabledIs
  <2> HIDE DEF f
  <2>2. /\ \A x \in 0 .. NDirect - 1 : f[x] = 0
        /\ f[NDirect] = 0
        /\ \A x \in 0 .. DbPerId - 1 : f[NDirect + 1 + x] = 0
    BY <1>3, <2>1 DEF Tabled
  <2>3. \A x \in Place : f[x] = 0
    BY <2>2, PlaceIs
  <2> QED BY <2>3 DEF Held, BlocksIn, f
<1>9. WellFormed(m2, b)
  <2>1. 0 <= MaxSize
    BY SizeAssumption DEF MaxSize
  <2>2. b \in DOMAIN m2.vn
    BY <1>4 DEF Loaded
  <2> QED BY <1>3, <1>7, <1>8, <2>1, <2>2 DEF WellFormed, Distinct, DataPlace
<1>10. Divided(m2, L \cup {b}, H)
  <2>1. ASSUME NEW c \in Block
        PROVE  c \in m2.used <=> \/ c \in {Super, Map} \/ c \in L \cup {b} \/ c \in H
                                 \/ \E j \in L \cup {b} : c \in Held(m2, j)
    <3>1. c \in m.used <=> \/ c \in {Super, Map} \/ c \in L \/ c \in H \cup {b}
                           \/ \E j \in L : c \in Held(m, j)
      BY <1>1 DEF Divided
    <3> QED BY <1>4, <1>6, <1>8, <3>1
  <2>2. {Super, Map} \cap (L \cup {b}) = {} /\ (L \cup {b}) \cap H = {}
    BY <1>0, <1>2
  <2>3. \A j \in L \cup {b} : Held(m2, j) \cap ({Super, Map} \cup (L \cup {b}) \cup H) = {}
    <3>1. \A j \in L : Held(m, j) \cap ({Super, Map} \cup L \cup (H \cup {b})) = {}
      BY <1>1 DEF Divided
    <3> QED BY <1>6, <1>8, <3>1
  <2>4. \A j, k \in L \cup {b} : j # k => Held(m2, j) \cap Held(m2, k) = {}
    <3>1. \A j, k \in L : j # k => Held(m, j) \cap Held(m, k) = {}
      BY <1>1 DEF Divided
    <3> QED BY <1>6, <1>8, <3>1
  <2> QED BY <1>2, <2>1, <2>2, <2>3, <2>4 DEF Divided
<1>11. Truthful(m2)
  BY <1>1, <1>4 DEF Truthful, Loaded
<1>12. Sound(m2, L \cup {b}, H)
  <2>1. DOMAIN m2.vn \subseteq L \cup {b}
    BY <1>1, <1>4 DEF Loaded
  <2> QED BY <1>0, <1>1, <1>4, <1>6, <1>9, <1>10, <1>11, <2>1 DEF Sound
<1> QED BY <1>5, <1>12 DEF SameFile, FilesKept, H

(* ... or is lost. *)
LEMMA LostMore ==
    ASSUME NEW m, NEW L, NEW H, Sound(m, L, H), NEW S \in SUBSET Block,
           NEW m2, m2 = [m EXCEPT !.lost = S]
    PROVE  /\ SameFiles(m, m2, L, H)
           /\ m2.vn = m.vn /\ m2.up = m.up /\ m2.lost = S
<1>1. IsState(m) /\ m.panic = "no" /\ DOMAIN m.vn \subseteq L /\ Truthful(m)
      /\ m.disk[Map].k = "map" /\ \A j \in L : WellFormed(m, j)
  BY DEF Sound
<1>2. /\ m2.vn = m.vn /\ m2.up = m.up /\ m2.lost = S /\ m2.disk = m.disk
      /\ m2.used = m.used /\ m2.mapdirty = m.mapdirty /\ m2.panic = m.panic
  BY <1>1 DEF IsState
<1>3. IsState(m2)
  BY <1>1, <1>2 DEF IsState
<1>4. \A j \in L : InodeOf(m2, j) = InodeOf(m, j)
  BY <1>2 DEF InodeOf
<1>5. \A j \in L \ DOMAIN m2.vn : m2.disk[j].k = "inode"
  BY <1>1, <1>2 DEF WellFormed
<1>6. Truthful(m2)
  BY <1>1, <1>2 DEF Truthful
<1>7. SameFiles(m, m2, L, H)
  BY <1>1, <1>2, <1>3, <1>4, <1>5, <1>6, SameInodes
<1> QED BY <1>2, <1>7

ObjMade(m, o, op, rc) ==
    /\ IsOutcome(o)
    /\ \/ /\ o.err \in IoErrors \cup {"ENOMEM"}
          /\ Good(o.m, op, rc) /\ Dir(o.m) = Dir(m)
       \/ /\ o.err = "ok" /\ o.val[1] \in Block \ {0, Root}
          /\ Good(o.m, op, Up(rc, o.val[1])) /\ Dir(o.m) = Dir(m)
LoadStep(q, r, b, make) ==
    q \in IF r.err = "ok"
          THEN IF make # (AsInode(r.m.disk[b]).type = "invalid") THEN Panic(r.m, "bug")
               ELSE Ret([r.m EXCEPT !.vn = [j \in DOMAIN @ \cup {b} |->
                            IF j # b THEN @[j]
                            ELSE NewVnode(AsInode(r.m.disk[b]), make)]], <<b>>)
          ELSE {r}

LEMMA LoadSteps ==
    ASSUME NEW m, NEW b, b \in m.used, DOMAIN m.vn \subseteq m.used, b \notin DOMAIN m.vn,
           NEW make, NEW q \in LoadVnode(m, b, make)
    PROVE  \E r \in Rblock(m, b, "inode") \cup (IF Faulty THEN Fail(m, "ENOMEM") ELSE {}) :
              LoadStep(q, r, b, make)
BY DEF LoadVnode, Then, NewVnode, LoadStep

LEMMA MakeObjIs ==
    ASSUME NEW m, NEW op, NEW rc, Good(m, op, rc), Counts(op, rc),
           NEW o \in MakeObj(m)
    PROVE  ObjMade(m, o, op, rc)
<1> DEFINE L == Live(m)
           H == m.lost
           Lose(q, c) == IF q.err \in {"EIO", "ENOMEM"}
                         THEN [q EXCEPT !.m.lost = @ \cup {c}] ELSE q
<1>1. /\ Sound(m, L, H) /\ DOMAIN m.vn \subseteq L /\ Root \in L /\ m.up
      /\ L \subseteq Block \ {0} /\ L = {Root} \cup DOMAIN m.vn \cup Named(m)
      /\ DirOK(m) /\ Links(m) /\ Refs(m, op, rc)
      /\ L \subseteq m.used /\ H \subseteq m.used /\ m.used \subseteq Block
      /\ H \subseteq Block
  BY GoodIs, LiveUsed DEF Good, Live, Sound
<1>2. PICK p \in Balloc(m) :
         IF p.err = "ok"
         THEN \E q \in LoadVnode(p.m, p.val[1], TRUE) : o = Lose(q, p.val[1])
         ELSE o = p
  <2>1. PICK p \in Balloc(m) :
           o \in IF p.err = "ok"
                 THEN {IF q.err \in {"EIO", "ENOMEM"}
                       THEN [q EXCEPT !.m.lost = @ \cup {p.val[1]}] ELSE q :
                          q \in LoadVnode(p.m, p.val[1], TRUE)}
                 ELSE {p}
    BY DEF MakeObj, Then
  <2> QED BY <2>1
<1>3. /\ IsOutcome(p)
      /\ \/ p.err = "ENOSPC" /\ p.m = m
         \/ p.err = "ok" /\ \E b \in Block \ m.used :
                                p.val = <<b>> /\ Balloced(m, p.m, L, H, b)
  BY <1>1, <1>2, BallocSound
<1>4. CASE p.err # "ok"
  BY <1>2, <1>3, <1>4 DEF ObjMade, IoErrors
<1>5. CASE p.err = "ok"
  <2>1. PICK b \in Block \ m.used : p.val = <<b>> /\ Balloced(m, p.m, L, H, b)
    BY <1>3, <1>5
  <2> DEFINE m1 == p.m
             v == NewVnode(NoInode, TRUE)
             vn == [j \in DOMAIN m1.vn \cup {b} |-> IF j # b THEN m1.vn[j] ELSE v]
             m2 == [m1 EXCEPT !.vn = vn]
             m3 == [m1 EXCEPT !.lost = H \cup {b}]
  <2>2. /\ SameFiles(m, m1, L, H \cup {b}) /\ m1.disk[b] = Cleared
        /\ m1.vn = m.vn /\ m1.up = m.up /\ m1.lost = m.lost
    BY <2>1 DEF Balloced
  <2>3. /\ Sound(m1, L, H \cup {b}) /\ IsState(m1) /\ b \notin L /\ b \notin H
        /\ b \in Block \ {0, Root} /\ b \in m1.used /\ DOMAIN m1.vn \subseteq m1.used
        /\ b \notin DOMAIN m1.vn
    <3>1. Sound(m1, L, H \cup {b})
      BY <2>2 DEF SameFiles
    <3>2. b \in m1.used /\ DOMAIN m1.vn \subseteq m1.used /\ IsState(m1)
      BY <1>1, <2>2, <3>1, LiveUsed DEF Sound
    <3>3. {Super, Map} \cap (H \cup {b}) = {}
      BY <3>1 DEF Sound, Divided
    <3> QED BY <1>1, <2>1, <2>2, <3>1, <3>2, <3>3, BlockFacts
  <2>4. \E q \in LoadVnode(m1, b, TRUE) : o = Lose(q, b)
    <3>1. p.val[1] = b
      BY <2>1
    <3>2. \E q \in LoadVnode(p.m, p.val[1], TRUE) : o = Lose(q, p.val[1])
      BY <1>2, <1>5
    <3> HIDE DEF Lose, m1
    <3>3. \E q \in LoadVnode(p.m, b, TRUE) : o = Lose(q, b)
      BY ONLY <3>1, <3>2, Zenon
    <3> QED BY <3>3 DEF m1
  <2> HIDE DEF m1
  <2>5. PICK q \in LoadVnode(m1, b, TRUE) : o = Lose(q, b)
    BY <2>4
  <2>6. m1.disk[b].k = "zero" /\ AsInode(m1.disk[b]) = NoInode /\ NoInode.type = "invalid"
    BY <2>2 DEF Cleared, AsInode, NoInode
  <2>7. PICK r \in Rblock(m1, b, "inode") \cup (IF Faulty THEN Fail(m1, "ENOMEM") ELSE {}) :
           q \in IF r.err = "ok"
                 THEN IF AsInode(r.m.disk[b]).type # "invalid" THEN Panic(r.m, "bug")
                      ELSE Ret([r.m EXCEPT !.vn = [j \in DOMAIN @ \cup {b} |->
                                IF j # b THEN @[j]
                                ELSE NewVnode(AsInode(r.m.disk[b]), TRUE)]], <<b>>)
                 ELSE {r}
    <3> HIDE DEF L, H, Lose
    <3>1. PICK make : make = TRUE /\ q \in LoadVnode(m1, b, make)
      OBVIOUS
    <3>2. /\ b \in m1.used /\ DOMAIN m1.vn \subseteq m1.used /\ b \notin DOMAIN m1.vn
          /\ q \in LoadVnode(m1, b, make)
      BY <2>3, <3>1
    <3>3. PICK r \in Rblock(m1, b, "inode") \cup (IF Faulty THEN Fail(m1, "ENOMEM") ELSE {}) :
              LoadStep(q, r, b, make)
      BY ONLY <3>2, LoadSteps
    <3> QED BY <3>1, <3>3 DEF LoadStep
  <2>8. IsOutcome(r) /\ r.m = m1 /\ r.err \in {"ok", "EIO", "ENOMEM"}
    BY <2>6, <2>7, RblockIs, FailIs
  <2>9. CASE r.err # "ok"
    <3>1. q = r
      BY <2>7, <2>9
    <3>2. IsOutcome(o) /\ o.err \in {"EIO", "ENOMEM"} /\ o.m = m3
      BY <2>2, <2>3, <2>5, <2>8, <2>9, <3>1 DEF IsOutcome, IsState
    <3>3. H \cup {b} \in SUBSET Block /\ m3 = [m1 EXCEPT !.lost = H \cup {b}]
      BY <1>1, <2>3
    <3> HIDE DEF m3, L, H
    <3>4. /\ SameFiles(m1, m3, L, H \cup {b})
          /\ m3.vn = m1.vn /\ m3.up = m1.up /\ m3.lost = H \cup {b}
      BY ONLY <2>3, <3>3, LostMore
    <3>5. \A j \in L : InodeOf(m3, j) = InodeOf(m, j) /\ Units(m3, j) = Units(m, j)
      BY <2>2, <3>4 DEF SameFiles, SameFile
    <3>6. Dir(m3) = Dir(m)
      BY <1>1, <3>5 DEF Dir
    <3>7. Live(m3) = L
      <4>1. Named(m3) = Named(m)
        BY <3>6 DEF Named, Entries, Dir
      <4> QED BY <1>1, <2>2, <3>4, <4>1 DEF Live
    <3>8. Sound(m3, Live(m3), m3.lost)
      BY <3>4, <3>7 DEF SameFiles
    <3>9. Refs(m3, op, rc)
      BY <1>1, <2>2, <3>4 DEF Refs
    <3>10. Live(m3) \subseteq Live(m) /\ m3.up
      BY <1>1, <2>2, <3>4, <3>7 DEF L
    <3>11. \A j \in Live(m3) : InodeOf(m3, j).linkcount = InodeOf(m, j).linkcount
      BY <3>5, <3>7
    <3>12. Good(m3, op, rc)
      BY <3>6, <3>8, <3>9, <3>10, <3>11, GoodKept
    <3> QED BY <3>2, <3>6, <3>12 DEF ObjMade, IoErrors
  <2>10. CASE r.err = "ok"
    <3>1. q \in Ret(m2, <<b>>)
      BY <2>6, <2>7, <2>8, <2>10
    <3>2. IsOutcome(o) /\ o.m = m2 /\ o.err = "ok" /\ o.val = <<b>>
      BY <2>5, <3>1, RetIs
    <3> DEFINE i == [NoInode EXCEPT !.type = "file"]
    <3>3. /\ v \in Vnode /\ v.refcount = 1 /\ v.opencount = 0
          /\ v.i = i /\ v.dirty = TRUE /\ i.linkcount = 0 /\ EmptyFile(i)
      <4>1. EmptyFile(i) /\ i \in Inode /\ i.linkcount = 0
        BY NoInodeType DEF NoInode, Inode, EmptyFile
      <4>2. v = [i |-> i, dirty |-> TRUE, refcount |-> 1, opencount |-> 0]
        BY DEF NewVnode
      <4> HIDE DEF i, v
      <4> QED BY <4>1, <4>2 DEF Vnode
    <3>4. /\ vn = [j \in DOMAIN m1.vn \cup {b} |-> IF j # b THEN m1.vn[j] ELSE v]
          /\ m2 = [m1 EXCEPT !.vn = vn] /\ b \in Block
      OBVIOUS
    <3> HIDE DEF m2, vn, v, L, H, i
    <3>5. /\ IsState(m2) /\ Loaded(m1, m2, b, v.i, v.dirty)
          /\ m2.used = m1.used /\ m2.mapdirty = m1.mapdirty /\ m2.disk = m1.disk
          /\ m2.panic = m1.panic
      BY ONLY <2>3, <3>3, <3>4, VnMore
    <3>6. /\ EmptyFile(i) /\ Loaded(m1, m2, b, i, v.dirty) /\ v.dirty
          /\ IsState(m2) /\ m2.used = m1.used /\ m2.mapdirty = m1.mapdirty
          /\ m2.disk = m1.disk /\ m2.panic = m1.panic
      BY <3>3, <3>5
    <3> DEFINE H2 == H \cup {b}
    <3>7. /\ Sound(m1, L, H2) /\ b \in H2 /\ m1.disk[b] = Cleared /\ H2 \ {b} = H
      BY <2>2, <2>3
    <3> HIDE DEF H2
    <3>8. Sound(m2, L \cup {b}, H2 \ {b}) /\ FilesKept(m1, m2, L)
      BY ONLY <3>6, <3>7, Adopt
    <3>9. /\ Sound(m2, L \cup {b}, H) /\ Loaded(m1, m2, b, i, v.dirty) /\ i.linkcount = 0
          /\ \A j \in L : InodeOf(m2, j) = InodeOf(m1, j) /\ Units(m2, j) = Units(m1, j)
      BY <3>3, <3>6, <3>7, <3>8 DEF FilesKept
    <3>10. \A j \in L : InodeOf(m2, j) = InodeOf(m, j) /\ Units(m2, j) = Units(m, j)
      BY <2>2, <3>9 DEF SameFiles, SameFile
    <3>11. Dir(m2) = Dir(m)
      BY <1>1, <3>10 DEF Dir
    <3>12. Entries(m2) = Entries(m) /\ Named(m2) = Named(m)
      BY <3>11 DEF Named, Entries, Dir
    <3>13. /\ DOMAIN m2.vn = DOMAIN m.vn \cup {b} /\ m2.up /\ m2.lost = H
           /\ \A j \in DOMAIN m.vn : m2.vn[j] = m.vn[j]
           /\ m2.vn[b].i.linkcount = 0 /\ m2.vn[b].refcount = 1 /\ m2.vn[b].opencount = 0
      BY <1>1, <2>2, <3>9 DEF Loaded, H
    <3>14. Live(m2) = L \cup {b}
      BY <1>1, <3>12, <3>13 DEF Live
    <3>15. DirOK(m2)
      BY <1>1, <3>11, <3>12 DEF DirOK
    <3>16. Links(m2)
      <4>1. ASSUME NEW j \in Live(m2) \ {Root}
            PROVE  InodeOf(m2, j).linkcount
                      = Cardinality({s \in Entries(m2) : Dir(m2)[s].ino = j})
        <5>1. CASE j = b
          <6>1. InodeOf(m2, j).linkcount = 0
            BY <3>13, <5>1 DEF InodeOf
          <6>2. b \notin Named(m2)
            BY <1>1, <2>3, <3>12
          <6> DEFINE es == {s \in Entries(m2) : Dir(m2)[s].ino = j}
          <6>3. es = {}
            BY <5>1, <6>2 DEF Named, Dir
          <6> QED BY <6>1, <6>3, FS_EmptySet
        <5>2. CASE j # b
          <6>1. j \in L
            BY <3>14, <4>1, <5>2
          <6>2. InodeOf(m, j).linkcount
                   = Cardinality({s \in Entries(m) : Dir(m)[s].ino = j})
            BY <1>1, <4>1, <6>1 DEF Links, L
          <6> QED BY <3>10, <3>11, <3>12, <6>1, <6>2
        <5> QED BY <5>1, <5>2
      <4>2. InodeOf(m2, Root).linkcount # 0
        BY <1>1, <3>10 DEF Links
      <4> QED BY <4>1, <4>2 DEF Links
    <3>17. /\ rc[b] = 0 /\ op[b] = 0 /\ Up(rc, b)[b] = 1
           /\ \A j \in Block : j # b => Up(rc, b)[j] = rc[j]
      <4>1. rc[b] = 0
        BY <1>1, <2>2, <2>3 DEF Refs
      <4> QED BY <4>1, <2>3, UpIs DEF Counts
    <3>18. Refs(m2, op, Up(rc, b))
      <4>1. ASSUME NEW j \in Block \ {0}, j # b
            PROVE  /\ Up(rc, b)[j] # 0 => j \in DOMAIN m2.vn
                   /\ j \in DOMAIN m2.vn =>
                        /\ m2.vn[j].opencount = op[j]
                        /\ m2.vn[j].refcount = IF Up(rc, b)[j] = 0 THEN 1
                                               ELSE Up(rc, b)[j]
                        /\ Up(rc, b)[j] = 0 =>
                             m2.vn[j].i.linkcount = 0 /\ m2.vn[j].i.indirect # 0
        BY <1>1, <3>13, <3>17, <4>1 DEF Refs
      <4>2. /\ b \in DOMAIN m2.vn /\ m2.vn[b].opencount = op[b]
            /\ m2.vn[b].refcount = Up(rc, b)[b] /\ Up(rc, b)[b] # 0
        BY <3>13, <3>17
      <4> QED BY <4>1, <4>2 DEF Refs
    <3>19. Sound(m2, Live(m2), m2.lost)
      BY <3>9, <3>13, <3>14
    <3>20. Good(m2, op, Up(rc, b))
      BY <3>13, <3>15, <3>16, <3>18, <3>19 DEF Good
    <3> QED BY <2>3, <3>2, <3>11, <3>20 DEF ObjMade
  <2> QED BY <2>9, <2>10
<1> QED BY <1>4, <1>5

------------------------------------------------------------------------------
(* How a call can end: it failed and nobody answers for anything more, or    *)
(* it returned a file with a reference to it.                                *)
Failed(o, op, rc) == IsOutcome(o) /\ o.err \notin {"ok", "panic"} /\ Good(o.m, op, rc)

Referred(o, op, rc) ==
    /\ IsOutcome(o) /\ o.err = "ok" /\ o.val[1] \in Block \ {0, Root}
    /\ Good(o.m, op, Up(rc, o.val[1]))

(* A reference is dropped on the way out; the outcome is that of p. *)
Closing(o, p, ino) ==
    IF p.err = "panic" THEN o = p
    ELSE \E c \in Decref(p.m, ino) : o = IF c.err = "panic" THEN c ELSE [p EXCEPT !.m = c.m]

Closed(o, p, op, rc) ==
    /\ IsOutcome(o) /\ o.err = p.err /\ o.val = p.val
    /\ Good(o.m, op, rc) /\ Dir(o.m) = Dir(p.m)

LEMMA ClosingIs ==
    ASSUME NEW op, NEW rc, Counts(op, rc), NEW ino \in Block \ {0},
           NEW p, IsOutcome(p), p.err # "panic", Good(p.m, op, Up(rc, ino)),
           NEW o, Closing(o, p, ino)
    PROVE  Closed(o, p, op, rc)
<1> DEFINE m == p.m
<1>1. PICK c \in Decref(m, ino) : o = IF c.err = "panic" THEN c ELSE [p EXCEPT !.m = c.m]
  BY DEF Closing
<1>2. Good(m, op, Up(rc, ino))
  OBVIOUS
<1> HIDE DEF m
<1>3. Released(m, c, op, rc)
  BY <1>1, <1>2, DecrefIs
<1>4. c.err = "ok" /\ Good(c.m, op, rc) /\ Dir(c.m) = Dir(m)
  BY <1>3 DEF Released
<1>5. o = [p EXCEPT !.m = c.m]
  BY <1>1, <1>4
<1>6. IsOutcome(o) /\ o.err = p.err /\ o.val = p.val /\ o.m = c.m
  BY <1>5 DEF IsOutcome
<1> QED BY <1>4, <1>6 DEF Closed, m

LEMMA RootLoaded ==
    ASSUME NEW m, NEW op, NEW rc, Good(m, op, rc), rc[Root] # 0
    PROVE  Root \in DOMAIN m.vn
<1>1. Root \in Block \ {0} /\ Refs(m, op, rc)
  BY BlockFacts DEF Good
<1> QED BY <1>1 DEF Refs

(* sfs_dir_findname for a caller that holds the root directory *)
LEMMA FindGood ==
    ASSUME NEW m, NEW op, NEW rc, Good(m, op, rc), rc[Root] # 0, NEW name,
           NEW o \in Findname(m, name)
    PROVE  /\ FindnameFound(m, o, name) /\ IsOutcome(o) /\ o.m = m
           /\ o.err # "ok" => Failed(o, op, rc)
           /\ o.err = "ok" /\ o.val[1] # 0 =>
                 /\ o.val[1] \in Named(m) /\ o.val[1] \in Live(m)
                 /\ o.val[1] \in Block \ {0, Root}
                 /\ InodeOf(m, o.val[1]).linkcount # 0
                 /\ o.val[2] \in Nat /\ o.val[2] + 1 \in Entries(m)
                 /\ Dir(m)[o.val[2] + 1].ino = o.val[1]
<1>1. /\ Sound(m, Live(m), m.lost) /\ Root \in DOMAIN m.vn /\ DirOK(m)
      /\ Named(m) \subseteq Block \ {0} /\ Named(m) \subseteq Live(m) /\ Root \notin Named(m)
      /\ \A i \in Live(m) : InodeOf(m, i).linkcount # 0 <=> i = Root \/ i \in Named(m)
  BY GoodIs, RootLoaded
<1>2. FindnameFound(m, o, name)
  BY <1>1, FindnameIs
<1>3. /\ IsOutcome(o) /\ o.m = m
      /\ \/ o.err \in {"EIO", "EINVAL"}
         \/ o.err = "ok" /\ Found(m, name, InodeOf(m, Root).size, o.val)
  BY <1>2 DEF FindnameFound
<1>4. o.err # "ok" => Failed(o, op, rc)
  BY <1>3 DEF Failed
<1>5. ASSUME o.err = "ok", o.val[1] # 0
      PROVE  /\ o.val[1] \in Named(m) /\ o.val[1] \in Live(m)
             /\ o.val[1] \in Block \ {0, Root}
             /\ InodeOf(m, o.val[1]).linkcount # 0
             /\ o.val[2] \in Nat /\ o.val[2] + 1 \in Entries(m)
             /\ Dir(m)[o.val[2] + 1].ino = o.val[1]
  <2> DEFINE f == o.val
             n == InodeOf(m, Root).size
             s == f[2] + 1
  <2>1. Found(m, name, n, f) /\ f[1] # 0
    BY <1>3, <1>5
  <2>2. /\ n \in Nat /\ DOMAIN Dir(m) = 1 .. n
        /\ \A u \in DOMAIN Dir(m) : Dir(m)[u] # Zero =>
              u \in Entries(m) /\ Dir(m)[u].ino \in Named(m)
    BY <1>1, DirIs
  <2> HIDE DEF f, n
  <2>3. /\ f[2] \in 0 .. n - 1 /\ Dir(m)[s] # Zero /\ Dir(m)[s].ino = f[1]
    BY <2>1 DEF Found
  <2>4. f[2] \in Nat /\ s \in 1 .. n
    BY <2>2, <2>3
  <2>5. s \in Entries(m) /\ f[1] \in Named(m)
    BY <2>2, <2>3, <2>4
  <2> QED BY <1>1, <2>3, <2>4, <2>5 DEF f
<1> QED BY <1>2, <1>3, <1>4, <1>5

(* sfs_lookonce *)
Looked(o, op, rc) ==
    \/ Failed(o, op, rc)
    \/ /\ Referred(o, op, rc) /\ o.val[2] \in Nat
       /\ o.val[2] + 1 \in Entries(o.m) /\ Dir(o.m)[o.val[2] + 1].ino = o.val[1]

LEMMA LookOnceIs ==
    ASSUME NEW m, NEW op, NEW rc, Good(m, op, rc), Counts(op, rc), rc[Root] # 0,
           NEW name, NEW o \in LookOnce(m, name)
    PROVE  Looked(o, op, rc)
<1>1. PICK p \in Findname(m, name) :
         IF p.err = "ok"
         THEN IF p.val[1] = 0 THEN o \in Fail(p.m, "ENOENT")
              ELSE \E q \in LoadVnode(p.m, p.val[1], FALSE) :
                      IF q.err = "ok"
                      THEN o \in IF q.m.vn[q.val[1]].i.linkcount = 0 THEN Panic(q.m, "bug")
                                 ELSE Ret(q.m, <<p.val[1], p.val[2]>>)
                      ELSE o = q
         ELSE o = p
  <2>1. PICK p \in Findname(m, name) :
           o \in IF p.err = "ok"
                 THEN IF p.val[1] = 0 THEN Fail(p.m, "ENOENT")
                      ELSE UNION {IF q.err = "ok"
                                  THEN IF q.m.vn[q.val[1]].i.linkcount = 0
                                       THEN Panic(q.m, "bug")
                                       ELSE Ret(q.m, <<p.val[1], p.val[2]>>)
                                  ELSE {q} : q \in LoadVnode(p.m, p.val[1], FALSE)}
                 ELSE {p}
    BY DEF LookOnce, Then
  <2> QED BY <2>1
<1> DEFINE ino == p.val[1]
           slot == p.val[2]
<1>2. /\ IsOutcome(p) /\ p.m = m
      /\ p.err # "ok" => Failed(p, op, rc)
      /\ p.err = "ok" /\ ino # 0 =>
            /\ ino \in Live(m) /\ ino \in Block \ {0, Root}
            /\ InodeOf(m, ino).linkcount # 0
            /\ slot \in Nat /\ slot + 1 \in Entries(m) /\ Dir(m)[slot + 1].ino = ino
  BY <1>1, FindGood
<1>3. CASE p.err # "ok"
  BY <1>1, <1>2, <1>3 DEF Looked
<1>4. CASE p.err = "ok" /\ ino = 0
  <2>1. o \in Fail(m, "ENOENT")
    BY <1>1, <1>2, <1>4
  <2> QED BY <2>1, FailIs DEF Looked, Failed
<1>5. CASE p.err = "ok" /\ ino # 0
  <2>1. \E q \in LoadVnode(m, ino, FALSE) :
           IF q.err = "ok"
           THEN o \in IF q.m.vn[q.val[1]].i.linkcount = 0 THEN Panic(q.m, "bug")
                      ELSE Ret(q.m, <<ino, slot>>)
           ELSE o = q
    BY <1>1, <1>2, <1>5
  <2>2. /\ ino \in Live(m) /\ ino \in Block \ {0, Root}
        /\ InodeOf(m, ino).linkcount # 0
        /\ slot \in Nat /\ slot + 1 \in Entries(m) /\ Dir(m)[slot + 1].ino = ino
    BY <1>2, <1>5
  <2> HIDE DEF ino, slot
  <2>3. PICK q \in LoadVnode(m, ino, FALSE) :
           IF q.err = "ok"
           THEN o \in IF q.m.vn[q.val[1]].i.linkcount = 0 THEN Panic(q.m, "bug")
                      ELSE Ret(q.m, <<ino, slot>>)
           ELSE o = q
    BY <2>1
  <2>4. LoadedGood(m, q, ino, op, rc)
    BY <2>2, <2>3, LoadVnodeIs
  <2>5. CASE q.err # "ok"
    BY <2>3, <2>4, <2>5 DEF LoadedGood, Looked, Failed
  <2>6. CASE q.err = "ok"
    <3> DEFINE m1 == q.m
    <3>1. /\ q.val[1] = ino /\ ino \in DOMAIN m1.vn /\ Good(m1, op, Up(rc, ino))
          /\ Dir(m1) = Dir(m) /\ Live(m1) = Live(m)
      BY <2>4, <2>6 DEF LoadedGood
    <3>2. o \in IF m1.vn[ino].i.linkcount = 0 THEN Panic(m1, "bug")
                ELSE Ret(m1, <<ino, slot>>)
      BY <2>3, <2>6, <3>1
    <3> HIDE DEF m1
    <3>3. Entries(m1) = Entries(m) /\ Named(m1) = Named(m)
      BY <3>1 DEF Entries, Named, Dir
    <3>4. ino \in Named(m1) /\ ino \in Live(m1)
      BY <2>2, <3>1, <3>3 DEF Named, Dir
    <3>5. InodeOf(m1, ino).linkcount # 0 /\ InodeOf(m1, ino) = m1.vn[ino].i
      BY <3>1, <3>4, GoodIs DEF InodeOf
    <3>6. o \in Ret(m1, <<ino, slot>>)
      BY <3>2, <3>5
    <3>7. IsOutcome(o) /\ o.err = "ok" /\ o.m = m1 /\ o.val = <<ino, slot>>
      BY <3>6, RetIs
    <3>8. o.val[1] = ino /\ o.val[2] = slot
      BY <3>7
    <3> QED BY <2>2, <3>1, <3>3, <3>7, <3>8 DEF Looked, Referred
  <2> QED BY <2>5, <2>6
<1> QED BY <1>3, <1>4, <1>5

------------------------------------------------------------------------------
(* sfs_creat *)
LEMMA MakeFileIs ==
    ASSUME NEW m, NEW op, NEW rc, Good(m, op, rc), Counts(op, rc), rc[Root] # 0,
           NEW name \in Names, NEW o \in MakeFile(m, name)
    PROVE  Failed(o, op, rc) \/ Referred(o, op, rc)
<1>1. PICK p \in MakeObj(m) :
         IF p.err = "ok"
         THEN \E q \in DirLink(p.m, name, p.val[1]) :
                 /\ q.err = "ok" => o \in Ret(AddLinks(q.m, p.val[1], 1), <<p.val[1]>>)
                 /\ q.err # "ok" => Closing(o, q, p.val[1])
         ELSE o = p
  <2>1. PICK p \in MakeObj(m) :
           o \in IF p.err = "ok"
                 THEN UNION {CASE q.err = "ok" ->
                                    Ret(AddLinks(q.m, p.val[1], 1), <<p.val[1]>>)
                               [] q.err = "panic" -> {q}
                               [] OTHER -> Finally({q}, LAMBDA m2 : Decref(m2, p.val[1])) :
                               q \in DirLink(p.m, name, p.val[1])}
                 ELSE {p}
    BY DEF MakeFile, Then
  <2>2. CASE p.err # "ok"
    BY <2>1, <2>2
  <2>3. CASE p.err = "ok"
    <3>1. PICK q \in DirLink(p.m, name, p.val[1]) :
             o \in CASE q.err = "ok" -> Ret(AddLinks(q.m, p.val[1], 1), <<p.val[1]>>)
                     [] q.err = "panic" -> {q}
                     [] OTHER -> UNION {IF r.err = "panic" THEN {r}
                                        ELSE {IF c.err = "panic" THEN c
                                              ELSE [r EXCEPT !.m = c.m] :
                                                 c \in Decref(r.m, p.val[1])} : r \in {q}}
      BY <2>1, <2>3 DEF Finally
    <3>2. /\ q.err = "ok" => o \in Ret(AddLinks(q.m, p.val[1], 1), <<p.val[1]>>)
          /\ q.err # "ok" => Closing(o, q, p.val[1])
      BY <3>1 DEF Closing
    <3> QED BY <2>3, <3>2
  <2> QED BY <2>2, <2>3
<1>2. ObjMade(m, p, op, rc)
  BY <1>1, MakeObjIs
<1>3. CASE p.err # "ok"
  BY <1>1, <1>2, <1>3 DEF ObjMade, Failed, IoErrors
<1>4. CASE p.err = "ok"
  <2> DEFINE m1 == p.m
             ino == p.val[1]
             rc1 == Up(rc, ino)
  <2>1. ino \in Block \ {0, Root} /\ Good(m1, op, rc1)
    BY <1>2, <1>4 DEF ObjMade, IoErrors
  <2>2. \E q \in DirLink(m1, name, ino) :
           /\ q.err = "ok" => o \in Ret(AddLinks(q.m, ino, 1), <<ino>>)
           /\ q.err # "ok" => Closing(o, q, ino)
    BY <1>1, <1>4
  <2>3. rc1[Root] # 0 /\ rc1[ino] # 0
    <3>1. rc \in [Block -> Nat] /\ ino \in Block /\ Root \in Block
      BY <2>1, BlockFacts DEF Counts
    <3> HIDE DEF ino
    <3> QED BY <3>1, UpIs
  <2> HIDE DEF m1, ino
  <2>4. PICK q \in DirLink(m1, name, ino) :
           /\ q.err = "ok" => o \in Ret(AddLinks(q.m, ino, 1), <<ino>>)
           /\ q.err # "ok" => Closing(o, q, ino)
    BY <2>2
  <2>5. DirLinked(m1, q, name, ino, op, rc1)
    <3> HIDE DEF rc1
    <3> QED BY <2>1, <2>3, <2>4, DirLinkIs
  <2>6. CASE q.err = "ok"
    <3> DEFINE m2 == AddLinks(q.m, ino, 1)
    <3>1. Good(m2, op, rc1)
      <4>1. m2 = AddLinks(q.m, ino, 1)
        OBVIOUS
      <4> HIDE DEF m2, rc1
      <4> QED BY <2>5, <2>6, <4>1 DEF DirLinked, IoErrors
    <3>2. IsOutcome(o) /\ o.m = m2 /\ o.err = "ok" /\ o.val = <<ino>>
      BY <2>4, <2>6, RetIs
    <3> QED BY <2>1, <3>1, <3>2 DEF Referred
  <2>7. CASE q.err # "ok"
    <3>1. IsOutcome(q) /\ q.err # "panic" /\ Good(q.m, op, Up(rc, ino))
      BY <2>5, <2>7 DEF DirLinked, IoErrors
    <3>2. ino \in Block \ {0} /\ Closing(o, q, ino)
      BY <2>1, <2>4, <2>7
    <3>3. Closed(o, q, op, rc)
      BY <3>1, <3>2, ClosingIs
    <3> QED BY <2>7, <3>1, <3>3 DEF Closed, Failed
  <2> QED BY <2>6, <2>7
<1> QED BY <1>3, <1>4

LEMMA CreatIs ==
    ASSUME NEW m, NEW op, NEW rc, Good(m, op, rc), Counts(op, rc), rc[Root] # 0,
           NEW name \in Names, NEW excl, NEW o \in Creat(m, name, excl)
    PROVE  Failed(o, op, rc) \/ Referred(o, op, rc)
<1>1. PICK p \in Findname(m, name) :
         IF p.err = "ok"
         THEN \/ p.val[1] = 0 /\ o \in MakeFile(p.m, name)
              \/ p.val[1] # 0 /\ o \in Fail(p.m, "EEXIST")
              \/ p.val[1] # 0 /\ o \in LoadVnode(p.m, p.val[1], FALSE)
         ELSE o = p
  <2>1. PICK p \in Findname(m, name) :
           o \in IF p.err = "ok"
                 THEN IF p.val[1] = 0 THEN MakeFile(p.m, name)
                      ELSE IF excl THEN Fail(p.m, "EEXIST")
                      ELSE LoadVnode(p.m, p.val[1], FALSE)
                 ELSE {p}
    BY DEF Creat, Then
  <2> QED BY <2>1
<1> DEFINE ino == p.val[1]
<1>2. /\ IsOutcome(p) /\ p.m = m
      /\ p.err # "ok" => Failed(p, op, rc)
      /\ p.err = "ok" /\ ino # 0 =>
            /\ ino \in Live(m) /\ ino \in Block \ {0, Root}
            /\ InodeOf(m, ino).linkcount # 0
  BY <1>1, FindGood
<1>3. CASE p.err # "ok"
  BY <1>1, <1>2, <1>3
<1>4. CASE p.err = "ok" /\ o \in MakeFile(p.m, name)
  BY <1>2, <1>4, MakeFileIs
<1>5. CASE p.err = "ok" /\ o \in Fail(p.m, "EEXIST")
  BY <1>2, <1>5, FailIs DEF Failed
<1>6. CASE p.err = "ok" /\ ino # 0 /\ o \in LoadVnode(p.m, ino, FALSE)
  <2>1. /\ ino \in Live(m) /\ ino \in Block \ {0, Root}
        /\ InodeOf(m, ino).linkcount # 0 /\ o \in LoadVnode(m, ino, FALSE)
    BY <1>2, <1>6
  <2> HIDE DEF ino
  <2>2. LoadedGood(m, o, ino, op, rc)
    BY <2>1, LoadVnodeIs
  <2>3. CASE o.err # "ok"
    BY <2>2, <2>3 DEF LoadedGood, Failed
  <2>4. CASE o.err = "ok"
    BY <2>1, <2>2, <2>4 DEF LoadedGood, Referred
  <2> QED BY <2>3, <2>4
<1> QED BY <1>1, <1>3, <1>4, <1>5, <1>6

------------------------------------------------------------------------------
(* sfs_link, sfs_remove and sfs_rename                                      *)
Done(o, op, rc) == IsOutcome(o) /\ o.err # "panic" /\ Good(o.m, op, rc)

LEMMA SfsLinkIs ==
    ASSUME NEW m, NEW op, NEW rc, Good(m, op, rc), rc[Root] # 0,
           NEW ino \in Block \ {0, Root}, rc[ino] # 0, NEW name \in Names,
           NEW o \in SfsLink(m, name, ino)
    PROVE  Done(o, op, rc)
<1>1. PICK p \in DirLink(m, name, ino) :
         IF p.err = "ok" THEN o \in Ret(AddLinks(p.m, ino, 1), <<>>) ELSE o = p
  <2>1. PICK p \in DirLink(m, name, ino) :
           o \in IF p.err = "ok" THEN Ret(AddLinks(p.m, ino, 1), <<>>) ELSE {p}
    BY DEF SfsLink, Then
  <2> QED BY <2>1
<1>2. DirLinked(m, p, name, ino, op, rc)
  BY <1>1, DirLinkIs
<1>3. CASE p.err # "ok"
  BY <1>1, <1>2, <1>3 DEF DirLinked, Done, IoErrors
<1>4. CASE p.err = "ok"
  <2> DEFINE m2 == AddLinks(p.m, ino, 1)
  <2>1. IsOutcome(o) /\ o.m = m2 /\ o.err = "ok"
    BY <1>1, <1>4, RetIs
  <2>2. m2 = AddLinks(p.m, ino, 1)
    OBVIOUS
  <2> HIDE DEF m2
  <2>3. Good(m2, op, rc)
    BY <1>2, <1>4, <2>2 DEF DirLinked, IoErrors
  <2> QED BY <2>1, <2>3 DEF Done
<1> QED BY <1>3, <1>4

LEMMA SfsRemoveIs ==
    ASSUME NEW m, NEW op, NEW rc, Good(m, op, rc), Counts(op, rc), rc[Root] # 0,
           NEW name, NEW o \in SfsRemove(m, name)
    PROVE  Done(o, op, rc)
<1>1. PICK p \in LookOnce(m, name) :
         IF p.err = "ok"
         THEN \E q \in DirUnlink(p.m, p.val[2]) : \E r :
                 /\ r \in IF q.err = "ok" THEN Ret(AddLinks(q.m, p.val[1], -1), <<>>) ELSE {q}
                 /\ Closing(o, r, p.val[1])
         ELSE o = p
  <2>1. PICK p \in LookOnce(m, name) :
           o \in IF p.err = "ok"
                 THEN UNION {IF r.err = "panic" THEN {r}
                             ELSE {IF c.err = "panic" THEN c ELSE [r EXCEPT !.m = c.m] :
                                      c \in Decref(r.m, p.val[1])} :
                        r \in UNION {IF q.err = "ok"
                                     THEN Ret(AddLinks(q.m, p.val[1], -1), <<>>)
                                     ELSE {q} : q \in DirUnlink(p.m, p.val[2])}}
                 ELSE {p}
    BY DEF SfsRemove, Then, Finally
  <2> QED BY <2>1 DEF Closing
<1>2. Looked(p, op, rc)
  BY <1>1, LookOnceIs
<1>3. CASE p.err # "ok"
  BY <1>1, <1>2, <1>3 DEF Looked, Failed, Referred, Done
<1>4. CASE p.err = "ok"
  <2> DEFINE m1 == p.m
             ino == p.val[1]
             slot == p.val[2]
             rc1 == Up(rc, ino)
  <2>1. /\ ino \in Block \ {0, Root} /\ Good(m1, op, rc1) /\ slot \in Nat
        /\ slot + 1 \in Entries(m1) /\ Dir(m1)[slot + 1].ino = ino
    BY <1>2, <1>4 DEF Looked, Failed, Referred
  <2>2. \E q \in DirUnlink(m1, slot) : \E r :
           /\ r \in IF q.err = "ok" THEN Ret(AddLinks(q.m, ino, -1), <<>>) ELSE {q}
           /\ Closing(o, r, ino)
    BY <1>1, <1>4
  <2> HIDE DEF m1, ino, slot
  <2>3. rc1[Root] # 0 /\ rc1[ino] # 0
    <3>1. rc \in [Block -> Nat] /\ ino \in Block /\ Root \in Block
      BY <2>1, BlockFacts DEF Counts
    <3> QED BY <3>1, UpIs
  <2>4. PICK q, r :
           /\ q \in DirUnlink(m1, slot)
           /\ r \in IF q.err = "ok" THEN Ret(AddLinks(q.m, ino, -1), <<>>) ELSE {q}
           /\ Closing(o, r, ino)
    BY <2>2
  <2> HIDE DEF rc1
  <2>5. DirUnlinked(m1, q, ino, op, rc1)
    BY <2>1, <2>3, <2>4, DirUnlinkIs
  <2>6. IsOutcome(r) /\ r.err # "panic" /\ Good(r.m, op, rc1)
    <3>1. CASE q.err # "ok"
      BY <2>4, <2>5, <3>1 DEF DirUnlinked, IoErrors
    <3>2. CASE q.err = "ok"
      <4> DEFINE m2 == AddLinks(q.m, ino, -1)
      <4>1. IsOutcome(r) /\ r.m = m2 /\ r.err = "ok"
        BY <2>4, <3>2, RetIs
      <4>2. m2 = AddLinks(q.m, ino, -1)
        OBVIOUS
      <4> HIDE DEF m2
      <4>3. Good(m2, op, rc1)
        BY <2>5, <3>2, <4>2 DEF DirUnlinked, IoErrors
      <4> QED BY <4>1, <4>3
    <3> QED BY <3>1, <3>2
  <2>7. Closed(o, r, op, rc)
    <3>1. ino \in Block \ {0} /\ Good(r.m, op, Up(rc, ino)) /\ Closing(o, r, ino)
      BY <2>1, <2>4, <2>6 DEF rc1
    <3> QED BY <2>6, <3>1, ClosingIs
  <2> QED BY <2>6, <2>7 DEF Closed, Done
<1> QED BY <1>3, <1>4

LEMMA UnlinkOldIs ==
    ASSUME NEW m, NEW op, NEW rc, Good(m, op, rc), rc[Root] # 0,
           NEW ino \in Block \ {0, Root}, rc[ino] # 0, m.vn[ino].dirty,
           NEW old \in Nat, old + 1 \in Entries(m), Dir(m)[old + 1].ino = ino,
           NEW new \in Nat, new + 1 \in Entries(m), Dir(m)[new + 1].ino = ino,
           NEW o \in UnlinkOld(m, ino, old, new)
    PROVE  Died(o) \/ Done(o, op, rc)
<1>0. ino \in DOMAIN m.vn
  BY DEF Good, Refs
<1>1. PICK p \in DirUnlink(m, old) :
         o \in CASE p.err = "ok" -> Ret(AddLinks(p.m, ino, -1), <<>>)
                 [] p.err = "panic" -> {p}
                 [] OTHER -> UNION {CASE u.err = "ok" ->
                                       Fail([u.m EXCEPT !.vn[ino].i.linkcount = @ - 1],
                                            p.err)
                                  [] u.err = "panic" -> {u}
                                  [] OTHER -> Panic(u.m, "io") :
                                  u \in DirUnlink(p.m, new)}
  BY DEF UnlinkOld
<1>2. DirUnlinked(m, p, ino, op, rc)
  BY <1>1, DirUnlinkIs
<1>3. CASE p.err = "ok"
  <2> DEFINE m2 == AddLinks(p.m, ino, -1)
  <2>1. IsOutcome(o) /\ o.m = m2 /\ o.err = "ok"
    BY <1>1, <1>3, RetIs
  <2>2. m2 = AddLinks(p.m, ino, -1)
    OBVIOUS
  <2> HIDE DEF m2
  <2>3. Good(m2, op, rc)
    BY <1>2, <1>3, <2>2 DEF DirUnlinked, IoErrors
  <2> QED BY <2>1, <2>3 DEF Done
<1>4. CASE p.err # "ok"
  <2> DEFINE m1 == p.m
  <2>1. /\ p.err \in IoErrors /\ Good(m1, op, rc) /\ Dir(m1) = Dir(m)
        /\ Entries(m1) = Entries(m) /\ m1.vn[ino] = m.vn[ino]
        /\ DOMAIN m1.vn = DOMAIN m.vn
    BY <1>0, <1>2, <1>4 DEF DirUnlinked
  <2>2. PICK u \in DirUnlink(m1, new) :
           o \in CASE u.err = "ok" ->
                        Fail([u.m EXCEPT !.vn[ino].i.linkcount = @ - 1], p.err)
                   [] u.err = "panic" -> {u}
                   [] OTHER -> Panic(u.m, "io")
    BY <1>1, <1>4, <2>1 DEF IoErrors
  <2> HIDE DEF m1
  <2>3. DirUnlinked(m1, u, ino, op, rc)
    BY <2>1, <2>2, DirUnlinkIs
  <2>4. /\ IsState(u.m) /\ u.m.vn[ino].dirty /\ ino \in DOMAIN u.m.vn
    BY <1>0, <2>1, <2>3 DEF DirUnlinked
  <2>5. CASE u.err = "ok"
    <3> DEFINE m2 == [u.m EXCEPT !.vn[ino].i.linkcount = @ - 1]
               m3 == u.m
    <3>1. IsOutcome(o) /\ o.m = m2 /\ o.err = p.err
      BY <2>2, <2>5, FailIs
    <3>2. m2 = AddLinks(u.m, ino, -1)
      <4>1. m3.vn[ino] \in Vnode /\ m3.vn[ino].dirty = TRUE /\ m2 = [m3 EXCEPT !.vn[ino].i.linkcount = @ - 1]
        BY <2>4 DEF IsState, Vnode
      <4> HIDE DEF m2, m3
      <4>2. [m3.vn[ino].i EXCEPT !.linkcount = @ + (-1)] = [m3.vn[ino].i EXCEPT !.linkcount = @ - 1]
        BY <4>1 DEF Vnode, Inode
      <4> DEFINE i == [m3.vn[ino].i EXCEPT !.linkcount = @ - 1]
      <4>3. m2 = [m3 EXCEPT !.vn[ino] = [@ EXCEPT !.i = i]]
        BY <4>1
      <4> HIDE DEF i
      <4>4. [m3.vn[ino] EXCEPT !.i = i, !.dirty = TRUE] = [m3.vn[ino] EXCEPT !.i = i]
        BY <4>1 DEF Vnode
      <4>5. m2 = SetInode(m3, ino, i)
        BY <4>3, <4>4 DEF SetInode
      <4> QED BY <4>2, <4>5 DEF AddLinks, i, m3
    <3> HIDE DEF m2
    <3>3. Good(m2, op, rc)
      BY <2>3, <2>5, <3>2 DEF DirUnlinked, IoErrors
    <3> QED BY <2>1, <3>1, <3>3 DEF Done, IoErrors
  <2>6. CASE u.err # "ok"
    <3>1. u.err # "panic"
      BY <2>3, <2>6 DEF DirUnlinked, IoErrors
    <3>2. o \in Panic(u.m, "io")
      BY <2>2, <2>6, <3>1
    <3> QED BY <2>4, <3>2, PanicIs DEF Died
  <2> QED BY <2>5, <2>6
<1> QED BY <1>3, <1>4

LEMMA SfsRenameIs ==
    ASSUME NEW m, NEW op, NEW rc, Good(m, op, rc), Counts(op, rc), rc[Root] # 0,
           NEW n1, NEW n2 \in Names, NEW o \in SfsRename(m, n1, n2)
    PROVE  Died(o) \/ Done(o, op, rc)
<1>1. PICK p \in LookOnce(m, n1) :
         IF p.err = "ok"
         THEN \E q \in DirLink(p.m, n2, p.val[1]) : \E r :
                 /\ r \in IF q.err = "ok"
                          THEN UnlinkOld(AddLinks(q.m, p.val[1], 1), p.val[1],
                                         p.val[2], q.val[1])
                          ELSE {q}
                 /\ Closing(o, r, p.val[1])
         ELSE o = p
  <2>1. PICK p \in LookOnce(m, n1) :
           o \in IF p.err = "ok"
                 THEN UNION {IF r.err = "panic" THEN {r}
                             ELSE {IF c.err = "panic" THEN c ELSE [r EXCEPT !.m = c.m] :
                                      c \in Decref(r.m, p.val[1])} :
                        r \in UNION {IF q.err = "ok"
                                     THEN UnlinkOld(AddLinks(q.m, p.val[1], 1), p.val[1],
                                                    p.val[2], q.val[1])
                                     ELSE {q} : q \in DirLink(p.m, n2, p.val[1])}}
                 ELSE {p}
    BY DEF SfsRename, Then, Finally
  <2> QED BY <2>1 DEF Closing
<1>2. Looked(p, op, rc)
  BY <1>1, LookOnceIs
<1>3. CASE p.err # "ok"
  BY <1>1, <1>2, <1>3 DEF Looked, Failed, Referred, Done
<1>4. CASE p.err = "ok"
  <2> DEFINE m1 == p.m
             ino == p.val[1]
             slot == p.val[2]
             rc1 == Up(rc, ino)
  <2>1. /\ ino \in Block \ {0, Root} /\ Good(m1, op, rc1) /\ slot \in Nat
        /\ slot + 1 \in Entries(m1) /\ Dir(m1)[slot + 1].ino = ino
    BY <1>2, <1>4 DEF Looked, Failed, Referred
  <2>2. \E q \in DirLink(m1, n2, ino) : \E r :
           /\ r \in IF q.err = "ok"
                    THEN UnlinkOld(AddLinks(q.m, ino, 1), ino, slot, q.val[1])
                    ELSE {q}
           /\ Closing(o, r, ino)
    BY <1>1, <1>4
  <2> HIDE DEF m1, ino, slot
  <2>3. rc1[Root] # 0 /\ rc1[ino] # 0
    <3>1. rc \in [Block -> Nat] /\ ino \in Block /\ Root \in Block
      BY <2>1, BlockFacts DEF Counts
    <3> QED BY <3>1, UpIs
  <2>4. PICK q, r :
           /\ q \in DirLink(m1, n2, ino)
           /\ r \in IF q.err = "ok"
                    THEN UnlinkOld(AddLinks(q.m, ino, 1), ino, slot, q.val[1])
                    ELSE {q}
           /\ Closing(o, r, ino)
    BY <2>2
  <2> HIDE DEF rc1
  <2>5. DirLinked(m1, q, n2, ino, op, rc1)
    BY <2>1, <2>3, <2>4, DirLinkIs
  <2>6. Died(r) \/ Done(r, op, rc1)
    <3>1. CASE q.err # "ok"
      BY <2>4, <2>5, <3>1 DEF DirLinked, IoErrors, Done
    <3>2. CASE q.err = "ok"
      <4> DEFINE m2 == AddLinks(q.m, ino, 1)
                 e == [name |-> n2, ino |-> ino]
      <4>1. PICK new \in Nat : q.val = <<new>> /\ EntryMore(m1, q.m, new + 1, e)
        BY <2>5, <3>2 DEF DirLinked, IoErrors
      <4>2. m2 = AddLinks(q.m, ino, 1) /\ e.ino = ino
        OBVIOUS
      <4>3. r \in UnlinkOld(m2, ino, slot, new)
        BY <2>4, <3>2, <4>1
      <4> HIDE DEF m2, e
      <4>4. /\ Good(m2, op, rc1) /\ Dir(m2) = Dir(q.m) /\ Entries(m2) = Entries(q.m)
            /\ m2.vn[ino].dirty
        BY <2>5, <3>2, <4>2 DEF DirLinked, IoErrors
      <4>5. /\ slot + 1 \in Entries(m2) /\ Dir(m2)[slot + 1].ino = ino
            /\ new + 1 \in Entries(m2) /\ Dir(m2)[new + 1].ino = ino
        BY <2>1, <4>1, <4>2, <4>4 DEF EntryMore
      <4> QED BY <2>1, <2>3, <4>3, <4>4, <4>5, UnlinkOldIs
    <3> QED BY <3>1, <3>2
  <2>7. CASE Died(r)
    <3>1. r.err = "panic"
      BY <2>7 DEF Died
    <3> QED BY <2>4, <2>7, <3>1 DEF Closing
  <2>8. CASE Done(r, op, rc1)
    <3>1. /\ IsOutcome(r) /\ r.err # "panic"
          /\ ino \in Block \ {0} /\ Good(r.m, op, Up(rc, ino)) /\ Closing(o, r, ino)
      BY <2>1, <2>4, <2>8 DEF rc1, Done
    <3>2. Closed(o, r, op, rc)
      BY <3>1, ClosingIs
    <3> QED BY <3>1, <3>2 DEF Closed, Done
  <2> QED BY <2>6, <2>7, <2>8
<1> QED BY <1>3, <1>4

------------------------------------------------------------------------------
(* The calls of the vfs layer: the root directory is held while they run.   *)
LEMMA RootEntered ==
    ASSUME NEW m, NEW op, NEW rc, Good(m, op, rc), Counts(op, rc),
           NEW p \in GetRoot(m)
    PROVE  /\ p.err # "ok" => Died(p)
           /\ p.err = "ok" => Good(p.m, op, Up(rc, Root))
           /\ Counts(op, Up(rc, Root)) /\ Up(rc, Root)[Root] # 0
<1>1. /\ p.err # "ok" => Died(p)
      /\ p.err = "ok" => LoadedGood(m, p, Root, op, rc)
  BY GetRootIs
<1>2. Root \in Block /\ rc \in [Block -> Nat]
  BY BlockFacts DEF Counts
<1> QED BY <1>1, <1>2, CountsUp, UpIs DEF LoadedGood

LEMMA RootLeft ==
    ASSUME NEW op, NEW rc, Counts(op, rc), NEW r, NEW o, Closing(o, r, Root)
    PROVE  /\ Died(r) => Died(o)
           /\ Failed(r, op, Up(rc, Root)) => Failed(o, op, rc)
           /\ Done(r, op, Up(rc, Root)) => Done(o, op, rc)
           /\ Referred(r, op, Up(rc, Root)) => Referred(o, op, rc)
<1>1. Root \in Block \ {0} /\ rc \in [Block -> Nat]
  BY BlockFacts DEF Counts
<1>2. ASSUME Died(r) PROVE Died(o)
  BY <1>2 DEF Died, Closing
<1>3. ASSUME IsOutcome(r), r.err # "panic", Good(r.m, op, Up(rc, Root))
      PROVE  Closed(o, r, op, rc)
  BY <1>1, <1>3, ClosingIs
<1>4. ASSUME Failed(r, op, Up(rc, Root)) PROVE Failed(o, op, rc)
  BY <1>3, <1>4 DEF Failed, Closed
<1>5. ASSUME Done(r, op, Up(rc, Root)) PROVE Done(o, op, rc)
  BY <1>3, <1>5 DEF Done, Closed
<1>6. ASSUME Referred(r, op, Up(rc, Root)) PROVE Referred(o, op, rc)
  <2> DEFINE ino == r.val[1]
             rc1 == Up(rc, ino)
  <2>1. /\ IsOutcome(r) /\ r.err = "ok" /\ ino \in Block \ {0, Root} /\ ino \in Block
        /\ Good(r.m, op, Up(Up(rc, Root), ino))
    BY <1>6 DEF Referred
  <2> HIDE DEF ino
  <2>2. Up(Up(rc, Root), ino) = Up(rc1, Root) /\ Counts(op, rc1)
    BY <1>1, <2>1, UpSwap, CountsUp
  <2> HIDE DEF rc1
  <2>3. Closed(o, r, op, rc1)
    BY <1>1, <2>1, <2>2, ClosingIs
  <2> QED BY <2>1, <2>3 DEF Closed, Referred, ino, rc1
<1> QED BY <1>2, <1>4, <1>5, <1>6

Sought(o, op, rc) == Died(o) \/ Failed(o, op, rc) \/ Referred(o, op, rc)

LEMMA LookupIs ==
    ASSUME NEW m, NEW op, NEW rc, Good(m, op, rc), Counts(op, rc),
           NEW name, NEW o \in Lookup(m, name)
    PROVE  Sought(o, op, rc)
<1>1. PICK p \in GetRoot(m) :
         IF p.err = "ok" THEN \E r \in LookOnce(p.m, name) : Closing(o, r, Root)
         ELSE o = p
  <2>1. PICK p \in GetRoot(m) :
           o \in IF p.err = "ok"
                 THEN UNION {IF r.err = "panic" THEN {r}
                             ELSE {IF c.err = "panic" THEN c ELSE [r EXCEPT !.m = c.m] :
                                      c \in Decref(r.m, Root)} : r \in LookOnce(p.m, name)}
                 ELSE {p}
    BY DEF Lookup, InRoot, Then, Finally
  <2> QED BY <2>1 DEF Closing
<1> DEFINE rc1 == Up(rc, Root)
<1>2. /\ p.err # "ok" => Died(p)
      /\ p.err = "ok" => Good(p.m, op, rc1)
      /\ Counts(op, rc1) /\ rc1[Root] # 0
  BY <1>1, RootEntered
<1>3. CASE p.err # "ok"
  BY <1>1, <1>2, <1>3 DEF Sought
<1>4. CASE p.err = "ok"
  <2>1. PICK r \in LookOnce(p.m, name) : Closing(o, r, Root)
    BY <1>1, <1>4
  <2> HIDE DEF rc1
  <2>2. Looked(r, op, rc1)
    BY <1>2, <1>4, <2>1, LookOnceIs
  <2> QED BY <2>1, <2>2, RootLeft DEF Looked, Sought, rc1
<1> QED BY <1>3, <1>4

Creating(m, o, name, excl) ==
    \E p \in GetRoot(m) :
       IF p.err = "ok" THEN \E r \in Creat(p.m, name, excl) : Closing(o, r, Root)
       ELSE o = p

LEMMA CreatingIs ==
    ASSUME NEW m, NEW op, NEW rc, Good(m, op, rc), Counts(op, rc),
           NEW name \in Names, NEW excl, NEW o, Creating(m, o, name, excl)
    PROVE  Sought(o, op, rc)
<1>1. PICK p \in GetRoot(m) :
         IF p.err = "ok" THEN \E r \in Creat(p.m, name, excl) : Closing(o, r, Root)
         ELSE o = p
  BY DEF Creating
<1> DEFINE rc1 == Up(rc, Root)
<1>2. /\ p.err # "ok" => Died(p)
      /\ p.err = "ok" => Good(p.m, op, rc1)
      /\ Counts(op, rc1) /\ rc1[Root] # 0
  BY <1>1, RootEntered
<1>3. CASE p.err # "ok"
  BY <1>1, <1>2, <1>3 DEF Sought
<1>4. CASE p.err = "ok"
  <2>1. PICK r \in Creat(p.m, name, excl) : Closing(o, r, Root)
    BY <1>1, <1>4
  <2> HIDE DEF rc1
  <2>2. Failed(r, op, rc1) \/ Referred(r, op, rc1)
    BY <1>2, <1>4, <2>1, CreatIs
  <2> QED BY <2>1, <2>2, RootLeft DEF Sought, rc1
<1> QED BY <1>3, <1>4

(* vfs_open *)
OpenedFile(o, op, rc) ==
    /\ IsOutcome(o) /\ o.err = "ok" /\ o.val[1] \in Block \ {0, Root}
    /\ Good(o.m, Up(op, o.val[1]), Up(rc, o.val[1]))

LEMMA IncopenGood ==
    ASSUME NEW m, NEW op, NEW rc, Counts(op, rc), NEW ino \in Block \ {0},
           Good(m, op, Up(rc, ino)), NEW m2, m2 = Incopen(m, ino)
    PROVE  Good(m2, Up(op, ino), Up(rc, ino)) /\ ino \in DOMAIN m2.vn
<1>1. /\ Up(rc, ino)[ino] = rc[ino] + 1 /\ rc[ino] \in Nat
      /\ Up(op, ino)[ino] = op[ino] + 1 /\ op[ino] \in Nat
      /\ \A j \in Block : j # ino => Up(op, ino)[j] = op[j]
  BY UpIs DEF Counts
<1>2. Refs(m, op, Up(rc, ino)) /\ Sound(m, Live(m), m.lost)
  BY DEF Good
<1>3. /\ ino \in DOMAIN m.vn /\ m.vn[ino].refcount = rc[ino] + 1
      /\ m.vn[ino].opencount = op[ino]
  BY <1>1, <1>2 DEF Refs
<1>4. /\ SameFiles(m, m2, Live(m), m.lost)
      /\ Recounted(m, m2, ino, m.vn[ino].refcount, m.vn[ino].opencount + 1)
  BY <1>2, <1>3, IncopenIs
<1>5. Recounted(m, m2, ino, rc[ino] + 1, op[ino] + 1) /\ ino \in DOMAIN m2.vn
  BY <1>3, <1>4 DEF Recounted
<1>6. Good(m2, Up(op, ino), Up(rc, ino))
  <2> DEFINE op2 == Up(op, ino)
             rc2 == Up(rc, ino)
             r == rc[ino] + 1
             n == op[ino] + 1
  <2>1. /\ \A j \in Block : j # ino => op2[j] = op[j] /\ rc2[j] = rc2[j]
        /\ n = op2[ino] /\ r = rc2[ino] /\ r # 0
        /\ Recounted(m, m2, ino, r, n) /\ Good(m, op, rc2)
    BY <1>1, <1>5
  <2> HIDE DEF op2, rc2, r, n
  <2> QED BY <1>3, <1>4, <2>1, GoodRecounted DEF op2, rc2
<1> QED BY <1>5, <1>6

LEMMA OpenedIs ==
    ASSUME NEW m, NEW op, NEW rc, Counts(op, rc), NEW ino \in Block \ {0, Root},
           Good(m, op, Up(rc, ino)), NEW f, NEW o \in Opened(m, ino, f)
    PROVE  Failed(o, op, rc) \/ OpenedFile(o, op, rc)
<1> DEFINE m1 == Incopen(m, ino)
<1>1. \/ \E r \in Fail(m, "EUNIMP") : Closing(o, r, ino)
      \/ o \in Ret(m1, <<ino>>)
      \/ \E p : /\ p \in Fail(m1, "EINVAL")
                       \cup UNION {IF q.err = "ok" THEN Ret(q.m, <<ino>>) ELSE {q} :
                                      q \in Truncate(m1, ino)}
                /\ IF p.err \in {"ok", "panic"} THEN o = p
                   ELSE \E c \in DecopenDecref(p.m, ino) :
                           o = IF c.err = "panic" THEN c ELSE [p EXCEPT !.m = c.m]
  <2>1. o \in IF f.append
              THEN UNION {IF r.err = "panic" THEN {r}
                          ELSE {IF c.err = "panic" THEN c ELSE [r EXCEPT !.m = c.m] :
                                   c \in Decref(r.m, ino)} : r \in Fail(m, "EUNIMP")}
              ELSE IF ~f.trunc THEN Ret(m1, <<ino>>)
              ELSE UNION {IF p.err \in {"ok", "panic"} THEN {p}
                          ELSE UNION {IF r.err = "panic" THEN {r}
                                      ELSE {IF c.err = "panic" THEN c
                                            ELSE [r EXCEPT !.m = c.m] :
                                               c \in DecopenDecref(r.m, ino)} : r \in {p}} :
                             p \in IF f.write
                                   THEN UNION {IF q.err = "ok" THEN Ret(q.m, <<ino>>)
                                               ELSE {q} : q \in Truncate(m1, ino)}
                                   ELSE Fail(m1, "EINVAL")}
    BY DEF Opened, Then, Finally
  <2> HIDE DEF m1
  <2>2. CASE o \in UNION {IF r.err = "panic" THEN {r}
                          ELSE {IF c.err = "panic" THEN c ELSE [r EXCEPT !.m = c.m] :
                                   c \in Decref(r.m, ino)} : r \in Fail(m, "EUNIMP")}
    BY <2>2 DEF Closing
  <2>3. CASE o \in UNION {IF p.err \in {"ok", "panic"} THEN {p}
                          ELSE UNION {IF r.err = "panic" THEN {r}
                                      ELSE {IF c.err = "panic" THEN c
                                            ELSE [r EXCEPT !.m = c.m] :
                                               c \in DecopenDecref(r.m, ino)} : r \in {p}} :
                             p \in IF f.write
                                   THEN UNION {IF q.err = "ok" THEN Ret(q.m, <<ino>>)
                                               ELSE {q} : q \in Truncate(m1, ino)}
                                   ELSE Fail(m1, "EINVAL")}
    BY <2>3
  <2> QED BY <2>1, <2>2, <2>3
<1>2. m1 = Incopen(m, ino) /\ ino \in Block \ {0} /\ ino \in Block
  OBVIOUS
<1> HIDE DEF m1
<1> DEFINE op1 == Up(op, ino)
           rc1 == Up(rc, ino)
<1>3. Good(m1, op1, rc1) /\ ino \in DOMAIN m1.vn
  BY <1>2, IncopenGood
<1>4. CASE \E r \in Fail(m, "EUNIMP") : Closing(o, r, ino)
  <2>1. PICK r \in Fail(m, "EUNIMP") : Closing(o, r, ino)
    BY <1>4
  <2>2. IsOutcome(r) /\ r.m = m /\ r.err = "EUNIMP"
    BY <2>1, FailIs
  <2>3. Closed(o, r, op, rc)
    BY <1>2, <2>1, <2>2, ClosingIs
  <2> QED BY <2>2, <2>3 DEF Closed, Failed
<1>5. CASE o \in Ret(m1, <<ino>>)
  <2>1. IsOutcome(o) /\ o.m = m1 /\ o.err = "ok" /\ o.val = <<ino>>
    BY <1>5, RetIs
  <2> QED BY <1>2, <1>3, <2>1 DEF OpenedFile
<1>6. CASE \E p : /\ p \in Fail(m1, "EINVAL")
                         \cup UNION {IF q.err = "ok" THEN Ret(q.m, <<ino>>) ELSE {q} :
                                        q \in Truncate(m1, ino)}
                  /\ IF p.err \in {"ok", "panic"} THEN o = p
                     ELSE \E c \in DecopenDecref(p.m, ino) :
                             o = IF c.err = "panic" THEN c ELSE [p EXCEPT !.m = c.m]
  <2>1. PICK p : /\ p \in Fail(m1, "EINVAL")
                         \cup UNION {IF q.err = "ok" THEN Ret(q.m, <<ino>>) ELSE {q} :
                                        q \in Truncate(m1, ino)}
                 /\ IF p.err \in {"ok", "panic"} THEN o = p
                    ELSE \E c \in DecopenDecref(p.m, ino) :
                            o = IF c.err = "panic" THEN c ELSE [p EXCEPT !.m = c.m]
    BY <1>6
  <2>2. /\ IsOutcome(p) /\ p.err # "panic" /\ Good(p.m, op1, rc1)
        /\ p.err = "ok" => p.val = <<ino>>
    <3>1. CASE p \in Fail(m1, "EINVAL")
      BY <1>3, <3>1, FailIs
    <3>2. CASE p \in UNION {IF q.err = "ok" THEN Ret(q.m, <<ino>>) ELSE {q} :
                               q \in Truncate(m1, ino)}
      <4>1. PICK q \in Truncate(m1, ino) :
               p \in IF q.err = "ok" THEN Ret(q.m, <<ino>>) ELSE {q}
        BY <3>2
      <4> DEFINE L == Live(m1)
                 H == m1.lost
      <4>2. Sound(m1, L, H)
        BY <1>3 DEF Good
      <4>3. TruncateResult(m1, q, L, H, ino)
        BY <1>3, <4>1, <4>2, TruncateDid
      <4> DEFINE m2 == q.m
      <4>4. /\ IsOutcome(q) /\ q.err \in {"ok", "EIO"} /\ Did(m1, m2, L, H, ino)
        BY <4>3 DEF TruncateResult
      <4>5. rc1[ino] # 0 /\ ino # Root
        BY <1>2, UpIs DEF Counts
      <4> HIDE DEF m2, op1, rc1
      <4>6. Good(m2, op1, rc1)
        BY <1>3, <4>4, <4>5, GoodDid
      <4>7. CASE q.err = "ok"
        BY <4>1, <4>6, <4>7, RetIs DEF m2
      <4>8. CASE q.err # "ok"
        BY <4>1, <4>4, <4>6, <4>8 DEF m2
      <4> QED BY <4>7, <4>8
    <3> QED BY <2>1, <3>1, <3>2
  <2>3. CASE p.err = "ok"
    <3>1. o = p /\ p.val[1] = ino
      BY <2>1, <2>2, <2>3
    <3> QED BY <2>2, <2>3, <3>1 DEF OpenedFile
  <2>4. CASE p.err # "ok"
    <3> DEFINE m2 == p.m
    <3>1. PICK c \in DecopenDecref(m2, ino) :
             o = IF c.err = "panic" THEN c ELSE [p EXCEPT !.m = c.m]
      BY <2>1, <2>2, <2>4
    <3>2. Good(m2, Up(op, ino), Up(rc, ino))
      BY <2>2
    <3> HIDE DEF m2
    <3>3. Released(m2, c, op, rc)
      BY <1>2, <3>1, <3>2, DecopenDecrefIs
    <3>4. c.err = "ok" /\ Good(c.m, op, rc)
      BY <3>3 DEF Released
    <3>5. o = [p EXCEPT !.m = c.m]
      BY <3>1, <3>4
    <3>6. IsOutcome(o) /\ o.err = p.err /\ o.m = c.m
      BY <2>2, <3>5 DEF IsOutcome
    <3> QED BY <2>2, <2>4, <3>4, <3>6 DEF Failed
  <2> QED BY <2>3, <2>4
<1> QED BY <1>1, <1>4, <1>5, <1>6

LEMMA VfsOpenIs ==
    ASSUME NEW m, NEW op, NEW rc, Good(m, op, rc), Counts(op, rc),
           NEW name \in Names, NEW f, NEW o \in VfsOpen(m, name, f)
    PROVE  Died(o) \/ Failed(o, op, rc) \/ OpenedFile(o, op, rc)
<1>1. PICK p : /\ Creating(m, p, name, f.excl) \/ p \in Lookup(m, name)
               /\ IF p.err = "ok" THEN o \in Opened(p.m, p.val[1], f) ELSE o = p
  <2>1. PICK p \in IF f.creat
                   THEN UNION {IF q.err = "ok"
                               THEN UNION {IF r.err = "panic" THEN {r}
                                           ELSE {IF c.err = "panic" THEN c
                                                 ELSE [r EXCEPT !.m = c.m] :
                                                    c \in Decref(r.m, Root)} :
                                              r \in Creat(q.m, name, f.excl)}
                               ELSE {q} : q \in GetRoot(m)}
                   ELSE Lookup(m, name) :
           o \in IF p.err = "ok" THEN Opened(p.m, p.val[1], f) ELSE {p}
    BY DEF VfsOpen, InRoot, Then, Finally
  <2>2. Creating(m, p, name, f.excl) \/ p \in Lookup(m, name)
    BY <2>1 DEF Creating, Closing
  <2> QED BY <2>1, <2>2
<1>2. Sought(p, op, rc)
  <2>1. CASE Creating(m, p, name, f.excl)
    <3> DEFINE excl == f.excl
    <3>1. Creating(m, p, name, excl)
      BY <2>1
    <3> HIDE DEF excl
    <3> QED BY <3>1, CreatingIs
  <2>2. CASE p \in Lookup(m, name)
    BY <2>2, LookupIs
  <2> QED BY <1>1, <2>1, <2>2
<1>3. CASE p.err # "ok"
  BY <1>1, <1>2, <1>3 DEF Sought, Referred
<1>4. CASE p.err = "ok"
  <2> DEFINE m1 == p.m
             ino == p.val[1]
  <2>1. ino \in Block \ {0, Root} /\ Good(m1, op, Up(rc, ino))
    BY <1>2, <1>4 DEF Sought, Died, Failed, Referred
  <2>2. o \in Opened(m1, ino, f)
    BY <1>1, <1>4
  <2> HIDE DEF m1, ino
  <2> QED BY <2>1, <2>2, OpenedIs
<1> QED BY <1>3, <1>4

(* vfs_remove, vfs_rename and vfs_link *)
Ended(o, op, rc) == Died(o) \/ Done(o, op, rc)

LEMMA VfsRemoveIs ==
    ASSUME NEW m, NEW op, NEW rc, Good(m, op, rc), Counts(op, rc),
           NEW name, NEW o \in VfsRemove(m, name)
    PROVE  Ended(o, op, rc)
<1>1. PICK p \in GetRoot(m) :
         IF p.err = "ok" THEN \E r \in SfsRemove(p.m, name) : Closing(o, r, Root)
         ELSE o = p
  <2>1. PICK p \in GetRoot(m) :
           o \in IF p.err = "ok"
                 THEN UNION {IF r.err = "panic" THEN {r}
                             ELSE {IF c.err = "panic" THEN c ELSE [r EXCEPT !.m = c.m] :
                                      c \in Decref(r.m, Root)} : r \in SfsRemove(p.m, name)}
                 ELSE {p}
    BY DEF VfsRemove, InRoot, Then, Finally
  <2> QED BY <2>1 DEF Closing
<1> DEFINE rc1 == Up(rc, Root)
<1>2. /\ p.err # "ok" => Died(p)
      /\ p.err = "ok" => Good(p.m, op, rc1)
      /\ Counts(op, rc1) /\ rc1[Root] # 0
  BY <1>1, RootEntered
<1>3. CASE p.err # "ok"
  BY <1>1, <1>2, <1>3 DEF Ended
<1>4. CASE p.err = "ok"
  <2>1. PICK r \in SfsRemove(p.m, name) : Closing(o, r, Root)
    BY <1>1, <1>4
  <2> HIDE DEF rc1
  <2>2. Done(r, op, rc1)
    BY <1>2, <1>4, <2>1, SfsRemoveIs
  <2> QED BY <2>1, <2>2, RootLeft DEF Ended, rc1
<1> QED BY <1>3, <1>4

Renaming(m, o, n1, n2) ==
    \E p \in GetRoot(m) :
       IF p.err = "ok" THEN \E r \in SfsRename(p.m, n1, n2) : Closing(o, r, Root)
       ELSE o = p

LEMMA RenamingIs ==
    ASSUME NEW m, NEW op, NEW rc, Good(m, op, rc), Counts(op, rc), rc[Root] # 0,
           NEW n1, NEW n2 \in Names, NEW o, Renaming(m, o, n1, n2)
    PROVE  Ended(o, op, rc)
<1>1. PICK p \in GetRoot(m) :
         IF p.err = "ok" THEN \E r \in SfsRename(p.m, n1, n2) : Closing(o, r, Root)
         ELSE o = p
  BY DEF Renaming
<1> DEFINE rc1 == Up(rc, Root)
<1>2. /\ p.err # "ok" => Died(p)
      /\ p.err = "ok" => Good(p.m, op, rc1)
      /\ Counts(op, rc1) /\ rc1[Root] # 0
  BY <1>1, RootEntered
<1>3. CASE p.err # "ok"
  BY <1>1, <1>2, <1>3 DEF Ended
<1>4. CASE p.err = "ok"
  <2>1. PICK r \in SfsRename(p.m, n1, n2) : Closing(o, r, Root)
    BY <1>1, <1>4
  <2> HIDE DEF rc1
  <2>2. Ended(r, op, rc1)
    BY <1>2, <1>4, <2>1, SfsRenameIs DEF Ended
  <2> QED BY <2>1, <2>2, RootLeft DEF Ended, rc1
<1> QED BY <1>3, <1>4

LEMMA VfsRenameIs ==
    ASSUME NEW m, NEW op, NEW rc, Good(m, op, rc), Counts(op, rc),
           NEW n1, NEW n2 \in Names, NEW o \in VfsRename(m, n1, n2)
    PROVE  Ended(o, op, rc)
<1>1. PICK p \in GetRoot(m) :
         IF p.err = "ok" THEN \E r : Renaming(p.m, r, n1, n2) /\ Closing(o, r, Root)
         ELSE o = p
  <2>1. PICK p \in GetRoot(m) :
           o \in IF p.err = "ok"
                 THEN UNION {IF r.err = "panic" THEN {r}
                             ELSE {IF c.err = "panic" THEN c ELSE [r EXCEPT !.m = c.m] :
                                      c \in Decref(r.m, Root)} :
                        r \in UNION {IF q.err = "ok"
                                     THEN UNION {IF s.err = "panic" THEN {s}
                                                 ELSE {IF c.err = "panic" THEN c
                                                       ELSE [s EXCEPT !.m = c.m] :
                                                          c \in Decref(s.m, Root)} :
                                                    s \in SfsRename(q.m, n1, n2)}
                                     ELSE {q} : q \in GetRoot(p.m)}}
                 ELSE {p}
    BY DEF VfsRename, InRoot, Then, Finally
  <2>2. CASE p.err # "ok"
    BY <2>1, <2>2
  <2>3. CASE p.err = "ok"
    <3>1. PICK r \in UNION {IF q.err = "ok"
                            THEN UNION {IF s.err = "panic" THEN {s}
                                        ELSE {IF c.err = "panic" THEN c
                                              ELSE [s EXCEPT !.m = c.m] :
                                                 c \in Decref(s.m, Root)} :
                                           s \in SfsRename(q.m, n1, n2)}
                            ELSE {q} : q \in GetRoot(p.m)} : Closing(o, r, Root)
      BY <2>1, <2>3 DEF Closing
    <3>2. Renaming(p.m, r, n1, n2)
      BY <3>1 DEF Renaming, Closing
    <3> QED BY <2>1, <2>3, <3>1, <3>2
  <2> QED BY <2>2, <2>3
<1> DEFINE rc1 == Up(rc, Root)
<1>2. /\ p.err # "ok" => Died(p)
      /\ p.err = "ok" => Good(p.m, op, rc1)
      /\ Counts(op, rc1) /\ rc1[Root] # 0
  BY <1>1, RootEntered
<1>3. CASE p.err # "ok"
  BY <1>1, <1>2, <1>3 DEF Ended
<1>4. CASE p.err = "ok"
  <2>1. PICK r : Renaming(p.m, r, n1, n2) /\ Closing(o, r, Root)
    BY <1>1, <1>4
  <2> HIDE DEF rc1
  <2>2. Ended(r, op, rc1)
    BY <1>2, <1>4, <2>1, RenamingIs
  <2> QED BY <2>1, <2>2, RootLeft DEF Ended, rc1
<1> QED BY <1>3, <1>4

Linking(m, o, name, ino) ==
    \E p \in GetRoot(m) :
       IF p.err = "ok" THEN \E r \in SfsLink(p.m, name, ino) : Closing(o, r, Root)
       ELSE o = p

LEMMA LinkingIs ==
    ASSUME NEW m, NEW op, NEW rc, Good(m, op, rc), Counts(op, rc),
           NEW ino \in Block \ {0, Root}, rc[ino] # 0,
           NEW name \in Names, NEW o, Linking(m, o, name, ino)
    PROVE  Ended(o, op, rc)
<1>1. PICK p \in GetRoot(m) :
         IF p.err = "ok" THEN \E r \in SfsLink(p.m, name, ino) : Closing(o, r, Root)
         ELSE o = p
  BY DEF Linking
<1> DEFINE rc1 == Up(rc, Root)
<1>2. /\ p.err # "ok" => Died(p)
      /\ p.err = "ok" => Good(p.m, op, rc1)
      /\ Counts(op, rc1) /\ rc1[Root] # 0 /\ rc1[ino] # 0
  <2>1. rc \in [Block -> Nat] /\ Root \in Block /\ ino \in Block
    BY BlockFacts DEF Counts
  <2>2. rc1[ino] # 0
    BY <2>1, UpIs
  <2> QED BY <1>1, <2>2, RootEntered
<1>3. CASE p.err # "ok"
  BY <1>1, <1>2, <1>3 DEF Ended
<1>4. CASE p.err = "ok"
  <2>1. PICK r \in SfsLink(p.m, name, ino) : Closing(o, r, Root)
    BY <1>1, <1>4
  <2> HIDE DEF rc1
  <2>2. Done(r, op, rc1)
    BY <1>2, <1>4, <2>1, SfsLinkIs
  <2> QED BY <2>1, <2>2, RootLeft DEF Ended, rc1
<1> QED BY <1>3, <1>4

LEMMA VfsLinkIs ==
    ASSUME NEW m, NEW op, NEW rc, Good(m, op, rc), Counts(op, rc),
           NEW n1, NEW n2 \in Names, NEW o \in VfsLink(m, n1, n2)
    PROVE  Ended(o, op, rc)
<1>1. PICK p \in Lookup(m, n1) :
         IF p.err = "ok" THEN \E r : Linking(p.m, r, n2, p.val[1]) /\ Closing(o, r, p.val[1])
         ELSE o = p
  <2>1. PICK p \in Lookup(m, n1) :
           o \in IF p.err = "ok"
                 THEN UNION {IF r.err = "panic" THEN {r}
                             ELSE {IF c.err = "panic" THEN c ELSE [r EXCEPT !.m = c.m] :
                                      c \in Decref(r.m, p.val[1])} :
                        r \in UNION {IF q.err = "ok"
                                     THEN UNION {IF s.err = "panic" THEN {s}
                                                 ELSE {IF c.err = "panic" THEN c
                                                       ELSE [s EXCEPT !.m = c.m] :
                                                          c \in Decref(s.m, Root)} :
                                                    s \in SfsLink(q.m, n2, p.val[1])}
                                     ELSE {q} : q \in GetRoot(p.m)}}
                 ELSE {p}
    BY DEF VfsLink, InRoot, Then, Finally
  <2>2. CASE p.err # "ok"
    BY <2>1, <2>2
  <2>3. CASE p.err = "ok"
    <3>1. PICK r \in UNION {IF q.err = "ok"
                            THEN UNION {IF s.err = "panic" THEN {s}
                                        ELSE {IF c.err = "panic" THEN c
                                              ELSE [s EXCEPT !.m = c.m] :
                                                 c \in Decref(s.m, Root)} :
                                           s \in SfsLink(q.m, n2, p.val[1])}
                            ELSE {q} : q \in GetRoot(p.m)} : Closing(o, r, p.val[1])
      BY <2>1, <2>3 DEF Closing
    <3>2. Linking(p.m, r, n2, p.val[1])
      BY <3>1 DEF Linking, Closing
    <3> QED BY <2>1, <2>3, <3>1, <3>2
  <2> QED BY <2>2, <2>3
<1>2. Sought(p, op, rc)
  BY <1>1, LookupIs
<1>3. CASE p.err # "ok"
  BY <1>1, <1>2, <1>3 DEF Sought, Failed, Referred, Ended, Done
<1>4. CASE p.err = "ok"
  <2> DEFINE m1 == p.m
             ino == p.val[1]
             rc1 == Up(rc, ino)
  <2>1. ino \in Block \ {0, Root} /\ Good(m1, op, rc1)
    BY <1>2, <1>4 DEF Sought, Died, Failed, Referred
  <2>2. PICK r : Linking(m1, r, n2, ino) /\ Closing(o, r, ino)
    BY <1>1, <1>4
  <2> HIDE DEF m1, ino
  <2>3. Counts(op, rc1) /\ rc1[ino] # 0
    <3>1. rc \in [Block -> Nat] /\ ino \in Block
      BY <2>1 DEF Counts
    <3> QED BY <3>1, UpIs, CountsUp
  <2> HIDE DEF rc1
  <2>4. Ended(r, op, rc1)
    BY <2>1, <2>2, <2>3, LinkingIs
  <2>5. CASE Died(r)
    BY <2>2, <2>5 DEF Died, Closing, Ended
  <2>6. CASE Done(r, op, rc1)
    <3>1. Closed(o, r, op, rc)
      <4>1. /\ ino \in Block \ {0} /\ IsOutcome(r) /\ r.err # "panic"
            /\ Good(r.m, op, Up(rc, ino)) /\ Closing(o, r, ino)
        BY <2>1, <2>2, <2>6 DEF Done, rc1
      <4> QED BY <4>1, ClosingIs
    <3> QED BY <2>6, <3>1 DEF Closed, Done, Ended
  <2> QED BY <2>4, <2>5, <2>6 DEF Ended
<1> QED BY <1>3, <1>4

------------------------------------------------------------------------------
(* sfs_sync: the disk holds every inode and the free map.                   *)
Clean(m, m2) ==
    /\ m2.up = m.up /\ m2.used = m.used /\ m2.lost = m.lost /\ ~m2.mapdirty
    /\ DOMAIN m2.vn = DOMAIN m.vn
    /\ \A i \in DOMAIN m.vn :
          /\ m2.vn[i].i = m.vn[i].i /\ ~m2.vn[i].dirty
          /\ m2.vn[i].refcount = m.vn[i].refcount
          /\ m2.vn[i].opencount = m.vn[i].opencount

LEMMA SyncIs ==
    ASSUME NEW m, NEW L, NEW H, Sound(m, L, H), NEW m2, m2 = Sync(m)
    PROVE  SameFiles(m, m2, L, H) /\ Clean(m, m2)
<1>1. /\ IsState(m) /\ m.panic = "no" /\ DOMAIN m.vn \subseteq L /\ L \subseteq Block
      /\ Truthful(m) /\ m.disk[Map].k = "map" /\ {Super, Map} \cap L = {}
      /\ \A i \in L : i \notin DOMAIN m.vn => m.disk[i].k = "inode"
  BY DEF Sound, Divided, WellFormed
<1>2. /\ m.vn \in [DOMAIN m.vn -> Vnode] /\ m.used \in SUBSET Block
      /\ m.disk \in [Block -> Content] /\ DOMAIN m.vn \subseteq Block
  BY <1>1 DEF IsState
<1> DEFINE c(i) == InodeBlock(m.vn[i].i)
           d2 == [b \in Block |-> IF b \in DOMAIN m.vn /\ m.vn[b].dirty THEN c(b)
                                  ELSE IF b = Map /\ m.mapdirty THEN MapBlock(m.used)
                                  ELSE m.disk[b]]
           v2 == [i \in DOMAIN m.vn |-> [m.vn[i] EXCEPT !.dirty = FALSE]]
<1>3. \A i \in DOMAIN m.vn : c(i) \in Content /\ AsInode(c(i)) = m.vn[i].i /\ c(i).k = "inode"
  <2>1. \A i \in DOMAIN m.vn : m.vn[i].i \in Inode
    BY <1>2 DEF Vnode
  <2> QED BY <2>1, ContentIntro
<1>4. MapBlock(m.used) \in Content /\ MapBlock(m.used).k = "map"
  BY <1>2, ContentIntro
<1>5. /\ m2.disk = d2 /\ m2.vn = v2 /\ m2.mapdirty = FALSE
      /\ m2.up = m.up /\ m2.used = m.used /\ m2.lost = m.lost /\ m2.panic = m.panic
      /\ m2 \in [up : {m.up}, disk : {d2}, used : {m.used}, mapdirty : {FALSE},
                 vn : {v2}, lost : {m.lost}, panic : {m.panic}]
  BY <1>1 DEF Sync, IsState
<1>6. d2 \in [Block -> Content]
  BY <1>2, <1>3, <1>4
<1>7. /\ v2 \in [DOMAIN m.vn -> Vnode] /\ DOMAIN v2 = DOMAIN m.vn
      /\ \A i \in DOMAIN m.vn :
            /\ v2[i].i = m.vn[i].i /\ ~v2[i].dirty
            /\ v2[i].refcount = m.vn[i].refcount
            /\ v2[i].opencount = m.vn[i].opencount
  BY <1>2 DEF Vnode
<1> HIDE DEF v2
<1>8. IsState(m2)
  BY <1>1, <1>2, <1>5, <1>6, <1>7 DEF IsState
<1>9. Clean(m, m2)
  BY <1>5, <1>7 DEF Clean
<1>10. /\ \A i \in DOMAIN m.vn : m2.disk[i] = c(i)
       /\ m2.disk[Map] = MapBlock(m.used)
       /\ \A b \in Block \ DOMAIN m.vn : b # Map => m2.disk[b] = m.disk[b]
  <2>1. Map \in Block /\ Map \notin DOMAIN m.vn
    BY <1>1, BlockFacts
  <2>2. d2[Map] = MapBlock(m.used)
    BY <1>1, <2>1 DEF Truthful
  <2>3. ASSUME NEW i \in DOMAIN m.vn PROVE d2[i] = c(i)
    BY <1>1, <1>2, <2>1 DEF Truthful
  <2> QED BY <1>5, <2>2, <2>3
<1> HIDE DEF d2, c
<1>11. \A i \in L : InodeOf(m2, i) = InodeOf(m, i)
  <2>1. Map \notin L
    BY <1>1
  <2> QED BY <1>1, <1>5, <1>7, <1>10, <2>1 DEF InodeOf
<1>12. ASSUME NEW i \in L \ DOMAIN m2.vn PROVE m2.disk[i].k = "inode"
  <2>1. i # Map /\ i \in Block \ DOMAIN m.vn /\ i \in L
    BY <1>1, <1>5, <1>7
  <2>2. m2.disk[i] = m.disk[i]
    BY <1>10, <2>1
  <2> QED BY <1>1, <2>1, <2>2
<1>13. Truthful(m2)
  BY <1>5, <1>7, <1>10 DEF Truthful, c
<1>14. SameFiles(m, m2, L, H)
  <2>1. /\ m2.panic = "no" /\ m2.used = m.used /\ DOMAIN m2.vn \subseteq L
        /\ \A b \in Block \ L : b # Map => m2.disk[b] = m.disk[b]
        /\ m2.disk[Map].k = "map"
    BY <1>1, <1>4, <1>5, <1>7, <1>10
  <2> QED BY <1>8, <1>11, <1>12, <1>13, <2>1, SameInodes
<1> QED BY <1>9, <1>14

LEMMA GoodSynced ==
    ASSUME NEW m, NEW op, NEW rc, Good(m, op, rc), NEW m2, m2 = Sync(m)
    PROVE  Good(m2, op, rc) /\ Clean(m, m2) /\ m2.disk[Map] = MapBlock(m2.used)
<1>1. Sound(m, Live(m), m.lost) /\ Refs(m, op, rc)
  BY DEF Good
<1>2. SameFiles(m, m2, Live(m), m.lost) /\ Clean(m, m2)
  BY <1>1, SyncIs
<1>3. {Root} \cup DOMAIN m2.vn \cup Named(m) = Live(m)
  BY <1>2 DEF Live, Clean
<1>4. Refs(m2, op, rc)
  BY <1>1, <1>2 DEF Refs, Clean
<1>5. Good(m2, op, rc)
  BY <1>2, <1>3, <1>4, GoodSame DEF Clean
<1>6. Truthful(m2)
  BY <1>2 DEF SameFiles, Sound
<1> QED BY <1>2, <1>5, <1>6 DEF Truthful, Clean

(* A volume that is not mounted is a sound one once it is.                  *)
None0 == [i \in Block |-> 0]
Mounted(m) == [m EXCEPT !.up = TRUE, !.used = m.disk[Map].used]
Down(m) == m.vn = << >> /\ Good(Mounted(m), None0, None0)

LEMMA RefsNone ==
    ASSUME NEW m, m.vn = << >>
    PROVE  DOMAIN m.vn = {} /\ Refs(m, None0, None0)
<1>1. DOMAIN m.vn = {}
  OBVIOUS
<1> QED BY <1>1 DEF Refs, None0

LEMMA UnmountIs ==
    ASSUME NEW m, NEW op, NEW rc, Good(m, op, rc), Counts(op, rc),
           NEW o \in VfsUnmount(m)
    PROVE  \/ Failed(o, op, rc)
           \/ /\ IsOutcome(o) /\ o.err = "ok" /\ ~o.m.up /\ o.m.panic = "no"
              /\ Down(o.m) /\ \A i \in Block \ {0} : rc[i] = 0
<1> DEFINE m1 == Sync(m)
<1>1. o \in IF m1.vn # << >> THEN Fail(m1, "EBUSY") ELSE Ret(Forget(m1), <<>>)
  BY DEF VfsUnmount
<1>2. Good(m1, op, rc) /\ Clean(m, m1) /\ m1.disk[Map] = MapBlock(m1.used)
  BY GoodSynced
<1> HIDE DEF m1
<1>3. CASE m1.vn # << >>
  BY <1>1, <1>2, <1>3, FailIs DEF Failed
<1>4. CASE m1.vn = << >>
  <2> DEFINE m2 == Forget(m1)
  <2>1. IsOutcome(o) /\ o.m = m2 /\ o.err = "ok"
    BY <1>1, <1>4, RetIs
  <2>2. IsState(m1) /\ m1.up /\ m1.panic = "no" /\ ~m1.mapdirty
    BY <1>2, GoodIs DEF Clean
  <2>3. /\ ~m2.up /\ m2.panic = "no" /\ m2.vn = << >>
        /\ Mounted(m2) = m1
    <3>1. MapBlock(m1.used).used = m1.used
      BY DEF MapBlock
    <3>2. /\ m2 = [m1 EXCEPT !.up = FALSE, !.used = {}, !.mapdirty = FALSE, !.vn = << >>]
          /\ m1.mapdirty = FALSE /\ m1.up = TRUE
      BY <2>2 DEF Forget, IsState
    <3>3. ~m2.up /\ m2.panic = "no" /\ m2.vn = << >> /\ m2.disk = m1.disk
      BY <2>2, <3>2 DEF IsState
    <3>4. Mounted(m2) = m1
      BY <1>2, <1>4, <2>2, <3>1, <3>2, <3>3 DEF Mounted, IsState
    <3> QED BY <3>3, <3>4
  <2> HIDE DEF m2
  <2>4. DOMAIN m1.vn = {} /\ Refs(m1, None0, None0)
    BY <1>4, RefsNone
  <2>5. Good(m1, None0, None0)
    BY <1>2, <2>4 DEF Good
  <2>6. \A i \in Block \ {0} : rc[i] = 0
    BY <1>2, <2>4 DEF Good, Refs
  <2> QED BY <2>1, <2>3, <2>5, <2>6 DEF Down
<1> QED BY <1>3, <1>4

LEMMA MountIs ==
    ASSUME NEW m, Down(m), m.panic = "no", NEW o \in VfsMount(m)
    PROVE  /\ IsOutcome(o) /\ o.err # "panic"
           /\ o.err = "ok" => o.m = Mounted(m)
           /\ o.err # "ok" => o.m = m
<1>1. Good(Mounted(m), None0, None0)
  BY DEF Down
<1> DEFINE m1 == Mounted(m)
<1>2. IsState(m1) /\ m1.disk[Super].k = "super" /\ m1.disk[Map].k = "map"
  BY <1>1 DEF Good, Sound
<1>3. m1.disk = m.disk
  BY <1>2 DEF Mounted, IsState
<1>4. PICK p \in Rblock(m, Super, "super") \union (IF Faulty THEN Fail(m, "ENOMEM") ELSE {}) :
         IF p.err = "ok"
         THEN \E q \in Rblock(p.m, Map, "map") :
                 IF q.err = "ok" THEN o \in Ret(Mounted(q.m), <<>>) ELSE o = q
         ELSE o = p
  <2>1. PICK p \in Rblock(m, Super, "super")
                      \union (IF Faulty THEN Fail(m, "ENOMEM") ELSE {}) :
           o \in IF p.err = "ok"
                 THEN UNION {IF q.err = "ok"
                             THEN Ret([q.m EXCEPT !.up = TRUE, !.used = q.m.disk[Map].used], <<>>)
                             ELSE {q} : q \in Rblock(p.m, Map, "map")}
                 ELSE {p}
    BY DEF VfsMount, Then
  <2> QED BY <2>1 DEF Mounted
<1>5. IsOutcome(p) /\ p.m = m /\ p.err \in {"ok", "EIO", "ENOMEM"}
  <2>1. CASE p \in Rblock(m, Super, "super")
    BY <1>2, <1>3, <2>1, RblockIs
  <2>2. CASE p \in Fail(m, "ENOMEM")
    BY <2>2, FailIs
  <2> QED BY <1>4, <2>1, <2>2
<1> HIDE DEF m1
<1>6. CASE p.err # "ok"
  BY <1>4, <1>5, <1>6
<1>7. CASE p.err = "ok"
  <2>1. PICK q \in Rblock(m, Map, "map") :
           IF q.err = "ok" THEN o \in Ret(Mounted(q.m), <<>>) ELSE o = q
    BY <1>4, <1>5, <1>7
  <2>2. IsOutcome(q) /\ q.m = m /\ q.err \in {"ok", "EIO"}
    BY <1>2, <1>3, <2>1, RblockIs
  <2>3. CASE q.err = "ok"
    BY <2>1, <2>2, <2>3, RetIs
  <2>4. CASE q.err # "ok"
    BY <2>1, <2>2, <2>4
  <2> QED BY <2>3, <2>4
<1> QED BY <1>6, <1>7

LEMMA NoVnodes == ASSUME NEW V PROVE DOMAIN << >> = {} /\ << >> \in [{} -> V]
BY SMT

(* The machine stops: what had a vnode and no name is lost.                 *)
Abandoned(m, D) == D \cup UNION {Held(m, i) : i \in D}

LEMMA AbandonIs ==
    ASSUME NEW m, NEW op, NEW rc, Good(m, op, rc), ~m.mapdirty,
           \A i \in DOMAIN m.vn : ~m.vn[i].dirty,
           NEW D, D = {i \in DOMAIN m.vn : m.vn[i].i.linkcount = 0},
           NEW m2, m2 = [m EXCEPT !.vn = << >>, !.lost = @ \cup Abandoned(m, D)]
    PROVE  Good(m2, None0, None0)
<1> DEFINE L == Live(m)
           H == m.lost
           L2 == L \ D
           H2 == H \cup Abandoned(m, D)
<1>1. /\ IsState(m) /\ m.panic = "no" /\ m.up = TRUE /\ L \subseteq Block /\ H \subseteq Block
      /\ Root \in L /\ DOMAIN m.vn \subseteq L /\ Divided(m, L, H) /\ Truthful(m)
      /\ m.disk[Super].k = "super" /\ m.disk[Map].k = "map"
      /\ \A i \in L : WellFormed(m, i)
  BY DEF Good, Sound, IsState
<1>2. D \subseteq L /\ L2 = {Root} \cup Named(m) /\ Root \notin D
  <2>1. \A i \in L : InodeOf(m, i).linkcount # 0 <=> i = Root \/ i \in Named(m)
    BY GoodIs
  <2>2. \A i \in DOMAIN m.vn : i \in D <=> InodeOf(m, i).linkcount = 0
    BY DEF InodeOf
  <2>3. D \subseteq L
    BY <1>1
  <2> QED BY <2>1, <2>2, <2>3 DEF Live
<1>3. Abandoned(m, D) \subseteq Block
  <2>1. \A i \in D : Held(m, i) \subseteq Block
    BY <1>1, <1>2, HeldIs
  <2> QED BY <1>1, <1>2, <2>1 DEF Abandoned
<1>4. /\ IsState(m2) /\ m2.disk = m.disk /\ m2.used = m.used /\ m2.mapdirty = m.mapdirty
      /\ m2.up = TRUE /\ m2.panic = "no" /\ m2.lost = H2 /\ m2.vn = << >>
      /\ DOMAIN m2.vn = {}
  <2>1. /\ m2.disk = m.disk /\ m2.used = m.used /\ m2.mapdirty = m.mapdirty
        /\ m2.up = TRUE /\ m2.panic = "no" /\ m2.lost = H2 /\ m2.vn = << >>
        /\ m2 \in [up : {TRUE}, disk : {m.disk}, used : {m.used}, mapdirty : {m.mapdirty},
                   vn : {<< >>}, lost : {H2}, panic : {"no"}]
    BY <1>1 DEF IsState
  <2>2. DOMAIN m2.vn = {} /\ m2.vn \in [{} -> Vnode]
    BY <2>1, NoVnodes
  <2>3. H2 \subseteq Block
    BY <1>1, <1>3
  <2> HIDE DEF H2
  <2> QED BY <1>1, <2>1, <2>2, <2>3 DEF IsState
<1> HIDE DEF H2, L2
<1>5. ASSUME NEW i \in L PROVE InodeOf(m2, i) = InodeOf(m, i) /\ m2.disk[i].k = "inode"
  <2>1. CASE i \in DOMAIN m.vn
    <3>1. m.disk[i] = InodeBlock(m.vn[i].i) /\ m.vn[i].i \in Inode
      BY <1>1, <2>1 DEF Truthful, IsState, Vnode
    <3>2. AsInode(m.disk[i]) = m.vn[i].i /\ m.disk[i].k = "inode"
      BY <3>1, ContentIntro
    <3> QED BY <1>4, <2>1, <3>2 DEF InodeOf
  <2>2. CASE i \notin DOMAIN m.vn
    BY <1>1, <1>4, <2>2 DEF InodeOf, WellFormed
  <2> QED BY <2>1, <2>2
<1>6. ASSUME NEW i \in L PROVE SameFile(m, m2, i)
  <2>1. i \in Block /\ WellFormed(m, i)
    BY <1>1
  <2>2. \A b \in Held(m, i) : m2.disk[b] = m.disk[b]
    BY <1>4
  <2> QED BY <1>1, <1>4, <1>5, <2>1, <2>2, InodeKept
<1>7. \A i \in L : Held(m2, i) = Held(m, i) /\ WellFormed(m2, i)
  BY <1>6 DEF SameFile
<1>8. Divided(m2, L2, H2)
  <2>1. ASSUME NEW b \in Block
        PROVE  b \in m2.used <=> \/ b \in {Super, Map} \/ b \in L2 \/ b \in H2
                                 \/ \E i \in L2 : b \in Held(m2, i)
    <3>1. b \in m.used <=> \/ b \in {Super, Map} \/ b \in L \/ b \in H
                           \/ \E i \in L : b \in Held(m, i)
      BY <1>1 DEF Divided
    <3>2. b \in H2 <=> b \in H \/ b \in D \/ \E i \in D : b \in Held(m, i)
      BY DEF H2, Abandoned
    <3> QED BY <1>2, <1>4, <1>7, <3>1, <3>2 DEF L2
  <2>2. ASSUME NEW b
        PROVE  b \in H2 <=> b \in H \/ b \in D \/ \E i \in D : b \in Held(m, i)
    BY DEF H2, Abandoned
  <2>3. /\ {Super, Map} \cap L = {} /\ {Super, Map} \cap H = {} /\ L \cap H = {}
        /\ \A i \in L : Held(m, i) \cap ({Super, Map} \cup L \cup H) = {}
        /\ \A i, j \in L : i # j => Held(m, i) \cap Held(m, j) = {}
    BY <1>1 DEF Divided
  <2>4. /\ {Super, Map} \cap L2 = {} /\ {Super, Map} \cap H2 = {} /\ L2 \cap H2 = {}
    BY <1>2, <2>2, <2>3 DEF L2
  <2>5. ASSUME NEW i \in L2
        PROVE  Held(m2, i) \cap ({Super, Map} \cup L2 \cup H2) = {}
    <3>1. i \in L /\ i \notin D /\ Held(m2, i) = Held(m, i)
      BY <1>7 DEF L2
    <3>2. ASSUME NEW b \in Held(m, i) PROVE b \notin H2
      <4>1. b \notin D
        BY <1>2, <2>3, <3>1, <3>2
      <4>2. \A j \in D : j \in L /\ j # i
        BY <1>2, <3>1
      <4>3. \A j \in D : b \notin Held(m, j)
        BY <2>3, <3>1, <3>2, <4>2
      <4> QED BY <2>2, <2>3, <3>1, <3>2, <4>1, <4>3
    <3>3. Held(m, i) \cap ({Super, Map} \cup L2) = {}
      BY <2>3, <3>1 DEF L2
    <3> QED BY <3>1, <3>2, <3>3
  <2>6. \A i, j \in L2 : i # j => Held(m2, i) \cap Held(m2, j) = {}
    BY <1>7, <2>3 DEF L2
  <2> QED BY <2>1, <2>4, <2>5, <2>6 DEF Divided
<1>9. Dir(m2) = Dir(m)
  BY <1>1, <1>6 DEF SameFile, Dir
<1>10. Live(m2) = L2 /\ L2 \subseteq L
  <2>1. Named(m2) = Named(m)
    BY <1>9 DEF Named, Entries, Dir
  <2> QED BY <1>2, <1>4, <2>1 DEF Live, L2
<1>11. Sound(m2, L2, H2)
  <2>1. Truthful(m2)
    BY <1>1, <1>4 DEF Truthful
  <2>2. /\ L2 \subseteq Block /\ H2 \subseteq Block /\ Root \in L2 /\ DOMAIN m2.vn \subseteq L2
    BY <1>1, <1>2, <1>3, <1>4 DEF L2, H2
  <2> QED BY <1>1, <1>4, <1>7, <1>8, <1>10, <2>1, <2>2 DEF Sound
<1>12. \A i \in Live(m2) : InodeOf(m2, i).linkcount = InodeOf(m, i).linkcount
  BY <1>5, <1>10
<1>13. Refs(m2, None0, None0)
  BY <1>4, RefsNone
<1> QED BY <1>4, <1>9, <1>10, <1>11, <1>12, <1>13, GoodKept

Orphans(m) == {i \in DOMAIN m.vn : m.vn[i].i.linkcount = 0}

Stopped(m) ==
    [Forget(m) EXCEPT !.lost = @ \union Orphans(m) \union
        UNION {Range(Blocks(m, i)) \ {0} : i \in Orphans(m)}]

LEMMA StopIs ==
    ASSUME NEW m, NEW op, NEW rc, Good(m, op, rc), NEW m1, m1 = Sync(m),
           NEW m2, m2 = Stopped(m1)
    PROVE  ~m2.up /\ m2.panic = "no" /\ Down(m2)
<1>1. Good(m1, op, rc) /\ Clean(m, m1) /\ m1.disk[Map] = MapBlock(m1.used)
  BY GoodSynced
<1>2. IsState(m1) /\ m1.up = TRUE /\ m1.panic = "no" /\ ~m1.mapdirty /\ m1.mapdirty = FALSE
  BY <1>1, GoodIs DEF Clean, IsState
<1> DEFINE D == Orphans(m1)
<1>3. \A i : Range(Blocks(m1, i)) \ {0} = Held(m1, i)
  <2>1. ASSUME NEW i PROVE Range(Blocks(m1, i)) = {Blocks(m1, i)[x] : x \in Place}
    <3>1. DOMAIN Blocks(m1, i) = Place
      BY DEF Blocks, Place
    <3> QED BY <3>1 DEF Range
  <2> QED BY <2>1 DEF Held, BlocksIn
<1> DEFINE new == m1.lost \cup Abandoned(m1, D)
           m3 == [m1 EXCEPT !.vn = << >>, !.lost = @ \cup Abandoned(m1, D)]
<1>4. m1.lost \union D \union UNION {Range(Blocks(m1, i)) \ {0} : i \in D} = new
  BY <1>3 DEF Abandoned
<1>5. m2 = [m1 EXCEPT !.up = FALSE, !.used = {}, !.mapdirty = FALSE, !.vn = << >>,
                      !.lost = new]
  BY <1>2, <1>4 DEF Forget, Stopped, IsState
<1> HIDE DEF new
<1>6. /\ ~m2.up /\ m2.panic = "no" /\ m2.vn = << >> /\ m2.disk = m1.disk
  BY <1>2, <1>5 DEF IsState
<1>7. Mounted(m2) = m3
  <2>1. MapBlock(m1.used).used = m1.used
    BY DEF MapBlock
  <2>2. m2.disk[Map].used = m1.used
    BY <1>1, <1>6, <2>1
  <2>3. m1 \in [up : {TRUE}, disk : {m1.disk}, used : {m1.used}, mapdirty : {FALSE},
                vn : {m1.vn}, lost : {m1.lost}, panic : {"no"}]
    BY <1>2 DEF IsState
  <2>4. m3 = [m1 EXCEPT !.vn = << >>, !.lost = new]
    BY <1>2 DEF IsState, new
  <2> HIDE DEF m3
  <2>5. [m2 EXCEPT !.up = TRUE, !.used = m1.used] = m3
    BY ONLY <1>5, <2>3, <2>4
  <2> QED BY <2>2, <2>5 DEF Mounted
<1>8. Good(m3, None0, None0)
  <2>1. \A i \in DOMAIN m1.vn : ~m1.vn[i].dirty
    BY <1>1 DEF Clean
  <2>2. m3 = [m1 EXCEPT !.vn = << >>, !.lost = @ \cup Abandoned(m1, D)]
    OBVIOUS
  <2>3. D = {i \in DOMAIN m1.vn : m1.vn[i].i.linkcount = 0}
    BY DEF Orphans
  <2> HIDE DEF m3, D
  <2> QED BY <1>1, <1>2, <2>1, <2>2, <2>3, AbandonIs
<1> QED BY <1>6, <1>7, <1>8 DEF Down

------------------------------------------------------------------------------
(* Each descriptor answers for one open count and one reference.            *)
Opens(f) == [i \in Block |-> IF i = 0 THEN 0 ELSE Cardinality({d \in Fds : f[d] = i})]

LEMMA OpensIs ==
    ASSUME NEW f
    PROVE  /\ Counts(Opens(f), Opens(f))
           /\ \A d \in Fds : f[d] \in Block \ {0} => Opens(f)[f[d]] # 0
           /\ (\A i \in Block \ {0} : Opens(f)[i] = 0) =>
                 \A d \in Fds : f[d] \in Block => f[d] = 0
           /\ (\A d \in Fds : f[d] = 0) => Opens(f) = None0
<1> DEFINE On(i) == {d \in Fds : f[d] = i}
<1>1. ASSUME NEW i
      PROVE  /\ IsFiniteSet(On(i)) /\ Cardinality(On(i)) \in Nat
             /\ Cardinality(On(i)) = 0 <=> On(i) = {}
  <2>1. IsFiniteSet(On(i))
    BY CallAssumption, FS_Subset
  <2> QED BY <2>1, FS_CardinalityType, FS_EmptySet
<1>2. \A i \in Block : Opens(f)[i] = IF i = 0 THEN 0 ELSE Cardinality(On(i))
  BY DEF Opens
<1>3. \A d \in Fds : On(f[d]) # {}
  OBVIOUS
<1>4. Opens(f) = [i \in Block |-> IF i = 0 THEN 0 ELSE Cardinality(On(i))]
  BY DEF Opens
<1>5. ASSUME \A d \in Fds : f[d] = 0 PROVE Opens(f) = None0
  <2>1. \A i \in Block \ {0} : On(i) = {}
    BY <1>5
  <2> HIDE DEF On
  <2>2. \A i \in Block : (IF i = 0 THEN 0 ELSE Cardinality(On(i))) = 0
    BY <1>1, <2>1
  <2> QED BY <1>4, <2>2 DEF None0
<1> HIDE DEF On
<1>6. Counts(Opens(f), Opens(f))
  BY <1>1, <1>4 DEF Counts
<1> QED BY <1>1, <1>2, <1>3, <1>5, <1>6

LEMMA OpensUp ==
    ASSUME NEW f \in [Fds -> Block], NEW d \in Fds, f[d] = 0, NEW ino \in Block \ {0},
           NEW f2, f2 = [f EXCEPT ![d] = ino]
    PROVE  Opens(f2) = Up(Opens(f), ino)
<1> DEFINE On(g, i) == {e \in Fds : g[e] = i}
<1>1. /\ On(f2, ino) = On(f, ino) \cup {d} /\ d \notin On(f, ino)
      /\ \A i \in Block \ {0, ino} : On(f2, i) = On(f, i)
  OBVIOUS
<1>2. IsFiniteSet(On(f, ino)) /\ Cardinality(On(f, ino)) \in Nat
  BY CallAssumption, FS_Subset, FS_CardinalityType
<1>3. /\ Opens(f2) = [i \in Block |-> IF i = 0 THEN 0 ELSE Cardinality(On(f2, i))]
      /\ Opens(f) = [i \in Block |-> IF i = 0 THEN 0 ELSE Cardinality(On(f, i))]
  BY DEF Opens
<1> HIDE DEF On
<1>4. Cardinality(On(f2, ino)) = Cardinality(On(f, ino)) + 1
  BY <1>1, <1>2, FS_AddElement
<1> DEFINE n == Opens(f)
           n2 == Opens(f2)
<1>5. n \in [Block -> Nat] /\ n2 \in [Block -> Nat]
  BY OpensIs DEF Counts
<1>6. n2[ino] = n[ino] + 1 /\ \A i \in Block : i # ino => n2[i] = n[i]
  BY <1>1, <1>3, <1>4
<1> HIDE DEF n, n2
<1>7. n2 = [n EXCEPT ![ino] = @ + 1]
  BY <1>5, <1>6
<1> QED BY <1>7 DEF Up, n, n2

(***************************************************************************)
(* The inductive invariant.                                                 *)
(***************************************************************************)
Consistent(m, f) ==
    /\ f \in [Fds -> Block \ {Root}] /\ m.panic \in {"no", "io"}
    /\ m.panic = "no" =>
          IF m.up THEN Good(m, Opens(f), Opens(f))
          ELSE Down(m) /\ \A d \in Fds : f[d] = 0

IInv == Consistent(fs, fd)

LEMMA InitIs ==
    ASSUME Init
    PROVE  IInv
<1> DEFINE zeros == [x \in 0 .. NDirect - 1 |-> 0]
           rt == [NoInode EXCEPT !.type = "dir", !.linkcount = 1]
           used == {Super, Root, Map}
           m == Mounted(fs)
<1>1. /\ rt \in Inode /\ rt.type # "invalid" /\ rt.size = 0 /\ rt.indirect = 0
      /\ rt.linkcount = 1 /\ \A x \in 0 .. NDirect - 1 : rt.direct[x] = 0
  <2>1. zeros \in [0 .. NDirect - 1 -> Block] /\ \A x \in 0 .. NDirect - 1 : zeros[x] = 0
    BY BlockFacts
  <2>2. NoInode = [type |-> "invalid", size |-> 0, linkcount |-> 0, direct |-> zeros,
                   indirect |-> 0]
    BY DEF NoInode
  <2> HIDE DEF zeros
  <2>3. rt \in [type : {"dir"}, size : {0}, linkcount : {1}, direct : {zeros},
                indirect : {0}]
    BY <2>2
  <2> HIDE DEF rt
  <2> QED BY <2>1, <2>3, BlockFacts DEF Inode
<1> HIDE DEF rt, zeros
<1>2. /\ InodeBlock(rt) \in Content /\ AsInode(InodeBlock(rt)) = rt
      /\ InodeBlock(rt).k = "inode"
      /\ MapBlock(used) \in Content /\ MapBlock(used).k = "map"
      /\ MapBlock(used).used = used /\ Cleared \in Content /\ used \subseteq Block
  <2>1. used \in SUBSET Block
    BY BlockFacts
  <2> QED BY <1>1, <2>1, ContentIntro
<1>3. [k |-> "super"] \in Content
  BY DEF Content
<1>4. /\ fs.vn = << >> /\ fs.panic = "no" /\ fs.up = FALSE
      /\ fs \in [up : {FALSE}, disk : {fs.disk}, used : {{}}, mapdirty : {FALSE},
                 vn : {<< >>}, lost : {{}}, panic : {"no"}]
      /\ fs.disk = [b \in Block |->
                      CASE b = Super -> [k |-> "super"]
                        [] b = Root  -> InodeBlock(rt)
                        [] b = Map   -> MapBlock(used)
                        [] OTHER     -> Cleared]
      /\ \A d \in Fds : fd[d] = 0
      /\ fd \in [Fds -> Block \ {Root}]
  BY BlockFacts DEF Init, rt
<1>5. /\ fs.disk \in [Block -> Content] /\ fs.disk[Root] = InodeBlock(rt)
      /\ fs.disk[Map] = MapBlock(used) /\ fs.disk[Super].k = "super"
  BY <1>2, <1>3, <1>4, BlockFacts
<1> HIDE DEF used
<1>6. /\ m \in [up : {TRUE}, disk : {fs.disk}, used : {used}, mapdirty : {FALSE},
                vn : {<< >>}, lost : {{}}, panic : {"no"}]
  BY <1>2, <1>4, <1>5 DEF Mounted
<1> HIDE DEF m
<1>7. /\ IsState(m) /\ m.up = TRUE /\ m.panic = "no" /\ m.disk = fs.disk /\ m.used = used
      /\ m.mapdirty = FALSE /\ m.lost = {} /\ m.vn = << >> /\ DOMAIN m.vn = {}
  BY <1>2, <1>5, <1>6, NoVnodes DEF IsState
<1>8. InodeOf(m, Root) = rt
  BY <1>2, <1>5, <1>7 DEF InodeOf
<1>9. Blocks(m, Root) = [x \in Place |-> 0]
  <2>1. \A x \in Place : x < NDirect => x \in 0 .. NDirect - 1
    BY BlockFacts DEF Place
  <2> QED BY <1>1, <1>8, <2>1 DEF Blocks, Place
<1>10. Held(m, Root) = {} /\ WellFormed(m, Root)
  <2>1. Held(m, Root) = {} /\ Distinct(Blocks(m, Root))
    BY <1>9 DEF Held, BlocksIn, Distinct
  <2>2. \A x \in DataPlace : Blocks(m, Root)[x] = 0
    BY <1>9 DEF DataPlace
  <2>3. 0 <= MaxSize
    BY BlockFacts DEF MaxSize
  <2>4. m.disk[Root].k = "inode"
    BY <1>2, <1>5, <1>7
  <2> QED BY <1>1, <1>8, <2>1, <2>2, <2>3, <2>4 DEF WellFormed
<1>11. DOMAIN Dir(m) = {}
  BY <1>1, <1>8 DEF Dir, Units
<1>12. Named(m) = {} /\ Entries(m) = {} /\ Live(m) = {Root}
  <2>1. Entries(m) = {}
    BY <1>11 DEF Entries, Dir
  <2>2. Named(m) = {}
    BY <2>1 DEF Named
  <2> QED BY <1>7, <2>1, <2>2 DEF Live
<1>13. Sound(m, {Root}, {})
  <2>1. Divided(m, {Root}, {})
    BY <1>7, <1>10, BlockFacts DEF Divided, used
  <2>2. Truthful(m)
    BY <1>5, <1>7 DEF Truthful
  <2> QED BY <1>2, <1>5, <1>7, <1>10, <2>1, <2>2, BlockFacts DEF Sound
<1>14. Good(m, None0, None0)
  <2>1. DirOK(m)
    BY <1>11, <1>12 DEF DirOK
  <2>2. Links(m)
    BY <1>1, <1>8, <1>12 DEF Links
  <2>3. Refs(m, None0, None0)
    BY <1>7, RefsNone
  <2> QED BY <1>7, <1>12, <1>13, <2>1, <2>2, <2>3 DEF Good
<1> QED BY <1>4, <1>14 DEF IInv, Consistent, Down, m

LEMMA ConsistentIs ==
    ASSUME NEW m, NEW f \in [Fds -> Block \ {Root}], Good(m, Opens(f), Opens(f))
    PROVE  Consistent(m, f)
<1>1. m.up /\ m.panic = "no"
  BY GoodIs
<1> QED BY <1>1 DEF Consistent

LEMMA RunningIs ==
    ASSUME NEW m, NEW f, Consistent(m, f), m.up, m.panic = "no"
    PROVE  /\ f \in [Fds -> Block \ {Root}] /\ f \in [Fds -> Block]
           /\ Good(m, Opens(f), Opens(f)) /\ Counts(Opens(f), Opens(f))
           /\ \A d \in Fds : f[d] # 0 =>
                 f[d] \in Block \ {0, Root} /\ Opens(f)[f[d]] # 0
BY OpensIs DEF Consistent

LEMMA EndedKeeps ==
    ASSUME NEW f \in [Fds -> Block \ {Root}], NEW o, Ended(o, Opens(f), Opens(f))
    PROVE  Consistent(o.m, f)
<1>1. CASE Died(o)
  BY <1>1 DEF Died, Consistent
<1>2. CASE Done(o, Opens(f), Opens(f))
  BY <1>2, ConsistentIs DEF Done
<1> QED BY <1>1, <1>2 DEF Ended

LEMMA OpenKeeps ==
    ASSUME NEW m, NEW f, Consistent(m, f), m.up, m.panic = "no",
           NEW d \in Fds, f[d] = 0, NEW name \in Names, NEW fl,
           NEW o \in VfsOpen(m, name, fl), NEW f2,
           f2 = IF o.err = "ok" THEN [f EXCEPT ![d] = o.val[1]] ELSE f
    PROVE  Consistent(o.m, f2)
<1> DEFINE op == Opens(f)
<1>1. /\ f \in [Fds -> Block \ {Root}] /\ f \in [Fds -> Block]
      /\ Good(m, op, op) /\ Counts(op, op)
  BY RunningIs
<1>2. Died(o) \/ Failed(o, op, op) \/ OpenedFile(o, op, op)
  <2> HIDE DEF op
  <2> QED BY <1>1, VfsOpenIs
<1>3. CASE Died(o)
  <2>1. f2 = f
    BY <1>3 DEF Died
  <2> QED BY <1>1, <1>3, <2>1 DEF Died, Consistent
<1>4. CASE Failed(o, op, op)
  <2>1. f2 = f
    BY <1>4 DEF Failed
  <2> QED BY <1>1, <1>4, <2>1, ConsistentIs DEF Failed
<1>5. CASE OpenedFile(o, op, op)
  <2> DEFINE ino == o.val[1]
  <2>1. /\ ino \in Block \ {0, Root} /\ ino \in Block \ {0} /\ o.err = "ok"
        /\ Good(o.m, Up(op, ino), Up(op, ino))
    BY <1>5 DEF OpenedFile
  <2>2. f2 = [f EXCEPT ![d] = ino]
    BY <2>1
  <2> HIDE DEF ino
  <2>3. f2 \in [Fds -> Block \ {Root}]
    BY <1>1, <2>1, <2>2
  <2>4. Opens(f2) = Up(op, ino)
    <3>1. f \in [Fds -> Block] /\ d \in Fds /\ f[d] = 0
      BY <1>1
    <3>2. ino \in Block \ {0} /\ f2 = [f EXCEPT ![d] = ino]
      BY <2>1, <2>2
    <3> QED BY ONLY <3>1, <3>2, OpensUp
  <2> QED BY <2>1, <2>3, <2>4, ConsistentIs
<1> QED BY <1>2, <1>3, <1>4, <1>5

LEMMA CloseKeeps ==
    ASSUME NEW m, NEW f, Consistent(m, f), m.up, m.panic = "no",
           NEW d \in Fds, f[d] # 0, NEW o \in DecopenDecref(m, f[d]),
           NEW f2, f2 = [f EXCEPT ![d] = 0]
    PROVE  Consistent(o.m, f2)
<1> DEFINE ino == f[d]
           op == Opens(f2)
<1>1. /\ f \in [Fds -> Block \ {Root}] /\ Good(m, Opens(f), Opens(f))
      /\ ino \in Block \ {0} /\ o \in DecopenDecref(m, ino)
  BY RunningIs
<1>2. f2 \in [Fds -> Block \ {Root}] /\ f2 \in [Fds -> Block] /\ f2[d] = 0
  BY <1>1, BlockFacts
<1>3. f = [f2 EXCEPT ![d] = ino]
  BY <1>1
<1> HIDE DEF ino
<1>4. Opens(f) = Up(op, ino) /\ Counts(op, op)
  BY <1>1, <1>2, <1>3, OpensUp, OpensIs
<1> HIDE DEF op
<1>5. Released(m, o, op, op)
  BY <1>1, <1>4, DecopenDecrefIs
<1> QED BY <1>2, <1>5, ConsistentIs DEF Released, op

LEMMA WriteKeeps ==
    ASSUME NEW m, NEW f, Consistent(m, f), m.up, m.panic = "no",
           NEW d \in Fds, f[d] # 0, NEW x \in Transfers, NEW v \in Values,
           NEW o \in Io(m, f[d], x.off, x.len, v)
    PROVE  Consistent(o.m, f)
<1> DEFINE ino == f[d]
           op == Opens(f)
           off == x.off
           len == x.len
           m2 == o.m
<1>1. /\ f \in [Fds -> Block \ {Root}] /\ Good(m, op, op)
      /\ ino \in Block \ {0, Root} /\ op[ino] # 0 /\ o \in Io(m, ino, off, len, v)
  BY RunningIs
<1>2. off \in Nat /\ len \in Nat \ {0}
  BY CallAssumption
<1>3. v \in Unit
  BY DEF Unit
<1> HIDE DEF ino, op, off, len
<1>4. Sound(m, Live(m), m.lost) /\ ino \in DOMAIN m.vn
  BY <1>1 DEF Good, Refs
<1>5. Did(m, m2, Live(m), m.lost, ino)
  BY <1>1, <1>2, <1>3, <1>4, IoDid
<1> HIDE DEF m2
<1>6. Good(m2, op, op)
  BY <1>1, <1>4, <1>5, GoodDid
<1> QED BY <1>1, <1>6, ConsistentIs DEF op, m2

LEMMA UnmountKeeps ==
    ASSUME NEW m, NEW f, Consistent(m, f), m.up, m.panic = "no",
           NEW o \in VfsUnmount(m)
    PROVE  Consistent(o.m, f)
<1> DEFINE op == Opens(f)
<1>1. f \in [Fds -> Block \ {Root}] /\ Good(m, op, op) /\ Counts(op, op)
  BY RunningIs
<1> HIDE DEF op
<1>2. \/ Failed(o, op, op)
      \/ /\ o.err = "ok" /\ ~o.m.up /\ o.m.panic = "no"
         /\ Down(o.m) /\ \A i \in Block \ {0} : op[i] = 0
  BY <1>1, UnmountIs
<1>3. CASE Failed(o, op, op)
  BY <1>1, <1>3, ConsistentIs DEF Failed, op
<1>4. CASE /\ o.err = "ok" /\ ~o.m.up /\ o.m.panic = "no"
           /\ Down(o.m) /\ \A i \in Block \ {0} : op[i] = 0
  <2>1. \A d \in Fds : f[d] = 0
    BY <1>1, <1>4, OpensIs DEF op
  <2> QED BY <1>1, <1>4, <2>1 DEF Consistent
<1> QED BY <1>2, <1>3, <1>4

LEMMA MountKeeps ==
    ASSUME NEW m, NEW f, Consistent(m, f), ~m.up, m.panic = "no",
           NEW o \in VfsMount(m)
    PROVE  Consistent(o.m, f)
<1>1. f \in [Fds -> Block \ {Root}] /\ Down(m) /\ \A d \in Fds : f[d] = 0
  BY DEF Consistent
<1>2. Opens(f) = None0
  BY <1>1, OpensIs
<1>3. o.m = Mounted(m) \/ o.m = m
  BY <1>1, MountIs
<1>4. Consistent(Mounted(m), f)
  BY <1>1, <1>2, ConsistentIs DEF Down
<1> QED BY <1>3, <1>4

LEMMA SyncKeeps ==
    ASSUME NEW m, NEW f, Consistent(m, f), m.up, m.panic = "no"
    PROVE  Consistent(Sync(m), f)
BY RunningIs, GoodSynced, ConsistentIs

LEMMA StopKeeps ==
    ASSUME NEW m, NEW f, Consistent(m, f), m.up, m.panic = "no",
           NEW m2, m2 = Stopped(Sync(m)), NEW f2, f2 = [d \in Fds |-> 0]
    PROVE  Consistent(m2, f2)
<1>1. Good(m, Opens(f), Opens(f))
  BY RunningIs
<1>2. ~m2.up /\ m2.panic = "no" /\ Down(m2)
  BY <1>1, StopIs
<1>3. f2 \in [Fds -> Block \ {Root}] /\ \A d \in Fds : f2[d] = 0
  BY BlockFacts
<1> QED BY <1>2, <1>3 DEF Consistent

LEMMA NextKeeps ==
    ASSUME IInv, [Next]_vars
    PROVE  IInv'
<1>1. Consistent(fs, fd)
  BY DEF IInv
<1>2. SUFFICES Consistent(fs', fd')
  BY DEF IInv
<1>3. CASE UNCHANGED vars
  BY <1>1, <1>3 DEF vars
<1>4. ASSUME NEW d \in Fds, NEW name \in Names, NEW f \in OpenFlags, Open(d, name, f)
      PROVE  Consistent(fs', fd')
  <2>1. PICK o \in VfsOpen(fs, name, f) :
           /\ fs' = o.m
           /\ fd' = IF o.err = "ok" THEN [fd EXCEPT ![d] = o.val[1]] ELSE fd
    BY <1>4 DEF Open, Return
  <2>2. fs.up /\ fs.panic = "no" /\ fd[d] = 0
    BY <1>4 DEF Open, Running
  <2> QED BY <1>1, <2>1, <2>2, OpenKeeps
<1>5. ASSUME NEW d \in Fds, Close(d) PROVE Consistent(fs', fd')
  <2>1. PICK o \in DecopenDecref(fs, fd[d]) : fs' = o.m /\ fd' = [fd EXCEPT ![d] = 0]
    BY <1>5 DEF Close, Return
  <2>2. fs.up /\ fs.panic = "no" /\ fd[d] # 0
    BY <1>5 DEF Close, Running
  <2> QED BY <1>1, <2>1, <2>2, CloseKeeps
<1>6. ASSUME NEW d \in Fds, NEW x \in Transfers, NEW v \in Values, Write(d, x, v)
      PROVE  Consistent(fs', fd')
  <2>1. PICK o \in Io(fs, fd[d], x.off, x.len, v) : fs' = o.m /\ fd' = fd
    BY <1>6 DEF Write, Return
  <2>2. fs.up /\ fs.panic = "no" /\ fd[d] # 0
    BY <1>6 DEF Write, Running
  <2> QED BY <1>1, <2>1, <2>2, WriteKeeps
<1>7. ASSUME NEW name \in Names, RemoveFile(name) PROVE Consistent(fs', fd')
  <2>1. PICK o \in VfsRemove(fs, name) : fs' = o.m /\ fd' = fd
    BY <1>7 DEF RemoveFile, Return
  <2>2. fs.up /\ fs.panic = "no"
    BY <1>7 DEF RemoveFile, Running
  <2> QED BY <1>1, <2>1, <2>2, RunningIs, VfsRemoveIs, EndedKeeps
<1>8. ASSUME NEW n1 \in Names, NEW n2 \in Names, Rename(n1, n2)
      PROVE  Consistent(fs', fd')
  <2>1. PICK o \in VfsRename(fs, n1, n2) : fs' = o.m /\ fd' = fd
    BY <1>8 DEF Rename, Return
  <2>2. fs.up /\ fs.panic = "no"
    BY <1>8 DEF Rename, Running
  <2> QED BY <1>1, <2>1, <2>2, RunningIs, VfsRenameIs, EndedKeeps
<1>9. ASSUME NEW n1 \in Names, NEW n2 \in Names, Link(n1, n2)
      PROVE  Consistent(fs', fd')
  <2>1. PICK o \in VfsLink(fs, n1, n2) : fs' = o.m /\ fd' = fd
    BY <1>9 DEF Link, Return
  <2>2. fs.up /\ fs.panic = "no"
    BY <1>9 DEF Link, Running
  <2> QED BY <1>1, <2>1, <2>2, RunningIs, VfsLinkIs, EndedKeeps
<1>10. CASE VfsSync
  BY <1>1, <1>10, SyncKeeps DEF VfsSync, Running
<1>11. CASE Unmount
  <2>1. PICK o \in VfsUnmount(fs) : fs' = o.m /\ fd' = fd
    BY <1>11 DEF Unmount, Return
  <2> QED BY <1>1, <1>11, <2>1, UnmountKeeps DEF Unmount, Running
<1>12. CASE Mount
  <2>1. PICK o \in VfsMount(fs) : fs' = o.m /\ fd' = fd
    BY <1>12 DEF Mount, Return
  <2> QED BY <1>1, <1>12, <2>1, MountKeeps DEF Mount
<1>13. CASE Shutdown
  <2>1. /\ fs.up /\ fs.panic = "no" /\ fd' = [d \in Fds |-> 0]
        /\ fs' = Stopped(Sync(fs))
    BY <1>13 DEF Shutdown, Running, Stopped, Orphans
  <2> QED BY <1>1, <2>1, StopKeeps
<1> QED BY <1>3, <1>4, <1>5, <1>6, <1>7, <1>8, <1>9, <1>10, <1>11, <1>12, <1>13
        DEF Next, Step

LEMMA IInvHolds == Spec => []IInv
<1>1. Init => IInv
  BY InitIs
<1>2. IInv /\ [Next]_vars => IInv'
  BY NextKeeps
<1> QED BY <1>1, <1>2, PTL DEF Spec

------------------------------------------------------------------------------
(* No assertion or consistency check of the file system is hit, whatever    *)
(* reads and allocations fail.                                              *)
THEOREM ChecksNeverFail == Spec => []NoPanic
<1>1. IInv => NoPanic
  BY DEF IInv, Consistent, NoPanic
<1> QED BY <1>1, IInvHolds, PTL

(* What sfs_sync and the last close take for clean is on the disk.          *)
THEOREM CleanIsOnDisk == Spec => []FlagsTruthful
<1>1. ASSUME IInv PROVE FlagsTruthful
  <2> SUFFICES ASSUME fs.up, fs.panic = "no"
               PROVE  Truthful(fs)
    BY DEF FlagsTruthful, Truthful
  <2>1. Good(fs, Opens(fd), Opens(fd))
    BY <1>1 DEF IInv, Consistent
  <2> QED BY <2>1 DEF Good, Sound
<1> QED BY <1>1, IInvHolds, PTL

(* A volume that is not mounted says the same as once it is. *)
Shown(m) == IF m.up THEN m ELSE Mounted(m)

LEMMA ShownIs ==
    ASSUME IInv, fs.panic = "no"
    PROVE  /\ fd \in [Fds -> Block \ {Root}] /\ Counts(Opens(fd), Opens(fd))
           /\ Good(Shown(fs), Opens(fd), Opens(fd)) /\ Used = Shown(fs).used
           /\ Shown(fs).vn = fs.vn /\ Shown(fs).lost = fs.lost
           /\ Live(Shown(fs)) = Live(fs) /\ Units(Shown(fs), Root) = Units(fs, Root)
           /\ Entries(Shown(fs)) = Entries(fs) /\ Named(Shown(fs)) = Named(fs)
           /\ \A i : Blocks(Shown(fs), i) = Blocks(fs, i)
                     /\ InodeOf(Shown(fs), i) = InodeOf(fs, i)
<1> DEFINE m == Shown(fs)
<1>1. fd \in [Fds -> Block \ {Root}] /\ Counts(Opens(fd), Opens(fd))
  BY OpensIs DEF IInv, Consistent
<1>2. CASE fs.up
  BY <1>1, <1>2 DEF IInv, Consistent, Shown, Used
<1>3. CASE ~fs.up
  <2>1. m = Mounted(fs) /\ Down(fs) /\ \A d \in Fds : fd[d] = 0
    BY <1>3 DEF Shown, IInv, Consistent
  <2>2. Good(m, None0, None0) /\ Opens(fd) = None0
    BY <2>1, OpensIs DEF Down
  <2> HIDE DEF m
  <2>3. IsState(m)
    BY <2>2, GoodIs
  <2>4. m.used = fs.disk[Map].used /\ m.vn = fs.vn /\ m.lost = fs.lost /\ m.disk = fs.disk
    BY <2>1, <2>3 DEF Mounted, IsState
  <2>5. \A i : InodeOf(m, i) = InodeOf(fs, i)
    BY <2>4 DEF InodeOf
  <2>6. \A i : Blocks(m, i) = Blocks(fs, i)
    BY <2>4, <2>5 DEF Blocks
  <2>7. Units(m, Root) = Units(fs, Root)
    BY <2>4, <2>5, <2>6 DEF Units
  <2>8. Entries(m) = Entries(fs)
    BY <2>7 DEF Entries
  <2>9. Named(m) = Named(fs)
    BY <2>7, <2>8 DEF Named
  <2>10. Live(m) = Live(fs)
    BY <2>4, <2>9 DEF Live
  <2>11. Used = m.used
    BY <1>3, <2>4 DEF Used
  <2> QED BY <1>1, <2>2, <2>4, <2>5, <2>6, <2>7, <2>8, <2>9, <2>10, <2>11 DEF m
<1> QED BY <1>2, <1>3

(* A name is in the directory once, a link count is the number of names,    *)
(* and the counts of a vnode are those of the descriptors open on it.       *)
THEOREM CountsAlwaysExact == Spec => []CountsExact
<1>1. ASSUME IInv PROVE CountsExact
  <2> SUFFICES ASSUME fs.panic = "no"
               PROVE  /\ \A s, t \in Entries(fs) :
                            Units(fs, Root)[s].name = Units(fs, Root)[t].name => s = t
                      /\ \A i \in Live(fs) \ {Root} :
                            InodeOf(fs, i).linkcount =
                              Cardinality({s \in Entries(fs) : Units(fs, Root)[s].ino = i})
                      /\ Range(fd) \ {0} \subseteq DOMAIN fs.vn
                      /\ \A i \in DOMAIN fs.vn :
                            LET opens == Cardinality({d \in Fds : fd[d] = i})
                                v     == fs.vn[i]
                            IN  /\ v.opencount = opens
                                /\ v.refcount = IF opens = 0 THEN 1 ELSE opens
                                /\ opens = 0 => v.i.linkcount = 0 /\ v.i.indirect # 0
    BY DEF CountsExact
  <2> DEFINE m == Shown(fs)
             op == Opens(fd)
  <2>1. /\ fd \in [Fds -> Block \ {Root}] /\ Good(m, op, op)
        /\ m.vn = fs.vn /\ Live(m) = Live(fs) /\ Units(m, Root) = Units(fs, Root)
        /\ Entries(m) = Entries(fs)
        /\ \A i : InodeOf(m, i) = InodeOf(fs, i)
    BY <1>1, ShownIs
  <2> HIDE DEF m
  <2>2. DirOK(m) /\ Links(m) /\ Refs(m, op, op)
    BY <2>1 DEF Good
  <2>3. \A s, t \in Entries(fs) :
           Units(fs, Root)[s].name = Units(fs, Root)[t].name => s = t
    BY <2>1, <2>2 DEF DirOK, Dir
  <2>4. \A i \in Live(fs) \ {Root} :
           InodeOf(fs, i).linkcount =
             Cardinality({s \in Entries(fs) : Units(fs, Root)[s].ino = i})
    BY <2>1, <2>2 DEF Links, Dir
  <2>5. Range(fd) \ {0} \subseteq DOMAIN fs.vn
    <3>1. ASSUME NEW d \in Fds, fd[d] # 0 PROVE fd[d] \in DOMAIN fs.vn
      <4>1. fd[d] \in Block \ {0} /\ op[fd[d]] # 0
        BY <2>1, <3>1, OpensIs
      <4> QED BY <2>1, <2>2, <4>1 DEF Refs
    <3>2. Range(fd) = {fd[d] : d \in Fds}
      BY <2>1 DEF Range
    <3> QED BY <3>1, <3>2
  <2>6. ASSUME NEW i \in DOMAIN fs.vn
        PROVE  LET opens == Cardinality({d \in Fds : fd[d] = i})
                   v     == fs.vn[i]
               IN  /\ v.opencount = opens
                   /\ v.refcount = IF opens = 0 THEN 1 ELSE opens
                   /\ opens = 0 => v.i.linkcount = 0 /\ v.i.indirect # 0
    <3>1. i \in Block \ {0}
      BY <2>1, GoodIs
    <3>2. op[i] = Cardinality({d \in Fds : fd[d] = i})
      BY <3>1 DEF Opens
    <3> HIDE DEF op
    <3> QED BY <2>1, <2>2, <3>1, <3>2 DEF Refs
  <2> QED BY <2>3, <2>4, <2>5, <2>6
<1> QED BY <1>1, IInvHolds, PTL

LEMMA DisjointCount ==
    ASSUME NEW S, NEW T, IsFiniteSet(S), IsFiniteSet(T), S \cap T = {}
    PROVE  IsFiniteSet(S \cup T) /\ Cardinality(S \cup T) = Cardinality(S) + Cardinality(T)
<1>1. Cardinality(S) \in Nat /\ Cardinality(T) \in Nat
  BY FS_CardinalityType
<1>2. Cardinality(S \cap T) = 0
  BY FS_EmptySet
<1>3. /\ IsFiniteSet(S \cup T)
      /\ Cardinality(S \cup T) = Cardinality(S) + Cardinality(T) - Cardinality(S \cap T)
  BY FS_Union
<1> QED BY ONLY <1>1, <1>2, <1>3

(* Every block in use is accounted for once.                                *)
THEOREM BlocksAlwaysAccounted == Spec => []BlocksAccounted
<1>1. ASSUME IInv PROVE BlocksAccounted
  <2> DEFINE L == Live(fs)
             B(i) == Blocks(fs, i)
             bs == [i \in L |-> Blocks(fs, i)]
             places == {p \in L \X (0 .. NDirect + DbPerId) : bs[p[1]][p[2]] # 0}
             held == {bs[p[1]][p[2]] : p \in places}
  <2> SUFFICES ASSUME fs.panic = "no"
               PROVE  /\ Used = {Super, Map} \union L \union held \union fs.lost
                      /\ Cardinality(Used) = 2 + Cardinality(L) + Cardinality(places)
                                               + Cardinality(fs.lost)
    BY DEF BlocksAccounted
  <2> DEFINE m == Shown(fs)
             H == fs.lost
             op == Opens(fd)
  <2>1. /\ Good(m, op, op) /\ Used = m.used /\ m.lost = H /\ Live(m) = L
        /\ \A i : Blocks(m, i) = B(i)
    BY <1>1, ShownIs
  <2> HIDE DEF m, op
  <2>2. /\ Sound(m, L, H) /\ IsState(m) /\ L \subseteq Block /\ H \subseteq Block
        /\ Divided(m, L, H) /\ m.used \subseteq Block
        /\ \A i \in L : WellFormed(m, i)
    <3>1. Sound(m, L, H)
      BY <2>1 DEF Good
    <3> HIDE DEF L, H
    <3> QED BY <3>1, LiveUsed DEF Sound
  <2> HIDE DEF L, H
  <2>3. \A i \in L : \A x \in Place : B(i)[x] \in Block
    BY <2>1, <2>2, BlocksAre
  <2>4. \A i \in L : Held(m, i) = {B(i)[x] : x \in Place} \ {0}
    BY <2>1 DEF Held, BlocksIn
  <2>5. \A i \in L : \A x, y \in Place : B(i)[x] = B(i)[y] /\ B(i)[x] # 0 => x = y
    BY <2>1, <2>2 DEF WellFormed, Distinct
  <2> HIDE DEF B
  <2>6. places = {p \in L \X Place : B(p[1])[p[2]] # 0}
    BY DEF Place, B
  <2>7. held = {B(p[1])[p[2]] : p \in places}
    BY DEF B
  <2> HIDE DEF places, held
  <2>8. \A b : b \in held <=> \E i \in L : b \in Held(m, i)
    <3>1. ASSUME NEW b \in held PROVE \E i \in L : b \in Held(m, i)
      BY <2>4, <2>6, <2>7
    <3>2. ASSUME NEW i \in L, NEW b \in Held(m, i) PROVE b \in held
      <4>1. PICK x \in Place : b = B(i)[x] /\ b # 0
        BY <2>4
      <4>2. <<i, x>> \in places
        BY <2>6, <4>1
      <4> QED BY <2>7, <4>1, <4>2
    <3> QED BY <3>1, <3>2
  <2>9. /\ {Super, Map} \cap L = {} /\ {Super, Map} \cap H = {} /\ L \cap H = {}
        /\ held \cap ({Super, Map} \cup L \cup H) = {}
    BY <2>2, <2>8 DEF Divided
  <2>10. held \subseteq Block
    BY <2>3, <2>6, <2>7
  <2>11. m.used = {Super, Map} \cup L \cup held \cup H
    <3>1. \A b \in Block : b \in m.used <=> \/ b \in {Super, Map} \/ b \in L \/ b \in H
                                            \/ \E i \in L : b \in Held(m, i)
      BY <2>2 DEF Divided
    <3>2. {Super, Map} \subseteq Block
      BY BlockFacts
    <3> QED BY <2>2, <2>8, <2>10, <3>1, <3>2
  <2>12. /\ IsFiniteSet(L) /\ IsFiniteSet(H) /\ IsFiniteSet(held)
         /\ Cardinality(L) \in Nat /\ Cardinality(H) \in Nat /\ Cardinality(held) \in Nat
    BY <2>2, <2>10, BlockFacts, FS_Subset, FS_CardinalityType
  <2>13. IsFiniteSet({Super, Map}) /\ Cardinality({Super, Map}) = 2
    <3>1. IsFiniteSet({Super}) /\ Cardinality({Super}) = 1
      BY FS_Singleton
    <3>2. {Super, Map} = {Super} \cup {Map} /\ Map \notin {Super}
      BY BlockFacts
    <3> QED BY <3>1, <3>2, FS_AddElement
  <2>14. Cardinality(m.used) = 2 + Cardinality(L) + Cardinality(held) + Cardinality(H)
    <3> DEFINE S1 == {Super, Map} \cup L
               S2 == S1 \cup held
    <3>1. IsFiniteSet(S1) /\ Cardinality(S1) = 2 + Cardinality(L)
      BY <2>9, <2>12, <2>13, DisjointCount
    <3>2. S1 \cap held = {}
      BY <2>9
    <3>3. S2 \cap H = {}
      BY <2>9
    <3>4. m.used = S2 \cup H
      BY <2>11
    <3> HIDE DEF S1
    <3>5. IsFiniteSet(S2) /\ Cardinality(S2) = Cardinality(S1) + Cardinality(held)
      BY <2>12, <3>1, <3>2, DisjointCount
    <3> HIDE DEF S2
    <3>6. Cardinality(S2 \cup H) = Cardinality(S2) + Cardinality(H)
      BY <2>12, <3>3, <3>5, DisjointCount
    <3> QED BY <2>12, <3>1, <3>4, <3>5, <3>6
  <2>15. Cardinality(places) = Cardinality(held)
    <3> DEFINE At == [p \in places |-> B(p[1])[p[2]]]
    <3>1. ASSUME NEW p \in places, NEW q \in places, B(p[1])[p[2]] = B(q[1])[q[2]]
          PROVE  p = q
      <4>1. /\ p[1] \in L /\ q[1] \in L /\ p[2] \in Place /\ q[2] \in Place
            /\ p = <<p[1], p[2]>> /\ q = <<q[1], q[2]>>
            /\ B(p[1])[p[2]] # 0
        BY <2>6
      <4>2. p[1] = q[1]
        <5>1. B(p[1])[p[2]] \in Held(m, p[1]) /\ B(p[1])[p[2]] \in Held(m, q[1])
          BY <2>4, <3>1, <4>1
        <5>2. \A i, j \in L : i # j => Held(m, i) \cap Held(m, j) = {}
          BY <2>2 DEF Divided
        <5> QED BY <4>1, <5>1, <5>2
      <4>3. p[2] = q[2]
        BY <2>5, <3>1, <4>1, <4>2
      <4> QED BY <4>1, <4>2, <4>3
    <3>2. At \in Bijection(places, held)
      <4>1. At \in [places -> held]
        BY <2>7
      <4>2. \A p, q \in places : At[p] = At[q] => p = q
        BY <3>1
      <4>3. \A b \in held : \E p \in places : At[p] = b
        BY <2>7
      <4> HIDE DEF At
      <4> QED BY <4>1, <4>2, <4>3 DEF Bijection, Surjection, Injection, IsInjective
    <3>3. IsFiniteSet(places)
      <4>1. IsFiniteSet(Place)
        BY BlockFacts, FS_Interval DEF Place
      <4>2. IsFiniteSet(L \X Place)
        BY <2>12, <4>1, FS_Product
      <4> QED BY <2>6, <4>2, FS_Subset
    <3>4. ExistsBijection(places, held)
      BY <3>2 DEF ExistsBijection
    <3> QED BY <3>3, <3>4, FS_Bijection
  <2> QED BY <2>1, <2>11, <2>14, <2>15 DEF H
<1> QED BY <1>1, IInvHolds, PTL

==============================================================================
