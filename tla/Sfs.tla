--------------------------------- MODULE Sfs ---------------------------------
(***************************************************************************)
(* The file system kern/fs/sfs with the calls of kern/fs/vfs that reach it: *)
(* blocks, the free map, inodes in memory and on disk, the one directory,   *)
(* vnodes and their two counts, mounting and syncing.                       *)
(*                                                                          *)
(* A call is one step.  The locks that would keep two calls apart have no   *)
(* code in this kernel, so the calls are taken not to overlap; what they do *)
(* hold is everything that happens between two calls and every point where  *)
(* one can fail: any read of the disk, any allocation of a vnode (Faulty),  *)
(* a full disk, a full file.  A write to the disk is taken to succeed: that *)
(* is what sfs_rwblock reports (see lhd_retry in Lhd).                      *)
(*                                                                          *)
(* A function of the code is an operator from the state `m` of the file     *)
(* system to the set of its outcomes, a new state with an error code and a  *)
(* value.  `panic` is "io" where the code gives up on a failed read and     *)
(* "bug" where an assertion or a consistency check of it fails, or where it *)
(* takes a block for something it is not; no step follows either.           *)
(*                                                                          *)
(* Sizes and offsets are in units of a directory entry, of which a block    *)
(* holds Slots; user data are written in the same units.                    *)
(***************************************************************************)
EXTENDS Integers, Sequences, FiniteSets, SequencesExt

CONSTANTS
    NBlocks,    \* sp_nblocks
    NDirect,    \* SFS_NDIRECT
    DbPerId,    \* SFS_DBPERIDB
    Slots,      \* SFS_BLOCKSIZE / sizeof(struct sfs_dir)
    Names, Fds, Values, Zero,
    OpenFlags,  \* the flags open is called with
    Transfers,  \* offset and length of the writes
    Faulty      \* reads of the disk and allocations may fail

Block == 0 .. NBlocks - 1
Super == 0
Root == 1
Map == 2

ASSUME SizeAssumption ==
    /\ NBlocks \in Nat /\ NBlocks > 3
    /\ NDirect \in Nat \ {0} /\ DbPerId \in Nat \ {0} /\ Slots \in Nat \ {0}
ASSUME CallAssumption ==
    /\ OpenFlags \subseteq
          [creat : BOOLEAN, excl : BOOLEAN, trunc : BOOLEAN, append : BOOLEAN,
           write : BOOLEAN]
    /\ Transfers \subseteq [off : Nat, len : Nat \ {0}]
    /\ Zero \notin Values /\ Zero \notin [name : Names, ino : Block]
    /\ IsFiniteSet(Fds) /\ Faulty \in BOOLEAN

VARIABLES
    fs,     \* the file system: see Init
    fd,     \* the vnode each descriptor is open on, 0 for none
    out,    \* how the last call ended
    seen    \* what can be seen of the volume: Visible of fs and fd, kept as
            \* a variable for the refinement

vars == <<fs, fd, out, seen>>
----------------------------------------------------------------------------
(* What a block of the disk holds.  A cleared block can be taken for any of *)
(* the others: an inode of no type, no block numbers, free slots.           *)

Cleared  == [k |-> "zero"]
InodeBlock(i) == [k |-> "inode", i |-> i]
IdBlock(ids)  == [k |-> "ids", ids |-> ids]
UnitBlock(us) == [k |-> "units", us |-> us]
MapBlock(s)   == [k |-> "map", used |-> s]

NoInode == [type |-> "invalid", size |-> 0, linkcount |-> 0,
            direct |-> [x \in 0 .. NDirect - 1 |-> 0], indirect |-> 0]

AsInode(c) == IF c.k = "inode" THEN c.i ELSE NoInode
AsIds(c)   == IF c.k = "ids" THEN c.ids ELSE [x \in 0 .. DbPerId - 1 |-> 0]
AsUnits(c) == IF c.k = "units" THEN c.us ELSE [x \in 0 .. Slots - 1 |-> Zero]

(* A volume made by mksfs, not yet mounted.                                 *)
Init ==
    /\ fs = [up |-> FALSE,              \* mounted
             disk |-> [b \in Block |->
                         CASE b = Super -> [k |-> "super"]
                           [] b = Root  -> InodeBlock([NoInode EXCEPT
                                              !.type = "dir", !.linkcount = 1])
                           [] b = Map   -> MapBlock({Super, Root, Map})
                           [] OTHER     -> Cleared],
             used |-> {},               \* sfs_freemap
             mapdirty |-> FALSE,        \* sfs_freemapdirty
             vn |-> << >>,              \* sfs_vnodes, by inode number
             lost |-> {},               \* blocks in use that nothing refers to
             panic |-> "no"]
    /\ fd = [d \in Fds |-> 0]
    /\ out = "ok"
    /\ seen = [names |-> [n \in Names |-> 0], files |-> << >>]
----------------------------------------------------------------------------
(* Outcomes of a function.                                                  *)

Ret(m, v)     == {[m |-> m, err |-> "ok", val |-> v]}
Fail(m, e)    == {[m |-> m, err |-> e, val |-> <<>>]}
Panic(m, why) == Fail([m EXCEPT !.panic = why], "panic")

(* S, then F on its state and value if it succeeded.                        *)
Then(S, F(_, _)) ==
    UNION {IF o.err = "ok" THEN F(o.m, o.val) ELSE {o} : o \in S}

(* S, then C whether it succeeded or not; the outcome is S's.               *)
Finally(S, C(_)) ==
    UNION {IF o.err = "panic" THEN {o}
           ELSE {IF c.err = "panic" THEN c ELSE [o EXCEPT !.m = c.m] :
                    c \in C(o.m)} : o \in S}

(* S, its error dropped.                                                    *)
Swallow(S) ==
    {IF o.err = "panic" THEN o ELSE [o EXCEPT !.err = "ok", !.val = <<>>] : o \in S}

(* sfs_rblock, sfs_wblock                                                   *)
Rblock(m, b, kind) ==
    IF m.disk[b].k \in {"zero", kind}
    THEN Ret(m, <<>>) \union (IF Faulty THEN Fail(m, "EIO") ELSE {})
    ELSE Panic(m, "bug")

Wblock(m, b, c) == [m EXCEPT !.disk[b] = c]
----------------------------------------------------------------------------
(* The free map.                                                            *)

M_Balloc(m) ==      \* a mutant: the block is not cleared
    IF Block \subseteq m.used THEN Fail(m, "ENOSPC")
    ELSE LET b == Min(Block \ m.used)
         IN  Ret([m EXCEPT !.used = @ \union {b}, !.mapdirty = TRUE], <<b>>)

(* sfs_balloc                                                               *)
Balloc(m) ==
    LET free == Block \ m.used
        b    == Min(free)
    IN  IF free = {} THEN Fail(m, "ENOSPC")
        ELSE Ret(Wblock([m EXCEPT !.used = @ \union {b}, !.mapdirty = TRUE],
                        b, Cleared), <<b>>)

M_BfreeAll(m, f) ==     \* a mutant: the free map is not marked dirty
    Ret([m EXCEPT !.used = @ \ (Range(f) \ {0})], <<>>)

(* sfs_bfree of every block that the table f names                          *)
BfreeAll(m, f) ==
    LET named == {x \in DOMAIN f : f[x] # 0}
        bs    == {f[x] : x \in named}
    IN  IF bs \subseteq m.used /\ Cardinality(bs) = Cardinality(named)
        THEN Ret([m EXCEPT !.used = @ \ bs,
                           !.mapdirty = @ \/ named # {}], <<>>)
        ELSE Panic(m, "bug")

Bfree(m, b) == BfreeAll(m, <<b>>)
----------------------------------------------------------------------------
(* Inodes in memory.                                                        *)

SetInode(m, ino, i) ==
    [m EXCEPT !.vn[ino] = [@ EXCEPT !.i = i, !.dirty = TRUE]]

(* sfs_sync_inode, sfs_fsync                                                *)
SyncInode(m, ino) ==
    IF m.vn[ino].dirty
    THEN [Wblock(m, ino, InodeBlock(m.vn[ino].i)) EXCEPT !.vn[ino].dirty = FALSE]
    ELSE m

(* sfs_bmap                                                                 *)
HandBack(m, b) ==
    IF b = 0 \/ b \in m.used THEN Ret(m, <<b>>) ELSE Panic(m, "bug")

BmapDirect(m, ino, fb, alloc) ==
    LET i == m.vn[ino].i
    IN  IF i.direct[fb] # 0 \/ ~alloc THEN HandBack(m, i.direct[fb])
        ELSE Then(Balloc(m), LAMBDA m1, v :
                HandBack(SetInode(m1, ino, [i EXCEPT !.direct[fb] = v[1]]), v[1]))

IndirectBlock(m, ino) ==
    LET i == m.vn[ino].i
    IN  IF i.indirect # 0 THEN Rblock(m, i.indirect, "ids")
        ELSE Then(Balloc(m), LAMBDA m1, v :
                Ret(SetInode(m1, ino, [i EXCEPT !.indirect = v[1]]), <<>>))

BmapIndirect(m, ino, x, alloc) ==
    IF m.vn[ino].i.indirect = 0 /\ ~alloc THEN HandBack(m, 0)
    ELSE Then(IndirectBlock(m, ino), LAMBDA m1, u :
            LET id  == m1.vn[ino].i.indirect
                ids == AsIds(m1.disk[id])
            IN  IF ids[x] # 0 \/ ~alloc THEN HandBack(m1, ids[x])
                ELSE Then(Balloc(m1), LAMBDA m2, v :
                        HandBack(Wblock(m2, id, IdBlock([ids EXCEPT ![x] = v[1]])),
                                 v[1])))

Bmap(m, ino, fb, alloc) ==
    IF fb < NDirect THEN BmapDirect(m, ino, fb, alloc)
    ELSE IF fb - NDirect >= DbPerId THEN Fail(m, "EINVAL")
    ELSE BmapIndirect(m, ino, fb - NDirect, alloc)
----------------------------------------------------------------------------
(* File input and output.                                                   *)

Store(m, b, us, c) ==
    Wblock(m, b, UnitBlock([x \in 0 .. Slots - 1 |->
                              IF x \in us THEN c ELSE AsUnits(m.disk[b])[x]]))

(* sfs_partialio and sfs_blockio, writing c in the units us of a block      *)
PartialIo(m, ino, fb, us, c) ==
    Then(Bmap(m, ino, fb, TRUE), LAMBDA m1, v :
        Then(Rblock(m1, v[1], "units"), LAMBDA m2, w :
            Ret(Store(m2, v[1], us, c), <<>>)))

BlockIo(m, ino, fb, c) ==
    Then(Bmap(m, ino, fb, TRUE), LAMBDA m1, v :
        Ret(Store(m1, v[1], 0 .. Slots - 1, c), <<>>))

Grow(m, ino, end) ==
    IF end > m.vn[ino].i.size
    THEN SetInode(m, ino, [m.vn[ino].i EXCEPT !.size = end])
    ELSE m

(* sfs_io writing: block by block, up to the first failure                  *)
WriteBlock(m, ino, fb, off, len, c) ==
    LET us == {x \in 0 .. Slots - 1 : fb * Slots + x \in off .. off + len - 1}
    IN  Then(IF us = 0 .. Slots - 1 THEN BlockIo(m, ino, fb, c)
             ELSE PartialIo(m, ino, fb, us, c),
             LAMBDA m1, v : Ret(Grow(m1, ino, fb * Slots + Max(us) + 1), <<>>))

Io(m, ino, off, len, c) ==
    LET first == off \div Slots
        last  == (off + len - 1) \div Slots
        written[n \in 0 .. last - first + 1] ==     \* the first n blocks
            IF n = 0 THEN Ret(m, <<>>)
            ELSE Then(written[n - 1], LAMBDA m1, v :
                    WriteBlock(m1, ino, first + n - 1, off, len, c))
    IN  written[last - first + 1]

(* sfs_io reading one unit below the end of the file                        *)
ReadUnit(m, ino, off) ==
    Then(Bmap(m, ino, off \div Slots, FALSE), LAMBDA m1, v :
        IF v[1] = 0 THEN Ret(m1, <<Zero>>)
        ELSE Then(Rblock(m1, v[1], "units"), LAMBDA m2, w :
                Ret(m2, <<AsUnits(m2.disk[v[1]])[off % Slots]>>)))
----------------------------------------------------------------------------
(* Vnodes.                                                                  *)

Incref(m, ino) == [m EXCEPT !.vn[ino].refcount = @ + 1]

(* sfs_loadvnode; `make` is its FORCETYPE for a new file                    *)
LoadVnode(m, ino, make) ==
    IF ~(DOMAIN m.vn \subseteq m.used) THEN Panic(m, "bug")
    ELSE IF ino \in DOMAIN m.vn
    THEN IF make THEN Panic(m, "bug") ELSE Ret(Incref(m, ino), <<ino>>)
    ELSE IF ino \notin m.used THEN Panic(m, "bug")
    ELSE Then(Rblock(m, ino, "inode") \union
                  (IF Faulty THEN Fail(m, "ENOMEM") ELSE {}),
              LAMBDA m1, v :
                LET i == AsInode(m1.disk[ino])
                IN  IF make # (i.type = "invalid") THEN Panic(m1, "bug")
                    ELSE Ret([m1 EXCEPT !.vn = [j \in DOMAIN @ \union {ino} |->
                                IF j # ino THEN @[j]
                                ELSE [i |-> IF make THEN [i EXCEPT !.type = "file"]
                                            ELSE i,
                                      dirty |-> make,
                                      refcount |-> 1, opencount |-> 0]]],
                             <<ino>>))

(* sfs_getroot                                                              *)
GetRoot(m) ==
    UNION {IF o.err \in {"EIO", "ENOMEM"} THEN Panic(o.m, "io") ELSE {o} :
              o \in LoadVnode(m, Root, FALSE)}

(* sfs_truncate to length 0, the only one it is called with                 *)
TruncateDirect(m, ino) ==
    LET i == m.vn[ino].i
    IN  Then(BfreeAll(m, i.direct), LAMBDA m1, v :
            Ret(IF i.direct = NoInode.direct THEN m1
                ELSE SetInode(m1, ino, [i EXCEPT !.direct = NoInode.direct]),
                <<>>))

M_TruncateIndirect(m, ino) ==   \* a mutant: the indirect block stays in use
    LET i == m.vn[ino].i
    IN  IF i.indirect = 0 THEN Ret(m, <<>>)
        ELSE Then(Rblock(m, i.indirect, "ids"), LAMBDA m1, v :
             Then(BfreeAll(m1, AsIds(m1.disk[i.indirect])), LAMBDA m2, w :
                Ret(SetInode(m2, ino, [i EXCEPT !.indirect = 0]), <<>>)))

TruncateIndirect(m, ino) ==
    LET i == m.vn[ino].i
    IN  IF i.indirect = 0 THEN Ret(m, <<>>)
        ELSE Then(Rblock(m, i.indirect, "ids"), LAMBDA m1, v :
             Then(BfreeAll(m1, AsIds(m1.disk[i.indirect])), LAMBDA m2, w :
             Then(Bfree(m2, i.indirect), LAMBDA m3, x :
                Ret(SetInode(m3, ino, [i EXCEPT !.indirect = 0]), <<>>))))

M_Truncate(m, ino) ==   \* a mutant: the size is left as it was
    Then(TruncateDirect(m, ino), LAMBDA m1, v : TruncateIndirect(m1, ino))

Truncate(m, ino) ==
    Then(TruncateDirect(m, ino), LAMBDA m1, v :
    Then(TruncateIndirect(m1, ino), LAMBDA m2, w :
        Ret(SetInode(m2, ino, [m2.vn[ino].i EXCEPT !.size = 0]), <<>>)))

(* vnode_kill, and the vnode leaves the table                               *)
Kill(m, ino) ==
    IF m.vn[ino].refcount = 1 /\ m.vn[ino].opencount = 0
    THEN Ret([m EXCEPT !.vn = [j \in DOMAIN @ \ {ino} |-> @[j]]], <<>>)
    ELSE Panic(m, "bug")

(* sfs_reclaim                                                              *)
Reclaim(m, ino) ==
    LET dead == m.vn[ino].i.linkcount = 0
    IN  Then(IF dead THEN Truncate(m, ino) ELSE Ret(m, <<>>), LAMBDA m1, v :
        Then(IF dead THEN Bfree(SyncInode(m1, ino), ino)
             ELSE Ret(SyncInode(m1, ino), <<>>), LAMBDA m2, w :
            Kill(m2, ino)))

(* vnode_decref: what sfs_reclaim reports is only printed                   *)
Decref(m, ino) ==
    CASE m.vn[ino].refcount > 1 ->
            Ret([m EXCEPT !.vn[ino].refcount = @ - 1], <<>>)
      [] m.vn[ino].refcount = 1 -> Swallow(Reclaim(m, ino))
      [] OTHER -> Panic(m, "bug")

Incopen(m, ino) == [m EXCEPT !.vn[ino].opencount = @ + 1]

(* vnode_decopen: the last close syncs the inode                            *)
Decopen(m, ino) ==
    LET m1 == [m EXCEPT !.vn[ino].opencount = @ - 1]
    IN  IF m.vn[ino].opencount = 0 THEN Panic(m, "bug")
        ELSE Ret(IF m1.vn[ino].opencount = 0 THEN SyncInode(m1, ino) ELSE m1, <<>>)
----------------------------------------------------------------------------
(* The directory.                                                           *)

(* sfs_dir_findname: <<inode or 0, its slot, the last empty slot>>          *)
Findname(m, name) ==
    LET size == m.vn[Root].i.size
        searched[n \in 0 .. size] ==                 \* the first n slots
            IF n = 0 THEN Ret(m, <<0, -1, -1>>)
            ELSE Then(searched[n - 1], LAMBDA m1, found :
                 Then(ReadUnit(m1, Root, n - 1), LAMBDA m2, v :
                    IF v[1] = Zero THEN Ret(m2, [found EXCEPT ![3] = n - 1])
                    ELSE IF v[1].name # name THEN Ret(m2, found)
                    ELSE IF found[1] # 0 THEN Panic(m2, "bug")
                    ELSE Ret(m2, [found EXCEPT ![1] = v[1].ino, ![2] = n - 1])))
    IN  searched[size]

(* sfs_dir_link                                                             *)
DirLink(m, name, ino) ==
    Then(Findname(m, name), LAMBDA m1, found :
        LET slot == IF found[3] >= 0 THEN found[3] ELSE m1.vn[Root].i.size
        IN  IF found[1] # 0 THEN Fail(m1, "EEXIST")
            ELSE Then(Io(m1, Root, slot, 1, [name |-> name, ino |-> ino]),
                      LAMBDA m2, v : Ret(m2, <<slot>>)))

(* sfs_dir_unlink                                                           *)
DirUnlink(m, slot) == Io(m, Root, slot, 1, Zero)

(* sfs_lookonce: <<inode, slot>>                                            *)
LookOnce(m, name) ==
    Then(Findname(m, name), LAMBDA m1, found :
        IF found[1] = 0 THEN Fail(m1, "ENOENT")
        ELSE Then(LoadVnode(m1, found[1], FALSE), LAMBDA m2, v :
                IF m2.vn[v[1]].i.linkcount = 0 THEN Panic(m2, "bug")
                ELSE Ret(m2, <<found[1], found[2]>>)))

AddLinks(m, ino, n) ==
    SetInode(m, ino, [m.vn[ino].i EXCEPT !.linkcount = @ + n])

(* sfs_makeobj: if the vnode cannot be had, nobody frees the block          *)
MakeObj(m) ==
    Then(Balloc(m), LAMBDA m1, v :
        {IF o.err \in {"EIO", "ENOMEM"}
         THEN [o EXCEPT !.m.lost = @ \union {v[1]}] ELSE o :
            o \in LoadVnode(m1, v[1], TRUE)})

(* sfs_creat, the name being free                                           *)
MakeFile(m, name) ==
    Then(MakeObj(m), LAMBDA m1, v :
        LET ino == v[1]
        IN  UNION {CASE o.err = "ok"      -> Ret(AddLinks(o.m, ino, 1), <<ino>>)
                     [] o.err = "panic" -> {o}
                     [] OTHER           -> Finally({o}, LAMBDA m2 : Decref(m2, ino)) :
                      o \in DirLink(m1, name, ino)})

(* sfs_creat                                                                *)
Creat(m, name, excl) ==
    Then(Findname(m, name), LAMBDA m1, found :
        IF found[1] = 0 THEN MakeFile(m1, name)
        ELSE IF excl THEN Fail(m1, "EEXIST")
        ELSE LoadVnode(m1, found[1], FALSE))

(* sfs_link                                                                 *)
SfsLink(m, name, ino) ==
    Then(DirLink(m, name, ino), LAMBDA m1, v : Ret(AddLinks(m1, ino, 1), <<>>))

(* sfs_remove                                                               *)
SfsRemove(m, name) ==
    Then(LookOnce(m, name), LAMBDA m1, v :
        Finally(Then(DirUnlink(m1, v[2]), LAMBDA m2, w :
                        Ret(AddLinks(m2, v[1], -1), <<>>)),
                LAMBDA m2 : Decref(m2, v[1])))

M_UnlinkOld(m, ino, old, new) ==  \* a mutant: recovery forgets the link count
    UNION {IF o.err = "ok" THEN Ret(AddLinks(o.m, ino, -1), <<>>)
           ELSE Then(DirUnlink(o.m, new), LAMBDA m1, v : Fail(m1, o.err)) :
             o \in DirUnlink(m, old)}

(* sfs_rename: if the old name cannot be removed the new one is, and if     *)
(* that fails too the kernel gives up.                                      *)
UnlinkOld(m, ino, old, new) ==
    UNION {CASE o.err = "ok"      -> Ret(AddLinks(o.m, ino, -1), <<>>)
             [] o.err = "panic" -> {o}
             [] OTHER -> UNION {CASE u.err = "ok" ->
                                       Fail([u.m EXCEPT !.vn[ino].i.linkcount = @ - 1],
                                            o.err)
                                  [] u.err = "panic" -> {u}
                                  [] OTHER -> Panic(u.m, "io") :
                                  u \in DirUnlink(o.m, new)} :
             o \in DirUnlink(m, old)}

SfsRename(m, n1, n2) ==
    Then(LookOnce(m, n1), LAMBDA m1, v :
        Finally(Then(DirLink(m1, n2, v[1]), LAMBDA m2, w :
                        UnlinkOld(AddLinks(m2, v[1], 1), v[1], v[2], w[1])),
                LAMBDA m2 : Decref(m2, v[1])))
----------------------------------------------------------------------------
(* The calls of the vfs layer.  A path names the volume: the search starts  *)
(* at its root directory, which stays loaded until the call returns.        *)

InRoot(m, F(_)) ==
    Then(GetRoot(m), LAMBDA m1, v :
        Finally(F(m1), LAMBDA m2 : Decref(m2, Root)))

(* vfs_lookup                                                               *)
Lookup(m, name) == InRoot(m, LAMBDA m1 : LookOnce(m1, name))

(* vfs_open                                                                 *)
DecopenDecref(m, ino) ==
    Then(Decopen(m, ino), LAMBDA m1, v : Decref(m1, ino))

Opened(m, ino, f) ==
    IF f.append THEN Finally(Fail(m, "EUNIMP"), LAMBDA m1 : Decref(m1, ino))
    ELSE IF ~f.trunc THEN Ret(Incopen(m, ino), <<ino>>)
    ELSE UNION {IF o.err \in {"ok", "panic"} THEN {o}
                ELSE Finally({o}, LAMBDA m1 : DecopenDecref(m1, ino)) :
                  o \in IF f.write
                        THEN Then(Truncate(Incopen(m, ino), ino),
                                  LAMBDA m1, v : Ret(m1, <<ino>>))
                        ELSE Fail(Incopen(m, ino), "EINVAL")}

VfsOpen(m, name, f) ==
    Then(IF f.creat THEN InRoot(m, LAMBDA m1 : Creat(m1, name, f.excl))
         ELSE Lookup(m, name),
         LAMBDA m1, v : Opened(m1, v[1], f))

(* vfs_remove, vfs_rename, vfs_link                                         *)
VfsRemove(m, name) == InRoot(m, LAMBDA m1 : SfsRemove(m1, name))

VfsRename(m, n1, n2) ==
    InRoot(m, LAMBDA m1 : InRoot(m1, LAMBDA m2 : SfsRename(m2, n1, n2)))

VfsLink(m, n1, n2) ==
    Then(Lookup(m, n1), LAMBDA m1, v :
        Finally(InRoot(m1, LAMBDA m2 : SfsLink(m2, n2, v[1])),
                LAMBDA m2 : Decref(m2, v[1])))

(* sfs_sync: every loaded inode that is dirty and the free map if it is.    *)
Sync(m) ==
    [m EXCEPT !.disk = [b \in Block |->
                 IF b \in DOMAIN m.vn /\ m.vn[b].dirty THEN InodeBlock(m.vn[b].i)
                 ELSE IF b = Map /\ m.mapdirty THEN MapBlock(m.used)
                 ELSE @[b]],
              !.vn = [i \in DOMAIN @ |-> [@[i] EXCEPT !.dirty = FALSE]],
              !.mapdirty = FALSE]

(* vfs_unmount: sfs_sync, then sfs_unmount                                  *)
Forget(m) == [m EXCEPT !.up = FALSE, !.used = {}, !.mapdirty = FALSE,
                       !.vn = << >>]

VfsUnmount(m) ==
    LET m1 == Sync(m)
    IN  IF m1.vn # << >> THEN Fail(m1, "EBUSY") ELSE Ret(Forget(m1), <<>>)

(* sfs_domount: the superblock, then the free map                           *)
VfsMount(m) ==
    Then(Rblock(m, Super, "super") \union
             (IF Faulty THEN Fail(m, "ENOMEM") ELSE {}), LAMBDA m1, v :
    Then(Rblock(m1, Map, "map"), LAMBDA m2, w :
        Ret([m2 EXCEPT !.up = TRUE, !.used = m2.disk[Map].used], <<>>)))
----------------------------------------------------------------------------
(* What a state says, read from memory where an inode is loaded and from    *)
(* the disk where it is not.                                                *)

InodeOf(m, i) == IF i \in DOMAIN m.vn THEN m.vn[i].i ELSE AsInode(m.disk[i])

Blocks(m, i) ==         \* the blocks of inode i, by place
    LET n   == InodeOf(m, i)
        ids == AsIds(m.disk[n.indirect])
    IN  [x \in 0 .. NDirect + DbPerId |->
            IF x < NDirect THEN n.direct[x]
            ELSE IF x = NDirect THEN n.indirect
            ELSE IF n.indirect = 0 THEN 0 ELSE ids[x - NDirect - 1]]

Units(m, i) ==          \* its contents, as sfs_io reads them
    LET bs == Blocks(m, i)
    IN  [u \in 1 .. InodeOf(m, i).size |->
            LET fb == (u - 1) \div Slots
                b  == bs[IF fb < NDirect THEN fb ELSE fb + 1]
            IN  IF b = 0 THEN Zero ELSE AsUnits(m.disk[b])[(u - 1) % Slots]]

Entries(m) == LET dir == Units(m, Root) IN {s \in DOMAIN dir : dir[s] # Zero}
Named(m)   == {Units(m, Root)[s].ino : s \in Entries(m)}
Live(m)    == {Root} \union DOMAIN m.vn \union Named(m)

Visible(m, f) ==
    LET dir     == Units(m, Root)
        Slot(n) == {s \in DOMAIN dir : dir[s] # Zero /\ dir[s].name = n}
    IN  [names |-> [n \in Names |->
                       IF Slot(n) = {} THEN 0 ELSE dir[Min(Slot(n))].ino],
         files |-> [i \in Named(m) \union (Range(f) \ {0}) |-> Units(m, i)]]
----------------------------------------------------------------------------
(* Steps.                                                                   *)

Running == fs.up /\ fs.panic = "no"

Return(o) ==
    /\ fs' = o.m
    /\ out' = o.err

Open(d, name, f) ==
    /\ Running /\ fd[d] = 0
    /\ \E o \in VfsOpen(fs, name, f) :
          /\ Return(o)
          /\ fd' = IF o.err = "ok" THEN [fd EXCEPT ![d] = o.val[1]] ELSE fd

(* vfs_close                                                                *)
Close(d) ==
    /\ Running /\ fd[d] # 0
    /\ \E o \in DecopenDecref(fs, fd[d]) : Return(o)
    /\ fd' = [fd EXCEPT ![d] = 0]

(* sfs_write                                                                *)
Write(d, x, v) ==
    /\ Running /\ fd[d] # 0
    /\ \E o \in Io(fs, fd[d], x.off, x.len, v) : Return(o)
    /\ UNCHANGED fd

RemoveFile(name) ==
    /\ Running
    /\ \E o \in VfsRemove(fs, name) : Return(o)
    /\ UNCHANGED fd

Rename(n1, n2) ==
    /\ Running
    /\ \E o \in VfsRename(fs, n1, n2) : Return(o)
    /\ UNCHANGED fd

Link(n1, n2) ==
    /\ Running
    /\ \E o \in VfsLink(fs, n1, n2) : Return(o)
    /\ UNCHANGED fd

VfsSync ==
    /\ Running
    /\ fs' = Sync(fs)
    /\ out' = "ok"
    /\ UNCHANGED fd

Unmount ==
    /\ Running
    /\ \E o \in VfsUnmount(fs) : Return(o)
    /\ UNCHANGED fd

Mount ==
    /\ ~fs.up /\ fs.panic = "no"
    /\ \E o \in VfsMount(fs) : Return(o)
    /\ UNCHANGED fd

(* shutdown and vfs_unmountall: a volume with files open is synced and left *)
(* mounted, and the machine stops.  What only those files held stays marked *)
(* on the disk.                                                             *)
Shutdown ==
    LET m    == Sync(fs)
        dead == {i \in DOMAIN m.vn : m.vn[i].i.linkcount = 0}
    IN  /\ Running
        /\ fs' = [Forget(m) EXCEPT !.lost = @ \union dead \union
                     UNION {Range(Blocks(m, i)) \ {0} : i \in dead}]
        /\ fd' = [d \in Fds |-> 0]
        /\ out' = "ok"

Step ==
    \/ \E d \in Fds :
          \/ \E name \in Names, f \in OpenFlags : Open(d, name, f)
          \/ Close(d)
          \/ \E x \in Transfers, v \in Values : Write(d, x, v)
    \/ \E name \in Names : RemoveFile(name)
    \/ \E n1, n2 \in Names : Rename(n1, n2)
    \/ \E n1, n2 \in Names : Link(n1, n2)
    \/ VfsSync
    \/ Unmount
    \/ Mount
    \/ Shutdown

Next == Step /\ seen' = Visible(fs', fd')

Spec == Init /\ [][Next]_vars
----------------------------------------------------------------------------
(***************************************************************************)
(* Every block marked in use is the superblock, the map, the inode of a     *)
(* file that has a name or a vnode, in exactly one place of one such inode, *)
(* or known to be lost; and every block in such a place is marked.  No      *)
(* block is shared, none is free while a file holds it, and no failure of   *)
(* balloc, bmap, creat, rename or truncate leaks more than what `lost`      *)
(* counts: the block of sfs_makeobj and what is open without a name when    *)
(* the machine stops.                                                       *)
(***************************************************************************)
Used == IF fs.up THEN fs.used ELSE fs.disk[Map].used

BlocksAccounted ==
    LET live   == Live(fs)
        bs     == [i \in live |-> Blocks(fs, i)]
        places == {p \in live \X (0 .. NDirect + DbPerId) : bs[p[1]][p[2]] # 0}
        held   == {bs[p[1]][p[2]] : p \in places}
    IN  fs.panic = "no" =>
            /\ Used = {Super, Map} \union live \union held \union fs.lost
            /\ Cardinality(Used) = 2 + Cardinality(live) + Cardinality(places)
                                     + Cardinality(fs.lost)

(***************************************************************************)
(* Each name is in the directory once, and a file's link count is the       *)
(* number of its entries there.  A vnode stays loaded between calls only    *)
(* for the descriptors open on it, each of which holds one reference and    *)
(* one open count; the exception is a file whose last reference went while  *)
(* its indirect block could not be read: sfs_reclaim gives up and the vnode *)
(* keeps a reference nobody has.                                            *)
(***************************************************************************)
CountsExact ==
    LET dir == Units(fs, Root)
        es  == Entries(fs)
    IN  fs.panic = "no" =>
            /\ \A s, t \in es : dir[s].name = dir[t].name => s = t
            /\ \A i \in Live(fs) \ {Root} :
                  InodeOf(fs, i).linkcount = Cardinality({s \in es : dir[s].ino = i})
            /\ Range(fd) \ {0} \subseteq DOMAIN fs.vn
            /\ \A i \in DOMAIN fs.vn :
                  LET opens == Cardinality({d \in Fds : fd[d] = i})
                      v     == fs.vn[i]
                  IN  /\ v.opencount = opens
                      /\ v.refcount = IF opens = 0 THEN 1 ELSE opens
                      /\ opens = 0 => v.i.linkcount = 0 /\ v.i.indirect # 0

(***************************************************************************)
(* What is not marked dirty is on the disk: each loaded inode and the free  *)
(* map.  sfs_sync and the last close write only what is marked.             *)
(***************************************************************************)
FlagsTruthful ==
    fs.up /\ fs.panic = "no" =>
        /\ \A i \in DOMAIN fs.vn :
              fs.vn[i].dirty \/ fs.disk[i] = InodeBlock(fs.vn[i].i)
        /\ fs.mapdirty \/ fs.disk[Map] = MapBlock(fs.used)

(***************************************************************************)
(* Whatever reads fail, none of the assertions and consistency checks of    *)
(* the code is hit: a free block in a file, a block freed twice, an inode   *)
(* in a free block or without a type, a name twice in the directory, a link *)
(* count of 0 under a name, a vnode killed while open.                      *)
(***************************************************************************)
NoPanic == fs.panic # "bug"

(***************************************************************************)
(* The calls keep the promises of Files: what a name or a descriptor leads  *)
(* to is changed by its own calls only, failing calls change nothing more   *)
(* than Files says, and unmounting or shutting down loses no named file.    *)
(***************************************************************************)
Abstract == INSTANCE Files WITH
    Ids <- Block, None <- 0, names <- seen.names, files <- seen.files, fds <- fd

AbsSpec == Abstract!Spec
==============================================================================
