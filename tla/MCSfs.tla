-------------------------------- MODULE MCSfs --------------------------------
(* Sfs for TLC: a volume of seven blocks, so that four are left for the     *)
(* directory, inodes and data; files of one direct block and two in the     *)
(* indirect block; two names and two descriptors; writes of a whole block,  *)
(* across a block boundary and past the largest file.  Every read can fail. *)
EXTENDS Sfs, TLC

Flags(s) == [creat  |-> "creat" \in s,  excl |-> "excl" \in s,
             trunc  |-> "trunc" \in s,  append |-> "append" \in s,
             write  |-> "write" \in s]

MCOpenFlags ==
    {Flags(s) : s \in {{"write"}, {"creat", "write"}, {"creat", "excl", "write"},
                       {"trunc", "write"}, {"creat", "trunc"}, {"creat", "append"}}}

MCTransfers == {[off |-> 0, len |-> 2], [off |-> 1, len |-> 2],
                [off |-> 4, len |-> 3]}

Symmetry == Permutations(Names) \union Permutations(Fds)

(* Left out of the view: how the last call ended and what `seen` repeats,   *)
(* which no action reads, and the blocks of the disk that are overwritten   *)
(* before they are next read: free ones, the inode of a dirty vnode, the    *)
(* free map when it is dirty.                                               *)
View ==
    LET rewritten(b) == \/ b \notin Used
                        \/ b \in DOMAIN fs.vn /\ fs.vn[b].dirty
                        \/ b = Map /\ fs.mapdirty
    IN  IF fs.panic # "no" THEN <<fs.panic>>
        ELSE <<[fs EXCEPT !.disk = [b \in Block |->
                   IF rewritten(b) THEN Cleared ELSE @[b]]], fd>>
==============================================================================
