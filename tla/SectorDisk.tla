----------------------------- MODULE SectorDisk -----------------------------
(***************************************************************************)
(* What lhd_io (kern/dev/lamebus/lhd.c) promises its callers: a request for *)
(* a run of sectors moves them one at a time, in order, each in a single    *)
(* indivisible step, and ends as a success when the whole run has moved or  *)
(* as a failure at any point.  Requests of several threads interleave       *)
(* sector by sector.  Nothing is said of the card, its buffer, the          *)
(* semaphores or the interrupt.                                             *)
(***************************************************************************)
EXTENDS Integers, Sequences

CONSTANTS
    Threads,    \* who issues requests
    NBlocks,    \* sectors on the disk (lh_dev.d_blocks)
    MaxLen,     \* longest request, in sectors
    Values      \* what a sector can hold

VARIABLES
    store,      \* the sectors
    op          \* the request each thread has under way

absvars == <<store, op>>

None   == [state |-> "none", write |-> FALSE, sector |-> 0, left |-> 0,
           data |-> <<>>]
Failed == [None EXCEPT !.state = "failed"]

Active(w, s, n, d) ==
    [state |-> "active", write |-> w, sector |-> s, left |-> n, data |-> d]

(* One sector of the request moves: for a write the next value given, for a *)
(* read a value more received.                                              *)
Moved(o) ==
    Active(o.write, o.sector + 1, o.left - 1,
           IF o.write THEN Tail(o.data) ELSE Append(o.data, store[o.sector]))

Init ==
    /\ store \in [0 .. NBlocks - 1 -> Values]
    /\ op = [t \in Threads |-> None]

Invoke(t) ==
    /\ op[t].state = "none"
    /\ \E w \in BOOLEAN, s \in 0 .. NBlocks, n \in 0 .. MaxLen :
          /\ s + n <= NBlocks
          /\ \E d \in IF w THEN [1 .. n -> Values] ELSE {<<>>} :
                op' = [op EXCEPT ![t] = Active(w, s, n, d)]
    /\ UNCHANGED store

Reject(t) ==
    /\ op[t].state = "none"
    /\ op' = [op EXCEPT ![t] = Failed]
    /\ UNCHANGED store

Transfer(t) ==
    /\ op[t].state = "active" /\ op[t].left > 0
    /\ op' = [op EXCEPT ![t] = Moved(@)]
    /\ store' = IF op[t].write
                THEN [store EXCEPT ![op[t].sector] = Head(op[t].data)]
                ELSE store

Succeed(t) ==
    /\ op[t].state = "active" /\ op[t].left = 0
    /\ op' = [op EXCEPT ![t].state = "ok"]
    /\ UNCHANGED store

Fail(t) ==
    /\ op[t].state = "active"
    /\ op' = [op EXCEPT ![t] = Failed]
    /\ UNCHANGED store

Return(t) ==
    /\ op[t].state \in {"ok", "failed"}
    /\ op' = [op EXCEPT ![t] = None]
    /\ UNCHANGED store

Next == \E t \in Threads :
    \/ Invoke(t) \/ Reject(t) \/ Transfer(t)
    \/ Succeed(t) \/ Fail(t) \/ Return(t)

Spec == Init /\ [][Next]_absvars
=============================================================================
