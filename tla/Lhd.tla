--------------------------------- MODULE Lhd ---------------------------------
(***************************************************************************)
(* The disk driver kern/dev/lamebus/lhd.c (lhd_io and the interrupt handler *)
(* lhd_irq) under its two callers: sfs_rwblock (kern/fs/sfs/sfs_io.c), one  *)
(* sector at a time with retries, and the raw device (dev_read and          *)
(* dev_write of kern/fs/vfs/device.c), runs of sectors without retries.     *)
(*                                                                          *)
(* Offsets and lengths are in sectors.  P and V are the atomic steps that   *)
(* module Threads shows the semaphores to be; between any two other steps   *)
(* of a thread, other threads, the card and the interrupt may run.  The     *)
(* card is external: it finishes a command as a success or as a media       *)
(* error, moving the sector in the first case only.                         *)
(***************************************************************************)
EXTENDS Integers, Sequences

CONSTANTS
    Threads,    \* threads doing disk I/O, through sfs or
    RawUsers,   \*   (some of them) on the raw device
    NBlocks,    \* lh_dev.d_blocks
    RawLens,    \* lengths of raw requests, in sectors
    MaxTries,   \* retries of sfs_rwblock (10 in the code)
    Values      \* what a sector can hold

ASSUME DiskAssumption == NBlocks \in Nat \ {0} /\ RawLens \subseteq Nat \ {0}
ASSUME LengthAssumption ==      \* uio_resid is a machine word
    \E m \in {1} \cup RawLens : \A n \in {1} \cup RawLens : n <= m
ASSUME UserAssumption == RawUsers \subseteq Threads
ASSUME TriesAssumption == MaxTries \in Nat

VARIABLES
    disk,       \* the sectors, as the card holds them
    card,       \* the card's registers and its buffer
    lh_result, lh_clear, lh_done,   \* struct lhd_softc
    io,         \* per thread: the uio, and the locals of sfs_rwblock, lhd_io
    landed      \* sectors the card has moved for the thread's call of lhd_io

vars == <<disk, card, lh_result, lh_clear, lh_done, io, landed>>

Done    == {"ok", "media", "invsect"}

(* A thread at pc with a uio; the locals of lhd_io are not set yet. *)
Locals(pc, sfs, write, aligned, s, n, d) ==
    [pc |-> pc, sfs |-> sfs, write |-> write, aligned |-> aligned,
     uio_offset |-> s, uio_resid |-> n, data |-> d, want |-> n,
     sector |-> 0, len |-> 0, i |-> 0, tries |-> 0, result |-> "0"]

Idle == Locals("idle", FALSE, FALSE, TRUE, 0, 0, <<>>)

Init ==
    /\ disk \in [0 .. NBlocks - 1 -> Values]
    /\ \E v \in Values :
          card = [stat |-> "idle", write |-> FALSE, sect |-> 0, buf |-> v]
    /\ lh_result = "0"
    /\ lh_clear = 1
    /\ lh_done = 0
    /\ io = [t \in Threads |-> Idle]
    /\ landed = [t \in Threads |-> 0]

At(t, pc) == io[t].pc = pc

(* The thread's locals change, and it goes on at pc. *)
Go(t, pc) == io' = [io EXCEPT ![t].pc = pc]
Ret(t, result) == io' = [io EXCEPT ![t].pc = "ret", ![t].result = result]

------------------------------------------------------------------------------
(* A caller builds a uio.  sfs asks for single sectors it knows to exist,   *)
(* the raw device for whatever its user asked.                              *)
Request(t) ==
    /\ At(t, "idle")
    /\ \E sfs, write, aligned \in BOOLEAN,
          s \in 0 .. NBlocks, n \in {1} \cup RawLens :
          /\ IF sfs THEN n = 1 /\ s < NBlocks /\ aligned
                    ELSE n \in RawLens /\ t \in RawUsers
          /\ \E d \in IF write THEN [1 .. n -> Values] ELSE {<<>>} :
                io' = [io EXCEPT ![t] =
                         Locals("d_io", sfs, write, aligned, s, n, d)]
    /\ UNCHANGED <<disk, card, lh_result, lh_clear, lh_done, landed>>

(* lhd_io: the refusals, and the start of the loop over the sectors. *)
Enter(t) ==
    LET r == io[t] IN
    /\ At(t, "d_io")
    /\ IF ~r.aligned \/ r.uio_offset + r.uio_resid > NBlocks
       THEN Ret(t, "EINVAL")
       ELSE io' = [io EXCEPT ![t].pc = "loop", ![t].i = 0,
                             ![t].sector = r.uio_offset,
                             ![t].len = r.uio_resid]
    /\ landed' = [landed EXCEPT ![t] = 0]
    /\ UNCHANGED <<disk, card, lh_result, lh_clear, lh_done>>

Finish(t) ==
    /\ At(t, "loop") /\ io[t].i = io[t].len
    /\ Ret(t, "0")
    /\ UNCHANGED <<disk, card, lh_result, lh_clear, lh_done, landed>>

M_Acquire(t) ==      \* the device is not waited for
    /\ At(t, "loop") /\ io[t].i < io[t].len
    /\ lh_clear' = IF lh_clear > 0 THEN lh_clear - 1 ELSE 0
    /\ Go(t, IF io[t].write THEN "fill" ELSE "sect")
    /\ UNCHANGED <<disk, card, lh_result, lh_done, landed>>

(* P(lh_clear) *)
Acquire(t) ==
    /\ At(t, "loop") /\ io[t].i < io[t].len
    /\ lh_clear > 0
    /\ lh_clear' = lh_clear - 1
    /\ Go(t, IF io[t].write THEN "fill" ELSE "sect")
    /\ UNCHANGED <<disk, card, lh_result, lh_done, landed>>

(* A write fills the card's buffer; uiomove consumes that part of the uio. *)
Fill(t) ==
    /\ At(t, "fill")
    /\ card' = [card EXCEPT !.buf = Head(io[t].data)]
    /\ io' = [io EXCEPT ![t].pc = "sect", ![t].data = Tail(@),
                        ![t].uio_offset = @ + 1, ![t].uio_resid = @ - 1]
    /\ UNCHANGED <<disk, lh_result, lh_clear, lh_done, landed>>

M_FillFault(t) ==    \* returns without V(lh_clear)
    /\ At(t, "fill")
    /\ Ret(t, "EFAULT")
    /\ UNCHANGED <<disk, card, lh_result, lh_clear, lh_done, landed>>

(* The user's buffer cannot be read: uiomove fails. *)
FillFault(t) ==
    /\ At(t, "fill")
    /\ lh_clear' = lh_clear + 1
    /\ Ret(t, "EFAULT")
    /\ UNCHANGED <<disk, card, lh_result, lh_done, landed>>

SetSector(t) ==
    /\ At(t, "sect")
    /\ card' = [card EXCEPT !.sect = io[t].sector + io[t].i]
    /\ Go(t, "start")
    /\ UNCHANGED <<disk, lh_result, lh_clear, lh_done, landed>>

Start(t) ==
    /\ At(t, "start")
    /\ card' = [card EXCEPT !.stat = "working", !.write = io[t].write]
    /\ Go(t, "wait")
    /\ UNCHANGED <<disk, lh_result, lh_clear, lh_done, landed>>

(* P(lh_done) *)
Wait(t) ==
    /\ At(t, "wait")
    /\ lh_done > 0
    /\ lh_done' = lh_done - 1
    /\ Go(t, "result")
    /\ UNCHANGED <<disk, card, lh_result, lh_clear, landed>>

M_Result(t) ==       \* the result is not looked at
    /\ At(t, "result")
    /\ io' = [io EXCEPT ![t].result = "0",
                        ![t].pc = IF io[t].write THEN "clear" ELSE "out"]
    /\ UNCHANGED <<disk, card, lh_result, lh_clear, lh_done, landed>>

Result(t) ==
    /\ At(t, "result")
    /\ io' = [io EXCEPT
                ![t].result = lh_result,
                ![t].pc = IF lh_result = "0" /\ ~io[t].write
                          THEN "out" ELSE "clear"]
    /\ UNCHANGED <<disk, card, lh_result, lh_clear, lh_done, landed>>

M_MoveOut(t) ==      \* the device is given up before the buffer is emptied
    /\ At(t, "out")
    /\ IF lh_clear = 0
       THEN lh_clear' = 1 /\ io' = io
       ELSE /\ io' = [io EXCEPT ![t].pc = "clear",
                         ![t].data = Append(@, card.buf),
                         ![t].uio_offset = @ + 1, ![t].uio_resid = @ - 1]
            /\ lh_clear' = lh_clear
    /\ UNCHANGED <<disk, card, lh_result, lh_done, landed>>

(* A successful read empties the card's buffer, *)
MoveOut(t) ==
    /\ At(t, "out")
    /\ io' = [io EXCEPT ![t].pc = "clear",
                        ![t].data = Append(@, card.buf),
                        ![t].uio_offset = @ + 1, ![t].uio_resid = @ - 1]
    /\ UNCHANGED <<disk, card, lh_result, lh_clear, lh_done, landed>>

(* or cannot write the user's buffer. *)
MoveOutFault(t) ==
    /\ At(t, "out")
    /\ io' = [io EXCEPT ![t].pc = "clear", ![t].result = "EFAULT"]
    /\ UNCHANGED <<disk, card, lh_result, lh_clear, lh_done, landed>>

(* V(lh_clear), and the end of this turn of the loop. *)
Clear(t) ==
    /\ At(t, "clear")
    /\ lh_clear' = lh_clear + 1
    /\ io' = [io EXCEPT
                ![t].pc = IF io[t].result = "0" THEN "loop" ELSE "ret",
                ![t].i  = IF io[t].result = "0" THEN @ + 1 ELSE @]
    /\ UNCHANGED <<disk, card, lh_result, lh_done, landed>>

(* sfs_rwblock tries again, with the same uio, after an I/O error. *)
MustRetry(t) ==
    io[t].sfs /\ io[t].result = "EIO" /\ io[t].tries < MaxTries

Retry(t) ==
    /\ At(t, "ret") /\ MustRetry(t)
    /\ io' = [io EXCEPT ![t].pc = "d_io", ![t].tries = @ + 1]
    /\ UNCHANGED <<disk, card, lh_result, lh_clear, lh_done, landed>>

(* The caller has its answer; EINVAL would make sfs_rwblock panic. *)
Return(t) ==
    /\ At(t, "ret") /\ ~MustRetry(t)
    /\ ~(io[t].sfs /\ io[t].result = "EINVAL")
    /\ io' = [io EXCEPT ![t] = Idle]
    /\ landed' = [landed EXCEPT ![t] = 0]
    /\ UNCHANGED <<disk, card, lh_result, lh_clear, lh_done>>

------------------------------------------------------------------------------
(* The card moves the sector, or fails. *)
CardOk ==
    /\ card.stat = "working" /\ card.sect < NBlocks
    /\ disk' = IF card.write THEN [disk EXCEPT ![card.sect] = card.buf]
                             ELSE disk
    /\ card' = [card EXCEPT !.stat = "ok",
                            !.buf = IF card.write THEN @ ELSE disk[card.sect]]
    /\ landed' = [t \in Threads |->
                    IF At(t, "wait") THEN landed[t] + 1 ELSE landed[t]]
    /\ UNCHANGED <<lh_result, lh_clear, lh_done, io>>

CardFail ==
    /\ card.stat = "working"
    /\ card' = [card EXCEPT !.stat = IF card.sect < NBlocks THEN "media"
                                                            ELSE "invsect"]
    /\ UNCHANGED <<disk, lh_result, lh_clear, lh_done, io, landed>>

(* lhd_code_to_errno *)
Errno(stat) == CASE stat = "ok"      -> "0"
                 [] stat = "invsect" -> "EINVAL"
                 [] stat = "media"   -> "EIO"

M_lhd_irq ==        \* nobody is told of a failure
    /\ card.stat \in Done
    /\ card' = [card EXCEPT !.stat = "idle", !.write = FALSE]
    /\ lh_result' = Errno(card.stat)
    /\ lh_done' = IF card.stat = "media" THEN lh_done ELSE lh_done + 1
    /\ UNCHANGED <<disk, lh_clear, io, landed>>

(* The interrupt of a card that has finished. *)
lhd_irq ==
    /\ card.stat \in Done
    /\ card' = [card EXCEPT !.stat = "idle", !.write = FALSE]
    /\ lh_result' = Errno(card.stat)
    /\ lh_done' = lh_done + 1
    /\ UNCHANGED <<disk, lh_clear, io, landed>>

Step(t) ==
    \/ Enter(t) \/ Finish(t) \/ Acquire(t) \/ Fill(t) \/ FillFault(t)
    \/ SetSector(t) \/ Start(t) \/ Wait(t) \/ Result(t) \/ MoveOut(t)
    \/ MoveOutFault(t) \/ Clear(t) \/ Retry(t) \/ Return(t)

Next ==
    \/ \E t \in Threads : Request(t) \/ Step(t)
    \/ CardOk \/ CardFail
    \/ lhd_irq

(* A thread that can run runs (module Threads), a card that was started     *)
(* finishes, and interrupts are not left off for ever.                      *)
Fairness ==
    /\ \A t \in Threads : WF_vars(Step(t))
    /\ WF_vars(CardOk \/ CardFail)
    /\ WF_vars(lhd_irq)

Spec == Init /\ [][Next]_vars /\ Fairness
------------------------------------------------------------------------------
MaxLen == CHOOSE m \in {1} \cup RawLens : \A n \in {1} \cup RawLens : n <= m

(* Between P(lh_clear) and V(lh_clear). *)
InDevice(t) ==
    io[t].pc \in {"fill", "sect", "start", "wait", "result", "out", "clear"}

(***************************************************************************)
(* The registers, the buffer and lh_result are used by one thread at a      *)
(* time, and on every path out of lhd_io, its error returns included, the   *)
(* device is given back: lh_clear counts exactly the absence of a user.     *)
(***************************************************************************)
OneUser ==
    /\ \A t, u \in Threads : InDevice(t) /\ InDevice(u) => t = u
    /\ lh_clear = IF \E t \in Threads : InDevice(t) THEN 0 ELSE 1

(***************************************************************************)
(* lhd_io starts the card before it waits.  Whoever waits on lh_done has    *)
(* exactly one completion to come - the card is working, or has finished    *)
(* and the interrupt is due, or the V was done - and when nobody waits      *)
(* there is none: no completion is lost, and none is left for a later       *)
(* request to take for its own.                                             *)
(***************************************************************************)
OneCompletion ==
    LET waiting == \E t \in Threads : At(t, "wait")
    IN  /\ lh_done \in 0 .. 1
        /\ lh_done = 1 => waiting /\ card.stat = "idle"
        /\ card.stat # "idle" => waiting
        /\ waiting => lh_done = 1 \/ card.stat # "idle"

(***************************************************************************)
(* A caller that is told 0 has had the card move every sector it asked for, *)
(* whatever the errors and the other threads' requests on the way.  One     *)
(* case must be left out: sfs_rwblock's retry of a write.  The first call   *)
(* of lhd_io has moved the uio past the data, so the retry asks for nothing *)
(* and succeeds with nothing written.                                       *)
(***************************************************************************)
SuccessMeansLanded ==
    \A t \in Threads :
        At(t, "ret") /\ io[t].result = "0" =>
            \/ landed[t] = io[t].want
            \/ io[t].sfs /\ io[t].write /\ io[t].tries > 0

(***************************************************************************)
(* The driver implements SectorDisk: a sector moves at the instant the card *)
(* finishes with it.  A write's value is by then out of the uio and in the  *)
(* buffer; a read's is in the buffer and not yet in the uio.                *)
(***************************************************************************)
AbsNone == [state |-> "none", write |-> FALSE, sector |-> 0, left |-> 0,
            data |-> <<>>]

AbstractOp(t) ==
    LET r == io[t]
        left == r.len - landed[t]
        data == IF r.write
                THEN IF r.uio_resid < left THEN <<card.buf>> \o r.data ELSE r.data
                ELSE IF Len(r.data) < landed[t] THEN Append(r.data, card.buf)
                                                ELSE r.data
    IN  CASE r.pc \in {"idle", "d_io"} -> AbsNone
          [] r.pc = "ret" /\ r.result # "0" -> [AbsNone EXCEPT !.state = "failed"]
          [] OTHER -> [state  |-> IF r.pc = "ret" THEN "ok" ELSE "active",
                       write  |-> r.write,
                       sector |-> r.sector + landed[t],
                       left   |-> left, data |-> data]

Disk == INSTANCE SectorDisk WITH
            store <- disk, op <- [t \in Threads |-> AbstractOp(t)]
AbsSpec == Disk!Spec

(***************************************************************************)
(* No thread keeps the device for ever: whatever the card answers and       *)
(* whatever uiomove says, lh_clear comes back.                              *)
(***************************************************************************)
GivenBack == lh_clear = 0 ~> lh_clear = 1

------------------------------------------------------------------------------
(* A statement of a comment in the code that the code does not keep.        *)

(***************************************************************************)
(* lhd.c at the end of lhd_io's loop: "If we failed, return the error."     *)
(* What sfs_rwblock answers its caller should say the same of its retries:  *)
(* a block reported as written has been written.                            *)
(***************************************************************************)
SuccessIsWritten ==
    \A t \in Threads :
        At(t, "ret") /\ io[t].sfs /\ io[t].write /\ io[t].result = "0" =>
            landed[t] = io[t].want
==============================================================================
