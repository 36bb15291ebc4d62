------------------------------ MODULE Lhd_proofs ------------------------------
(***************************************************************************)
(* Proofs about Lhd for every number of threads, sectors and retries.  IInv *)
(* is the inductive invariant.                                              *)
(***************************************************************************)
EXTENDS Lhd, TLAPS

Holding == {"fill", "sect", "start", "wait", "result", "out", "clear"}

PCs == {"idle", "d_io", "loop", "ret"} \cup Holding

LocalsType ==
    [pc : PCs, sfs : BOOLEAN, write : BOOLEAN, aligned : BOOLEAN,
     uio_offset : Nat, uio_resid : Nat, data : Seq(Values), want : Nat,
     sector : Nat, len : Nat, i : Nat, tries : Nat,
     result : {"0", "EIO", "EINVAL", "EFAULT"}]

CardType == [stat : {"idle", "working"} \cup Done, write : BOOLEAN,
             sect : Nat, buf : Values]

TypeOK ==
    /\ disk \in [0 .. NBlocks - 1 -> Values]
    /\ card \in CardType
    /\ lh_result \in {"0", "EIO", "EINVAL"}
    /\ lh_clear \in 0 .. 1 /\ lh_done \in 0 .. 1
    /\ io \in [Threads -> LocalsType]
    /\ landed \in [Threads -> Nat]

(* How much of the request the uio still has when lhd_io is at r.pc. *)
Unmoved(r) ==
    IF \/ r.write /\ r.pc \in Holding \ {"fill"}
       \/ ~r.write /\ r.pc = "clear" /\ r.result = "0"
    THEN r.len - r.i - 1
    ELSE r.len - r.i

(* The locals of a thread agree with its uio and with its request. *)
LocalsInv(r) ==
    /\ r.pc # "idle" => r.want \in {1} \cup RawLens
    /\ r.uio_resid <= r.want
    /\ r.write => Len(r.data) = r.uio_resid
    /\ ~r.write /\ r.pc = "d_io" => Len(r.data) = 0
    /\ ~r.write /\ r.pc \in Holding \cup {"loop"} =>
          Len(r.data) = r.len - r.uio_resid
    /\ r.pc = "fill" => r.write
    /\ r.pc = "out" => ~r.write /\ r.result = "0"
    /\ r.pc = "clear" => r.result # "EINVAL"
    /\ r.pc \in Holding \cup {"loop"} =>
          /\ r.sector + r.len <= NBlocks
          /\ r.i <= r.len /\ r.uio_resid = Unmoved(r)
    /\ r.pc \in Holding => r.i < r.len

(* sfs asks for one sector that exists, and only sfs tries again. *)
CallerInv(r) ==
    /\ r.sfs => /\ r.want = 1 /\ r.aligned
                /\ r.uio_offset + r.uio_resid <= NBlocks
                /\ r.pc = "ret" => r.result # "EINVAL"
    /\ ~r.sfs => r.tries = 0
    /\ ~r.write \/ r.tries = 0 =>
          /\ r.pc = "d_io" => r.uio_resid = r.want
          /\ r.pc \in Holding \cup {"loop"} => r.len = r.want
          /\ r.pc = "ret" /\ r.sfs /\ r.result = "EIO" /\ ~r.write =>
                r.uio_resid = r.want /\ Len(r.data) = 0

(* The card works on the sector its user asked for. *)
CardInv ==
    /\ \A t \in Threads : At(t, "start") \/ At(t, "wait") =>
          card.sect = io[t].sector + io[t].i
    /\ \A t \in Threads : At(t, "wait") /\ card.stat = "working" =>
          card.write = io[t].write
    /\ \A t \in Threads : At(t, "wait") => card.stat # "invsect"
    /\ \A t \in Threads : At(t, "wait") /\ lh_done = 1 => lh_result # "EINVAL"
    /\ \A t \in Threads : At(t, "result") => lh_result # "EINVAL"

(* What the card has moved, at each place of lhd_io. *)
Moved(t) ==
    \/ At(t, "wait") /\ (card.stat = "ok" \/ (lh_done = 1 /\ lh_result = "0"))
    \/ At(t, "result") /\ lh_result = "0"
    \/ At(t, "out")
    \/ At(t, "clear") /\ io[t].result = "0"

LandedInv(t) ==
    LET r == io[t]
    IN  /\ r.pc \in (Holding \cup {"loop"}) \ {"clear"} =>
              landed[t] = r.i + (IF Moved(t) THEN 1 ELSE 0)
        /\ r.pc = "clear" =>
              /\ landed[t] \in {r.i, r.i + 1}
              /\ r.result = "0" => landed[t] = r.i + 1
        /\ r.pc = "ret" /\ r.result = "0" =>
              /\ landed[t] = r.len
              /\ ~r.write => Len(r.data) = r.len
              /\ ~r.write \/ r.tries = 0 => landed[t] = r.want

IInv ==
    /\ TypeOK
    /\ \A t \in Threads : LocalsInv(io[t]) /\ CallerInv(io[t]) /\ LandedInv(t)
    /\ OneUser /\ OneCompletion /\ CardInv

------------------------------------------------------------------------------
LEMMA InitInv == Init => IInv
<1> SUFFICES ASSUME Init PROVE IInv
  OBVIOUS
<1>1. Idle \in LocalsType
  BY DEF Idle, Locals, LocalsType, PCs, Holding
<1>2. TypeOK
  <2>1. card \in CardType
    BY DEF Init, CardType
  <2> QED BY <1>1, <2>1 DEF Init, TypeOK
<1>3. ASSUME NEW t \in Threads
      PROVE  io[t] = Idle /\ Idle.pc = "idle" /\ landed[t] = 0
  BY DEF Init, Idle, Locals
<1>4. ASSUME NEW t \in Threads
      PROVE  LocalsInv(io[t]) /\ CallerInv(io[t]) /\ LandedInv(t)
  BY <1>3 DEF Idle, Locals, LocalsInv, CallerInv, LandedInv, Holding
<1>5. OneUser /\ OneCompletion /\ CardInv
  BY <1>3 DEF Init, OneUser, OneCompletion, CardInv, InDevice, At
<1> QED BY <1>2, <1>4, <1>5 DEF IInv

(* A step of t leaves the threads it does not touch as they are, unless it  *)
(* changes the registers under a thread that has the device.                *)
LEMMA OthersKeep ==
    ASSUME IInv, NEW t \in Threads, NEW u \in Threads \ {t},
           io'[u] = io[u], landed'[u] = landed[u],
           InDevice(t) \/ UNCHANGED <<card, lh_result, lh_done>>
    PROVE  LocalsInv(io'[u]) /\ CallerInv(io'[u]) /\ LandedInv(u)'
<1>1. LocalsInv(io'[u]) /\ CallerInv(io'[u])
  BY DEF IInv
<1> SUFFICES LandedInv(u)'
  BY <1>1
<1>2. LandedInv(u)
  BY DEF IInv
<1>3. CASE UNCHANGED <<card, lh_result, lh_done>>
  BY <1>2, <1>3 DEF LandedInv, Moved, At
<1>4. CASE InDevice(t)
  <2>1. ~At(u, "wait") /\ ~At(u, "result")
    BY <1>4 DEF IInv, OneUser, InDevice, At
  <2> QED BY <1>2, <2>1 DEF LandedInv, Moved, At
<1> QED BY <1>3, <1>4

(* A thread that has the device has it alone, and unless it waits, the card *)
(* is idle.                                                                 *)
LEMMA DeviceFacts ==
    ASSUME IInv, NEW t \in Threads, InDevice(t)
    PROVE  /\ \A u \in Threads : InDevice(u) => u = t
           /\ lh_clear = 0
           /\ ~At(t, "wait") => card.stat = "idle" /\ lh_done = 0
<1>1. \A u \in Threads : InDevice(u) => u = t
  BY DEF IInv, OneUser
<1>2. \A u \in Threads : At(u, "wait") => InDevice(u)
  BY DEF At, InDevice
<1> QED BY <1>1, <1>2 DEF IInv, OneUser, OneCompletion

(* A thread that stays outside the device changes nothing for the others.   *)
LEMMA OutsideKeep ==
    ASSUME IInv, NEW t \in Threads, ~InDevice(t), ~InDevice(t)',
           \A u \in Threads \ {t} : io'[u] = io[u],
           UNCHANGED <<card, lh_result, lh_clear, lh_done>>
    PROVE  OneUser' /\ OneCompletion' /\ CardInv'
<1>1. /\ ~At(t, "wait") /\ ~At(t, "start") /\ ~At(t, "result")
      /\ ~At(t, "wait")' /\ ~At(t, "start")' /\ ~At(t, "result")'
  BY DEF At, InDevice
<1>2. \A u \in Threads : InDevice(u)' = InDevice(u)
  BY DEF InDevice
<1>3. \A u \in Threads : At(u, "wait")' = At(u, "wait")
  BY <1>1 DEF At
<1>4. OneUser' /\ OneCompletion'
  BY <1>2, <1>3 DEF IInv, OneUser, OneCompletion
<1>5. CardInv'
  BY <1>1 DEF IInv, CardInv, At
<1> QED BY <1>4, <1>5

(* A thread that keeps the device without waiting does not either.          *)
LEMMA InsideKeep ==
    ASSUME IInv, NEW t \in Threads, InDevice(t), InDevice(t)',
           ~At(t, "wait"), ~At(t, "wait")',
           \A u \in Threads \ {t} : io'[u] = io[u],
           card'.stat = card.stat, UNCHANGED <<lh_clear, lh_done>>
    PROVE  /\ OneUser' /\ OneCompletion'
           /\ \A u \in Threads \ {t} : ~InDevice(u)'
<1>1. \A u \in Threads : InDevice(u)' = InDevice(u)
  BY DEF InDevice
<1>2. \A u \in Threads : At(u, "wait")' = At(u, "wait")
  BY DEF At
<1> QED BY <1>1, <1>2 DEF IInv, OneUser, OneCompletion

(* With nobody else at the device, CardInv is about t alone.                *)
LEMMA CardOfUser ==
    ASSUME NEW t \in Threads, \A u \in Threads \ {t} : ~InDevice(u),
           At(t, "start") \/ At(t, "wait") =>
               card.sect = io[t].sector + io[t].i,
           At(t, "wait") /\ card.stat = "working" => card.write = io[t].write,
           At(t, "wait") => card.stat # "invsect",
           At(t, "wait") /\ lh_done = 1 => lh_result # "EINVAL",
           At(t, "result") => lh_result # "EINVAL"
    PROVE  CardInv
<1>1. \A u \in Threads : At(u, "start") \/ At(u, "wait") \/ At(u, "result")
                            => u = t
  BY DEF At, InDevice
<1> QED BY <1>1 DEF CardInv

(* Giving the device back. *)
LEMMA ReleaseKeep ==
    ASSUME IInv, NEW t \in Threads, InDevice(t), ~InDevice(t)', ~At(t, "wait"),
           \A u \in Threads \ {t} : io'[u] = io[u], lh_clear' = lh_clear + 1,
           UNCHANGED <<card, lh_result, lh_done>>
    PROVE  OneUser' /\ OneCompletion' /\ CardInv'
<1>1. \A u \in Threads : ~InDevice(u)'
  BY DeviceFacts DEF InDevice
<1>2. \A u \in Threads : ~At(u, "wait")' /\ ~At(u, "start")' /\ ~At(u, "result")'
  BY <1>1 DEF At, InDevice
<1>3. OneUser'
  BY <1>1, DeviceFacts DEF OneUser
<1>4. OneCompletion'
  BY <1>2, DeviceFacts DEF OneCompletion
<1>5. CardInv'
  BY <1>2 DEF CardInv
<1> QED BY <1>3, <1>4, <1>5

LEMMA SeqFacts ==
    ASSUME NEW s \in Seq(Values)
    PROVE  /\ \A v \in Values : /\ Append(s, v) \in Seq(Values)
                               /\ Len(Append(s, v)) = Len(s) + 1
           /\ Len(s) > 0 => /\ Head(s) \in Values
                            /\ Tail(s) \in Seq(Values)
                            /\ Len(Tail(s)) = Len(s) - 1
OBVIOUS

LEMMA FieldTypes ==
    ASSUME NEW r \in LocalsType
    PROVE  /\ r.pc \in PCs /\ r.sfs \in BOOLEAN /\ r.write \in BOOLEAN
           /\ r.uio_offset \in Nat /\ r.uio_resid \in Nat
           /\ r.data \in Seq(Values) /\ r.want \in Nat /\ r.sector \in Nat
           /\ r.len \in Nat /\ r.i \in Nat /\ r.tries \in Nat
           /\ r.result \in {"0", "EIO", "EINVAL", "EFAULT"}
BY DEF LocalsType

(* What a step of t must establish: r are its locals after it.              *)
LEMMA Assemble ==
    ASSUME IInv, NEW t \in Threads, NEW r \in LocalsType,
           io' = [io EXCEPT ![t] = r], disk' = disk,
           card' \in CardType, lh_result' = lh_result,
           lh_clear' \in 0 .. 1, lh_done' \in 0 .. 1,
           landed' \in [Threads -> Nat],
           \A u \in Threads \ {t} : landed'[u] = landed[u],
           InDevice(t) \/ UNCHANGED <<card, lh_done>>,
           LocalsInv(r), CallerInv(r), LandedInv(t)',
           OneUser', OneCompletion', CardInv'
    PROVE  IInv'
<1>1. io' \in [Threads -> LocalsType] /\ io'[t] = r
  BY DEF IInv, TypeOK
<1>2. TypeOK'
  BY <1>1 DEF IInv, TypeOK
<1>3. ASSUME NEW u \in Threads \ {t}
      PROVE  LocalsInv(io'[u]) /\ CallerInv(io'[u]) /\ LandedInv(u)'
  <2>1. io'[u] = io[u]
    BY DEF IInv, TypeOK
  <2> QED BY <2>1, OthersKeep
<1> QED BY <1>1, <1>2, <1>3 DEF IInv

(* What is known of a thread before its step.                               *)
LEMMA Before ==
    ASSUME IInv, NEW t \in Threads
    PROVE  /\ io[t] \in LocalsType /\ landed[t] \in Nat
           /\ LocalsInv(io[t]) /\ CallerInv(io[t]) /\ LandedInv(t)
           /\ card \in CardType /\ lh_clear \in 0 .. 1 /\ lh_done \in 0 .. 1
           /\ landed \in [Threads -> Nat]
           /\ \A r : io' = [io EXCEPT ![t] = r] =>
                 io'[t] = r /\ \A u \in Threads \ {t} : io'[u] = io[u]
BY DEF IInv, TypeOK

LEMMA RequestInv ==
    ASSUME IInv, NEW t \in Threads, Request(t) PROVE IInv'
<1>1. PICK sfs \in BOOLEAN, write \in BOOLEAN, aligned \in BOOLEAN,
           s \in 0 .. NBlocks, n \in {1} \cup RawLens :
        /\ IF sfs THEN n = 1 /\ s < NBlocks /\ aligned
                  ELSE n \in RawLens /\ t \in RawUsers
        /\ \E d \in IF write THEN [1 .. n -> Values] ELSE {<<>>} :
              io' = [io EXCEPT ![t] =
                       Locals("d_io", sfs, write, aligned, s, n, d)]
  BY DEF Request
<1>2. PICK d \in IF write THEN [1 .. n -> Values] ELSE {<<>>} :
         io' = [io EXCEPT ![t] = Locals("d_io", sfs, write, aligned, s, n, d)]
  BY <1>1
<1>3. n \in Nat /\ n > 0 /\ s \in Nat /\ NBlocks \in Nat
  BY DiskAssumption
<1>4. d \in Seq(Values) /\ (write => Len(d) = n)
  <2>1. CASE write
    <3>1. d \in [1 .. n -> Values]
      BY <2>1
    <3> QED BY <3>1, <1>3
  <2>2. CASE ~write
    <3>1. d = <<>>
      BY <2>2
    <3> QED BY <3>1, <2>2
  <2> QED BY <2>1, <2>2
<1> DEFINE r == Locals("d_io", sfs, write, aligned, s, n, d)
<1>6. r \in LocalsType
  BY <1>3, <1>4 DEF Locals, LocalsType, PCs, Holding
<1>7. TypeOK'
  BY <1>2, <1>6, Zenon DEF IInv, TypeOK, Request
<1>8. io'[t] = r /\ \A u \in Threads \ {t} : io'[u] = io[u]
  BY <1>2 DEF IInv, TypeOK
<1>9. LocalsInv(io'[t]) /\ CallerInv(io'[t]) /\ LandedInv(t)'
  BY <1>1, <1>3, <1>4, <1>8 DEF Locals, LocalsInv, CallerInv, LandedInv, Holding
<1>10. ASSUME NEW u \in Threads \ {t}
       PROVE  LocalsInv(io'[u]) /\ CallerInv(io'[u]) /\ LandedInv(u)'
  BY <1>8, OthersKeep DEF Request
<1>11. OneUser' /\ OneCompletion' /\ CardInv'
  <2>1. io[t].pc = "idle" /\ io'[t].pc = "d_io"
    BY <1>8 DEF Request, At, Locals
  <2> QED BY <2>1, <1>8, OutsideKeep DEF InDevice, Request
<1> QED BY <1>7, <1>9, <1>10, <1>11 DEF IInv

LEMMA EnterInv ==
    ASSUME IInv, NEW t \in Threads, Enter(t) PROVE IInv'
<1>1. /\ io[t] \in LocalsType /\ io[t].pc = "d_io"
      /\ LocalsInv(io[t]) /\ CallerInv(io[t]) /\ LandedInv(t)
  BY DEF IInv, TypeOK, Enter, At
<1>2. \A u \in Threads \ {t} : io'[u] = io[u] /\ landed'[u] = landed[u]
  BY DEF IInv, TypeOK, Enter, Ret
<1>3. /\ io' \in [Threads -> LocalsType]
      /\ io'[t].pc \in {"ret", "loop"} /\ landed'[t] = 0
      /\ LocalsInv(io'[t]) /\ CallerInv(io'[t]) /\ LandedInv(t)'
  <2>1. CASE ~io[t].aligned \/ io[t].uio_offset + io[t].uio_resid > NBlocks
    <3>1. io' = [io EXCEPT ![t] = [io[t] EXCEPT !.pc = "ret",
                                                !.result = "EINVAL"]]
      BY <2>1 DEF Enter, Ret
    <3>2. [io[t] EXCEPT !.pc = "ret", !.result = "EINVAL"] \in LocalsType
      BY <1>1 DEF LocalsType, PCs
    <3>3. ~io[t].sfs
      BY <1>1, <2>1, DiskAssumption DEF CallerInv, LocalsType
    <3> QED BY <1>1, <3>1, <3>2, <3>3
            DEF IInv, TypeOK, Enter, LocalsType, LocalsInv, CallerInv,
                LandedInv, Holding
  <2>2. CASE ~(~io[t].aligned \/ io[t].uio_offset + io[t].uio_resid > NBlocks)
    <3> DEFINE r == [io[t] EXCEPT !.pc = "loop", !.i = 0,
                                  !.sector = io[t].uio_offset,
                                  !.len = io[t].uio_resid]
    <3>1. io' = [io EXCEPT ![t] = r]
      BY <2>2 DEF Enter
    <3>2. r \in LocalsType
      BY <1>1 DEF LocalsType, PCs
    <3>3. io'[t] = r /\ io' \in [Threads -> LocalsType] /\ landed'[t] = 0
      BY <3>1, <3>2 DEF IInv, TypeOK, Enter
    <3> HIDE DEF r
    <3>4. /\ r.pc = "loop" /\ r.i = 0 /\ r.sector = r.uio_offset
          /\ r.len = r.uio_resid /\ r.uio_offset + r.uio_resid <= NBlocks
          /\ r.uio_offset = io[t].uio_offset /\ r.uio_resid = io[t].uio_resid
          /\ r.sfs = io[t].sfs /\ r.write = io[t].write /\ r.data = io[t].data
          /\ r.aligned = io[t].aligned /\ r.want = io[t].want
          /\ r.tries = io[t].tries
      BY <1>1, <2>2, DiskAssumption DEF r, LocalsType
    <3>5. LocalsInv(r) /\ CallerInv(r)
      BY <1>1, <3>2, <3>4, DiskAssumption
         DEF LocalsType, LocalsInv, CallerInv, Unmoved, Holding
    <3>6. LandedInv(t)'
      BY <3>3, <3>4 DEF LandedInv, Moved, At, Holding
    <3> QED BY <3>3, <3>4, <3>5, <3>6
  <2> QED BY <2>1, <2>2
<1>4. TypeOK'
  BY <1>3 DEF IInv, TypeOK, Enter
<1>5. ASSUME NEW u \in Threads \ {t}
      PROVE  LocalsInv(io'[u]) /\ CallerInv(io'[u]) /\ LandedInv(u)'
  BY <1>2, OthersKeep DEF Enter
<1>6. OneUser' /\ OneCompletion' /\ CardInv'
  BY <1>1, <1>2, <1>3, OutsideKeep DEF InDevice, Enter
<1> QED BY <1>3, <1>4, <1>5, <1>6 DEF IInv

LEMMA FinishInv ==
    ASSUME IInv, NEW t \in Threads, Finish(t) PROVE IInv'
<1> DEFINE r == [io[t] EXCEPT !.pc = "ret", !.result = "0"]
<1>0. io' = [io EXCEPT ![t] = r]
  BY DEF Finish, Ret, At
<1>1. io[t].pc = "loop"
  BY DEF Finish, At
<1>2. io[t] \in LocalsType /\ LocalsInv(io[t]) /\ CallerInv(io[t])
  BY Before
<1>3. r \in LocalsType
  BY <1>1, <1>2 DEF LocalsType, PCs, Holding
<1>4. /\ r.pc = "ret" /\ r.result = "0" /\ (r.sfs <=> io[t].sfs)
      /\ (r.write <=> io[t].write) /\ (r.aligned <=> io[t].aligned)
      /\ r.uio_offset = io[t].uio_offset /\ r.uio_resid = io[t].uio_resid
      /\ r.data = io[t].data /\ r.want = io[t].want
      /\ r.sector = io[t].sector /\ r.len = io[t].len /\ r.i = io[t].i
      /\ r.tries = io[t].tries
  BY <1>2 DEF LocalsType
<1>5. io'[t] = r /\ \A u \in Threads \ {t} : io'[u] = io[u]
  BY <1>0, Before
<1> HIDE DEF r
<1>6. LocalsInv(r) /\ CallerInv(r)
  BY <1>1, <1>2, <1>3, <1>4, DiskAssumption, FieldTypes
     DEF LocalsInv, CallerInv, Unmoved, Holding
<1>7. LandedInv(t)'
  <2>1. landed[t] = io[t].i /\ io[t].i = io[t].len
    BY <1>1, Before, FieldTypes DEF Finish, LandedInv, Moved, At, Holding
  <2>2. ~io[t].write \/ io[t].tries = 0 => io[t].len = io[t].want
    BY <1>1, <1>2 DEF CallerInv, Holding
  <2>3. ~io[t].write => Len(io[t].data) = io[t].len
    BY <1>1, <1>2, <2>1, FieldTypes DEF LocalsInv, Unmoved, Holding
  <2> QED BY <1>4, <1>5, <2>1, <2>2, <2>3 DEF LandedInv, Holding, Finish
<1>8. OneUser' /\ OneCompletion' /\ CardInv'
  BY <1>1, <1>4, <1>5, OutsideKeep DEF Finish, InDevice, At
<1>9. card' \in CardType /\ lh_clear' \in 0 .. 1 /\ lh_done' \in 0 .. 1
  BY Before DEF Finish
<1> QED
  BY <1>0, <1>1, <1>3, <1>6, <1>7, <1>8, <1>9, Before, Assemble
     DEF Finish, InDevice

LEMMA AcquireInv ==
    ASSUME IInv, NEW t \in Threads, Acquire(t) PROVE IInv'
<1> DEFINE q == IF io[t].write THEN "fill" ELSE "sect"
           r == [io[t] EXCEPT !.pc = q]
<1>0. io' = [io EXCEPT ![t] = r]
  BY DEF Acquire, Go, At
<1>1. io[t].pc = "loop"
  BY DEF Acquire, At
<1>2. io[t] \in LocalsType /\ LocalsInv(io[t]) /\ CallerInv(io[t])
  BY Before
<1>c. /\ io[t].write => q = "fill"
      /\ ~io[t].write => q = "sect"
  BY <1>2 DEF LocalsType
<1> HIDE DEF q
<1>3. r \in LocalsType
  BY <1>1, <1>2, <1>c DEF LocalsType, PCs, Holding
<1>4. /\ r.pc = q /\ (r.sfs <=> io[t].sfs) /\ (r.write <=> io[t].write)
      /\ (r.aligned <=> io[t].aligned) /\ r.uio_offset = io[t].uio_offset
      /\ r.uio_resid = io[t].uio_resid /\ r.data = io[t].data
      /\ r.want = io[t].want /\ r.sector = io[t].sector /\ r.len = io[t].len
      /\ r.i = io[t].i /\ r.tries = io[t].tries /\ r.result = io[t].result
  BY <1>2 DEF LocalsType
<1>5. io'[t] = r /\ \A u \in Threads \ {t} : io'[u] = io[u]
  BY <1>0, Before
<1> HIDE DEF r
<1>6. LocalsInv(r) /\ CallerInv(r)
  <2>1. Unmoved(r) = io[t].len - io[t].i /\ Unmoved(io[t]) = io[t].len - io[t].i
    BY <1>1, <1>2, <1>3, <1>4, <1>c, FieldTypes
       DEF LocalsInv, Unmoved, Holding
  <2>2. LocalsInv(r)
    BY <1>1, <1>2, <1>3, <1>4, <2>1, <1>c, DiskAssumption, FieldTypes
       DEF LocalsInv, Holding, Acquire
  <2>3. CallerInv(r)
    BY <1>1, <1>2, <1>3, <1>4, <2>1, <1>c, DiskAssumption, FieldTypes
       DEF LocalsInv, CallerInv, Holding
  <2> QED BY <2>2, <2>3
<1>7. LandedInv(t)'
  <2>1. landed[t] = io[t].i
    BY <1>1, Before, FieldTypes DEF LandedInv, Moved, At, Holding
  <2>2. r.pc \in {"fill", "sect"}
    BY <1>2, <1>4, <1>c, FieldTypes
  <2>3. ~Moved(t)'
    BY <1>5, <2>2 DEF Moved, At
  <2> QED BY <1>3, <1>4, <1>5, <2>1, <2>2, <2>3, FieldTypes
          DEF LandedInv, Holding, Acquire
<1>8. OneUser' /\ OneCompletion' /\ CardInv'
  <2>1. ~InDevice(t)
    BY <1>1 DEF InDevice
  <2>2. \A u \in Threads : ~InDevice(u)
    BY DEF IInv, OneUser, Acquire
  <2>3. \A u \in Threads : ~At(u, "wait") /\ ~At(u, "start") /\ ~At(u, "result")
    BY <2>2 DEF At, InDevice
  <2>4. card.stat = "idle" /\ lh_done = 0
    BY <2>3, Before DEF IInv, OneCompletion
  <2>5. InDevice(t)' /\ \A u \in Threads \ {t} : ~InDevice(u)'
    BY <1>c, <1>2, <1>4, <1>5, <2>2 DEF InDevice, LocalsType
  <2>6. \A u \in Threads : ~At(u, "wait")' /\ ~At(u, "start")' /\ ~At(u, "result")'
    BY <1>c, <1>2, <1>4, <1>5, <2>3 DEF At, LocalsType
  <2>7. lh_clear' = 0
    BY Before DEF Acquire
  <2> QED BY <2>4, <2>5, <2>6, <2>7 DEF OneUser, OneCompletion, CardInv, Acquire
<1>9. card' \in CardType /\ lh_clear' \in 0 .. 1 /\ lh_done' \in 0 .. 1
  BY <1>1, Before DEF Acquire
<1> QED
  BY <1>0, <1>1, <1>3, <1>6, <1>7, <1>8, <1>9, Before, Assemble
     DEF Acquire, InDevice

LEMMA FillInv ==
    ASSUME IInv, NEW t \in Threads, Fill(t) PROVE IInv'
<1> DEFINE d == Tail(io[t].data)
           o == io[t].uio_offset + 1
           n == io[t].uio_resid - 1
           r == [io[t] EXCEPT !.pc = "sect",
                           !.data = d,
                           !.uio_offset = o,
                           !.uio_resid = n]
<1>0. io' = [io EXCEPT ![t] = r]
  BY DEF Fill, At
<1>1. io[t].pc = "fill"
  BY DEF Fill, At
<1>2. io[t] \in LocalsType /\ LocalsInv(io[t]) /\ CallerInv(io[t])
  BY Before
<1>a. io[t].uio_resid > 0 /\ io[t].uio_resid = Len(io[t].data)
  BY <1>1, <1>2, DiskAssumption, FieldTypes DEF LocalsInv, Unmoved, Holding
<1>b. card'.stat = card.stat
  BY Before DEF Fill, CardType
<1>c. /\ d \in Seq(Values) /\ Len(d) = n /\ Head(io[t].data) \in Values
      /\ o \in Nat /\ n \in Nat /\ n = io[t].uio_resid - 1
      /\ o + n = io[t].uio_offset + io[t].uio_resid
  <2>1. d \in Seq(Values) /\ Len(d) = n /\ Head(io[t].data) \in Values
    BY <1>2, <1>a, SeqFacts, FieldTypes
  <2>2. o \in Nat /\ n \in Nat
    BY <1>2, <1>a, FieldTypes
  <2>3. io[t].uio_offset \in Nat /\ io[t].uio_resid \in Nat
    BY <1>2, FieldTypes
  <2>4. o + n = io[t].uio_offset + io[t].uio_resid
    BY <2>3
  <2> QED BY <2>1, <2>2, <2>4
<1> HIDE DEF d, o, n
<1>3. r \in LocalsType
  BY <1>1, <1>2, <1>c DEF LocalsType, PCs, Holding
<1>4. /\ r.pc = "sect" /\ r.data = d /\ r.uio_offset = o /\ r.uio_resid = n
      /\ (r.sfs <=> io[t].sfs) /\ (r.write <=> io[t].write)
      /\ (r.aligned <=> io[t].aligned) /\ r.want = io[t].want
      /\ r.sector = io[t].sector /\ r.len = io[t].len /\ r.i = io[t].i
      /\ r.tries = io[t].tries /\ r.result = io[t].result
  BY <1>2 DEF LocalsType
<1>5. io'[t] = r /\ \A u \in Threads \ {t} : io'[u] = io[u]
  BY <1>0, Before
<1> HIDE DEF r
<1>6. LocalsInv(r) /\ CallerInv(r)
  <2>1. Unmoved(r) = io[t].len - io[t].i - 1 /\ Unmoved(io[t]) = io[t].len - io[t].i
    BY <1>1, <1>2, <1>3, <1>4, <1>c, FieldTypes
       DEF LocalsInv, Unmoved, Holding
  <2>2. LocalsInv(r)
    <3>1. io[t].write /\ r.write
      BY <1>1, <1>2, <1>4 DEF LocalsInv
    <3>2. n <= r.want /\ r.want \in {1} \cup RawLens
      <4>1. io[t].uio_resid <= io[t].want /\ r.want \in {1} \cup RawLens
        BY <1>1, <1>2, <1>4 DEF LocalsInv
      <4>2. io[t].uio_resid \in Nat /\ io[t].want \in Nat
        BY <1>2, FieldTypes
      <4> QED BY <1>4, <1>c, <4>1, <4>2
    <3> QED BY <1>1, <1>2, <1>4, <2>1, <3>1, <3>2, <1>c, FieldTypes
            DEF LocalsInv, Holding
  <2>3. CallerInv(r)
    BY <1>1, <1>2, <1>3, <1>4, <2>1, <1>c, DiskAssumption, FieldTypes
       DEF LocalsInv, CallerInv, Holding
  <2> QED BY <2>2, <2>3
<1>7. LandedInv(t)'
  <2>1. landed[t] = io[t].i
    BY <1>1, <1>2, Before, FieldTypes DEF LandedInv, Moved, At, Holding
  <2>2. ~Moved(t)'
    BY <1>4, <1>5 DEF Moved, At
  <2> QED BY <1>3, <1>4, <1>5, <2>1, <2>2, FieldTypes DEF LandedInv, Holding, Fill
<1>8. OneUser' /\ OneCompletion' /\ CardInv'
  <2>1. /\ OneUser' /\ OneCompletion'
        /\ \A u \in Threads \ {t} : ~InDevice(u)'
    BY <1>1, <1>c, <1>4, <1>5, <1>b, InsideKeep DEF Fill, InDevice, At
  <2>2. CardInv'
    BY <1>4, <1>5, <2>1 DEF CardInv, At, InDevice
  <2> QED BY <2>1, <2>2
<1>9. card' \in CardType /\ lh_clear' \in 0 .. 1 /\ lh_done' \in 0 .. 1
  BY <1>c, Before DEF Fill, CardType
<1> QED
  BY <1>0, <1>1, <1>3, <1>6, <1>7, <1>8, <1>9, Before, Assemble
     DEF Fill, InDevice

LEMMA FillFaultInv ==
    ASSUME IInv, NEW t \in Threads, FillFault(t) PROVE IInv'
<1> DEFINE r == [io[t] EXCEPT !.pc = "ret", !.result = "EFAULT"]
<1>0. io' = [io EXCEPT ![t] = r]
  BY DEF FillFault, Ret, At
<1>1. io[t].pc = "fill"
  BY DEF FillFault, At
<1>2. io[t] \in LocalsType /\ LocalsInv(io[t]) /\ CallerInv(io[t])
  BY Before
<1>3. r \in LocalsType
  BY <1>1, <1>2 DEF LocalsType, PCs, Holding
<1>4. /\ r.pc = "ret" /\ r.result = "EFAULT" /\ (r.sfs <=> io[t].sfs)
      /\ (r.write <=> io[t].write) /\ (r.aligned <=> io[t].aligned)
      /\ r.uio_offset = io[t].uio_offset /\ r.uio_resid = io[t].uio_resid
      /\ r.data = io[t].data /\ r.want = io[t].want
      /\ r.sector = io[t].sector /\ r.len = io[t].len /\ r.i = io[t].i
      /\ r.tries = io[t].tries
  BY <1>2 DEF LocalsType
<1>5. io'[t] = r /\ \A u \in Threads \ {t} : io'[u] = io[u]
  BY <1>0, Before
<1> HIDE DEF r
<1>6. LocalsInv(r) /\ CallerInv(r)
  BY <1>1, <1>2, <1>3, <1>4, DiskAssumption, FieldTypes
     DEF LocalsInv, CallerInv, Unmoved, Holding
<1>7. LandedInv(t)'
  BY <1>1, <1>2, <1>3, <1>4, <1>5, Before
     DEF FillFault, LandedInv, LocalsInv, CallerInv, LocalsType, Moved, At, Holding
<1>8. OneUser' /\ OneCompletion' /\ CardInv'
  BY <1>1, <1>4, <1>5, ReleaseKeep DEF FillFault, InDevice, At
<1>9. card' \in CardType /\ lh_clear' \in 0 .. 1 /\ lh_done' \in 0 .. 1
  BY <1>1, DeviceFacts, Before DEF FillFault, InDevice
<1> QED
  BY <1>0, <1>1, <1>3, <1>6, <1>7, <1>8, <1>9, Before, Assemble
     DEF FillFault, InDevice

LEMMA SetSectorInv ==
    ASSUME IInv, NEW t \in Threads, SetSector(t) PROVE IInv'
<1> DEFINE r == [io[t] EXCEPT !.pc = "start"]
<1>0. io' = [io EXCEPT ![t] = r]
  BY DEF SetSector, Go, At
<1>1. io[t].pc = "sect"
  BY DEF SetSector, At
<1>2. io[t] \in LocalsType /\ LocalsInv(io[t]) /\ CallerInv(io[t])
  BY Before
<1>3. r \in LocalsType
  BY <1>1, <1>2 DEF LocalsType, PCs, Holding
<1>4. /\ r.pc = "start" /\ (r.sfs <=> io[t].sfs)
      /\ (r.write <=> io[t].write) /\ (r.aligned <=> io[t].aligned)
      /\ r.uio_offset = io[t].uio_offset /\ r.uio_resid = io[t].uio_resid
      /\ r.data = io[t].data /\ r.want = io[t].want
      /\ r.sector = io[t].sector /\ r.len = io[t].len /\ r.i = io[t].i
      /\ r.tries = io[t].tries /\ r.result = io[t].result
  BY <1>2 DEF LocalsType
<1>5. io'[t] = r /\ \A u \in Threads \ {t} : io'[u] = io[u]
  BY <1>0, Before
<1> HIDE DEF r
<1>6. LocalsInv(r) /\ CallerInv(r)
  BY <1>1, <1>2, <1>3, <1>4, DiskAssumption, FieldTypes
     DEF LocalsInv, CallerInv, Unmoved, Holding
<1>7. LandedInv(t)'
  BY <1>1, <1>2, <1>3, <1>4, <1>5, Before, SMTT(60)
     DEF SetSector, LandedInv, LocalsInv, CallerInv, LocalsType, Moved, At, Holding
<1>8. OneUser' /\ OneCompletion' /\ CardInv'
  <2>1. /\ OneUser' /\ OneCompletion'
        /\ \A u \in Threads \ {t} : ~InDevice(u)'
    BY <1>1, <1>4, <1>5, InsideKeep DEF SetSector, InDevice, At
  <2>2. CardInv'
    <3>1. card' = [card EXCEPT !.sect = io[t].sector + io[t].i]
      BY DEF SetSector
    <3>2. card'.sect = io[t].sector + io[t].i
      BY <3>1, Before DEF CardType
    <3> QED BY <1>4, <1>5, <2>1, <3>2 DEF CardInv, At, InDevice
  <2> QED BY <2>1, <2>2
<1>9. card' \in CardType /\ lh_clear' \in 0 .. 1 /\ lh_done' \in 0 .. 1
  <2>1. io[t].sector + io[t].i \in Nat
    BY <1>2 DEF LocalsType
  <2> QED BY <2>1, Before DEF SetSector, CardType
<1> QED
  BY <1>0, <1>1, <1>3, <1>6, <1>7, <1>8, <1>9, Before, Assemble
     DEF SetSector, InDevice

LEMMA StartInv ==
    ASSUME IInv, NEW t \in Threads, Start(t) PROVE IInv'
<1> DEFINE r == [io[t] EXCEPT !.pc = "wait"]
<1>0. io' = [io EXCEPT ![t] = r]
  BY DEF Start, Go, At
<1>1. io[t].pc = "start"
  BY DEF Start, At
<1>2. io[t] \in LocalsType /\ LocalsInv(io[t]) /\ CallerInv(io[t])
  BY Before
<1>a. /\ \A u \in Threads : InDevice(u) => u = t
      /\ lh_clear = 0 /\ card.stat = "idle" /\ lh_done = 0
  BY <1>1, DeviceFacts DEF InDevice, At
<1>b. card' \in CardType /\ card'.stat = "working" /\ card'.sect = card.sect
      /\ card'.write = io[t].write
  BY <1>2, Before DEF Start, CardType, LocalsType
<1>3. r \in LocalsType
  BY <1>1, <1>2 DEF LocalsType, PCs, Holding
<1>4. /\ r.pc = "wait" /\ (r.sfs <=> io[t].sfs) /\ (r.write <=> io[t].write)
      /\ (r.aligned <=> io[t].aligned) /\ r.uio_offset = io[t].uio_offset
      /\ r.uio_resid = io[t].uio_resid /\ r.data = io[t].data
      /\ r.want = io[t].want /\ r.sector = io[t].sector /\ r.len = io[t].len
      /\ r.i = io[t].i /\ r.tries = io[t].tries /\ r.result = io[t].result
  BY <1>2 DEF LocalsType
<1>5. io'[t] = r /\ \A u \in Threads \ {t} : io'[u] = io[u]
  BY <1>0, Before
<1> HIDE DEF r
<1>6. LocalsInv(r) /\ CallerInv(r)
  BY <1>1, <1>2, <1>3, <1>4, DiskAssumption, FieldTypes
     DEF LocalsInv, CallerInv, Unmoved, Holding
<1>7. LandedInv(t)'
  BY <1>1, <1>2, <1>3, <1>4, <1>5, Before, <1>a, <1>b
     DEF Start, LandedInv, LocalsInv, CallerInv, LocalsType, Moved, At, Holding
<1>8. OneUser' /\ OneCompletion' /\ CardInv'
  <2>1. InDevice(t)' /\ \A u \in Threads \ {t} : ~InDevice(u)'
    BY <1>a, <1>4, <1>5 DEF InDevice
  <2>2. At(t, "wait")' /\ ~At(t, "result")'
    BY <1>4, <1>5 DEF At
  <2>3. \A u \in Threads \ {t} : ~At(u, "wait")' /\ ~At(u, "start")' /\ ~At(u, "result")'
    BY <2>1 DEF At, InDevice
  <2>4. OneUser' /\ OneCompletion'
    BY <1>a, <1>b, <2>1, <2>2 DEF OneUser, OneCompletion, Start
  <2>5. card.sect = io[t].sector + io[t].i
    BY <1>1 DEF IInv, CardInv, At
  <2>6. r.write = io[t].write
    BY <1>2, <1>3, <1>4, FieldTypes
  <2>7. CardInv'
    BY <1>a, <1>b, <1>4, <1>5, <2>2, <2>3, <2>5, <2>6 DEF CardInv, Start
  <2> QED BY <2>4, <2>7
<1>9. card' \in CardType /\ lh_clear' \in 0 .. 1 /\ lh_done' \in 0 .. 1
  BY <1>b, Before DEF Start
<1> QED
  BY <1>0, <1>1, <1>3, <1>6, <1>7, <1>8, <1>9, Before, Assemble
     DEF Start, InDevice

LEMMA WaitInv ==
    ASSUME IInv, NEW t \in Threads, Wait(t) PROVE IInv'
<1> DEFINE r == [io[t] EXCEPT !.pc = "result"]
<1>0. io' = [io EXCEPT ![t] = r]
  BY DEF Wait, Go, At
<1>1. io[t].pc = "wait"
  BY DEF Wait, At
<1>2. io[t] \in LocalsType /\ LocalsInv(io[t]) /\ CallerInv(io[t])
  BY Before
<1>a. /\ \A u \in Threads : InDevice(u) => u = t
      /\ lh_clear = 0
  BY <1>1, DeviceFacts DEF InDevice, At
<1>b. /\ card.stat = "idle" /\ lh_done = 1 /\ lh_done' = 0
      /\ lh_result # "EINVAL"
  BY <1>1, Before DEF IInv, OneCompletion, CardInv, Wait, At
<1>3. r \in LocalsType
  BY <1>1, <1>2 DEF LocalsType, PCs, Holding
<1>4. /\ r.pc = "result" /\ (r.sfs <=> io[t].sfs)
      /\ (r.write <=> io[t].write) /\ (r.aligned <=> io[t].aligned)
      /\ r.uio_offset = io[t].uio_offset /\ r.uio_resid = io[t].uio_resid
      /\ r.data = io[t].data /\ r.want = io[t].want
      /\ r.sector = io[t].sector /\ r.len = io[t].len /\ r.i = io[t].i
      /\ r.tries = io[t].tries /\ r.result = io[t].result
  BY <1>2 DEF LocalsType
<1>5. io'[t] = r /\ \A u \in Threads \ {t} : io'[u] = io[u]
  BY <1>0, Before
<1> HIDE DEF r
<1>6. LocalsInv(r) /\ CallerInv(r)
  BY <1>1, <1>2, <1>3, <1>4, DiskAssumption, FieldTypes
     DEF LocalsInv, CallerInv, Unmoved, Holding
<1>7. LandedInv(t)'
  <2>1. Moved(t) <=> lh_result = "0"
    BY <1>1, <1>b DEF Moved, At
  <2>2. Moved(t)' <=> lh_result = "0"
    BY <1>4, <1>5 DEF Moved, At, Wait
  <2> QED BY <1>1, <1>4, <1>5, <2>1, <2>2, Before
          DEF LandedInv, Holding, Wait
<1>8. OneUser' /\ OneCompletion' /\ CardInv'
  <2>1. InDevice(t)' /\ \A u \in Threads \ {t} : ~InDevice(u)'
    BY <1>a, <1>4, <1>5 DEF InDevice
  <2>2. \A u \in Threads : ~At(u, "wait")' /\ ~At(u, "start")'
    BY <1>4, <1>5, <2>1 DEF At, InDevice
  <2>3. OneUser' /\ OneCompletion'
    BY <1>a, <1>b, <2>1, <2>2 DEF OneUser, OneCompletion, Wait
  <2>4. CardInv'
    BY <1>b, <2>2 DEF CardInv, Wait
  <2> QED BY <2>3, <2>4
<1>9. card' \in CardType /\ lh_clear' \in 0 .. 1 /\ lh_done' \in 0 .. 1
  BY <1>1, Before DEF Wait
<1> QED
  BY <1>0, <1>1, <1>3, <1>6, <1>7, <1>8, <1>9, Before, Assemble
     DEF Wait, InDevice

LEMMA ResultInv ==
    ASSUME IInv, NEW t \in Threads, Result(t) PROVE IInv'
<1> DEFINE q == IF lh_result = "0" /\ ~io[t].write THEN "out" ELSE "clear"
           r == [io[t] EXCEPT !.result = lh_result, !.pc = q]
<1>0. io' = [io EXCEPT ![t] = r]
  BY DEF Result, At
<1>1. io[t].pc = "result"
  BY DEF Result, At
<1>2. io[t] \in LocalsType /\ LocalsInv(io[t]) /\ CallerInv(io[t])
  BY Before
<1>a. lh_result \in {"0", "EIO"}
  BY <1>1 DEF IInv, TypeOK, CardInv, At
<1>c. /\ lh_result = "0" /\ ~io[t].write => q = "out"
      /\ ~(lh_result = "0" /\ ~io[t].write) => q = "clear"
  OBVIOUS
<1> HIDE DEF q
<1>3. r \in LocalsType
  BY <1>1, <1>2, <1>a, <1>c DEF LocalsType, PCs, Holding
<1>4. /\ r.result = lh_result /\ r.pc = q /\ (r.sfs <=> io[t].sfs)
      /\ (r.write <=> io[t].write) /\ (r.aligned <=> io[t].aligned)
      /\ r.uio_offset = io[t].uio_offset /\ r.uio_resid = io[t].uio_resid
      /\ r.data = io[t].data /\ r.want = io[t].want
      /\ r.sector = io[t].sector /\ r.len = io[t].len /\ r.i = io[t].i
      /\ r.tries = io[t].tries
  BY <1>2 DEF LocalsType
<1>5. io'[t] = r /\ \A u \in Threads \ {t} : io'[u] = io[u]
  BY <1>0, Before
<1> HIDE DEF r
<1>6. LocalsInv(r) /\ CallerInv(r)
  BY <1>1, <1>2, <1>3, <1>4, <1>a, <1>c, DiskAssumption, FieldTypes
     DEF LocalsInv, CallerInv, Unmoved, Holding
<1>7. LandedInv(t)'
  BY <1>1, <1>2, <1>3, <1>4, <1>5, Before, <1>a, <1>c
     DEF Result, LandedInv, LocalsInv, CallerInv, LocalsType, Moved, At, Holding
<1>8. OneUser' /\ OneCompletion' /\ CardInv'
  <2>1. /\ OneUser' /\ OneCompletion'
        /\ \A u \in Threads \ {t} : ~InDevice(u)'
    BY <1>1, <1>c, <1>4, <1>5, InsideKeep DEF Result, InDevice, At
  <2>2. CardInv'
    BY <1>a, <1>c, <1>4, <1>5, <2>1 DEF CardInv, At, InDevice, Result
  <2> QED BY <2>1, <2>2
<1>9. card' \in CardType /\ lh_clear' \in 0 .. 1 /\ lh_done' \in 0 .. 1
  BY <1>1, Before DEF Result
<1> QED
  BY <1>0, <1>1, <1>3, <1>6, <1>7, <1>8, <1>9, Before, Assemble
     DEF Result, InDevice

LEMMA MoveOutInv ==
    ASSUME IInv, NEW t \in Threads, MoveOut(t) PROVE IInv'
<1> DEFINE d == Append(io[t].data, card.buf)
           o == io[t].uio_offset + 1
           n == io[t].uio_resid - 1
           r == [io[t] EXCEPT !.pc = "clear",
                           !.data = d,
                           !.uio_offset = o,
                           !.uio_resid = n]
<1>0. io' = [io EXCEPT ![t] = r]
  BY DEF MoveOut, At
<1>1. io[t].pc = "out"
  BY DEF MoveOut, At
<1>2. io[t] \in LocalsType /\ LocalsInv(io[t]) /\ CallerInv(io[t])
  BY Before
<1>a. io[t].uio_resid > 0
  BY <1>1, <1>2, DiskAssumption, FieldTypes DEF LocalsInv, Unmoved, Holding
<1>c. /\ d \in Seq(Values) /\ Len(d) = Len(io[t].data) + 1
      /\ o \in Nat /\ n \in Nat /\ n = io[t].uio_resid - 1
      /\ o + n = io[t].uio_offset + io[t].uio_resid
  <2>1. d \in Seq(Values) /\ Len(d) = Len(io[t].data) + 1
    BY <1>2, Before, SeqFacts, FieldTypes DEF CardType
  <2>2. o \in Nat /\ n \in Nat
    BY <1>2, <1>a, FieldTypes
  <2>3. io[t].uio_offset \in Nat /\ io[t].uio_resid \in Nat
    BY <1>2, FieldTypes
  <2>4. o + n = io[t].uio_offset + io[t].uio_resid
    BY <2>3
  <2> QED BY <2>1, <2>2, <2>4
<1> HIDE DEF d, o, n
<1>3. r \in LocalsType
  BY <1>1, <1>2, <1>c DEF LocalsType, PCs, Holding
<1>4. /\ r.pc = "clear" /\ r.data = d /\ r.uio_offset = o /\ r.uio_resid = n
      /\ (r.sfs <=> io[t].sfs) /\ (r.write <=> io[t].write)
      /\ (r.aligned <=> io[t].aligned) /\ r.want = io[t].want
      /\ r.sector = io[t].sector /\ r.len = io[t].len /\ r.i = io[t].i
      /\ r.tries = io[t].tries /\ r.result = io[t].result
  BY <1>2 DEF LocalsType
<1>5. io'[t] = r /\ \A u \in Threads \ {t} : io'[u] = io[u]
  BY <1>0, Before
<1> HIDE DEF r
<1>6. LocalsInv(r) /\ CallerInv(r)
  <2>1. ~io[t].write /\ io[t].result = "0"
        /\ Unmoved(r) = io[t].len - io[t].i - 1
        /\ Unmoved(io[t]) = io[t].len - io[t].i
    BY <1>1, <1>2, <1>3, <1>4, <1>c, FieldTypes
       DEF LocalsInv, Unmoved, Holding
  <2>2. LocalsInv(r)
    <3>0. /\ io[t].uio_resid \in Nat /\ io[t].want \in Nat
          /\ io[t].len \in Nat
      BY <1>2, FieldTypes
    <3>1. n <= r.want /\ r.want \in {1} \cup RawLens
      <4>1. io[t].uio_resid <= io[t].want /\ r.want \in {1} \cup RawLens
        BY <1>1, <1>2, <1>4 DEF LocalsInv
      <4> QED BY <1>4, <1>c, <3>0, <4>1
    <3>2. Len(io[t].data) = io[t].len - io[t].uio_resid
      BY <1>1, <1>2, <2>1 DEF LocalsInv, Holding
    <3>3. Len(d) = r.len - n
      BY <1>4, <1>c, <3>0, <3>2
    <3>4. n = Unmoved(r)
      BY <1>1, <1>2, <1>c, <2>1, FieldTypes DEF LocalsInv, Holding
    <3>5. /\ io[t].sector + io[t].len <= NBlocks /\ io[t].i <= io[t].len
          /\ io[t].i < io[t].len
      BY <1>1, <1>2 DEF LocalsInv, Holding
    <3> QED BY <1>4, <2>1, <3>1, <3>3, <3>4, <3>5 DEF LocalsInv
  <2>3. CallerInv(r)
    BY <1>1, <1>2, <1>3, <1>4, <2>1, <1>c, DiskAssumption, FieldTypes
       DEF LocalsInv, CallerInv, Holding
  <2> QED BY <2>2, <2>3
<1>7. LandedInv(t)'
  <2>1. landed[t] = io[t].i + 1
    BY <1>1, <1>2, Before DEF LandedInv, Moved, At, Holding
  <2> QED BY <1>4, <1>5, <2>1 DEF LandedInv, Holding, MoveOut
<1>8. OneUser' /\ OneCompletion' /\ CardInv'
  <2>1. /\ OneUser' /\ OneCompletion'
        /\ \A u \in Threads \ {t} : ~InDevice(u)'
    BY <1>1, <1>c, <1>4, <1>5, InsideKeep DEF MoveOut, InDevice, At
  <2>2. CardInv'
    BY <1>4, <1>5, <2>1 DEF CardInv, At, InDevice
  <2> QED BY <2>1, <2>2
<1>9. card' \in CardType /\ lh_clear' \in 0 .. 1 /\ lh_done' \in 0 .. 1
  BY <1>1, Before DEF MoveOut
<1> QED
  BY <1>0, <1>1, <1>3, <1>6, <1>7, <1>8, <1>9, Before, Assemble
     DEF MoveOut, InDevice

LEMMA MoveOutFaultInv ==
    ASSUME IInv, NEW t \in Threads, MoveOutFault(t) PROVE IInv'
<1> DEFINE r == [io[t] EXCEPT !.pc = "clear", !.result = "EFAULT"]
<1>0. io' = [io EXCEPT ![t] = r]
  BY DEF MoveOutFault, At
<1>1. io[t].pc = "out"
  BY DEF MoveOutFault, At
<1>2. io[t] \in LocalsType /\ LocalsInv(io[t]) /\ CallerInv(io[t])
  BY Before
<1>3. r \in LocalsType
  BY <1>1, <1>2 DEF LocalsType, PCs, Holding
<1>4. /\ r.pc = "clear" /\ r.result = "EFAULT" /\ (r.sfs <=> io[t].sfs)
      /\ (r.write <=> io[t].write) /\ (r.aligned <=> io[t].aligned)
      /\ r.uio_offset = io[t].uio_offset /\ r.uio_resid = io[t].uio_resid
      /\ r.data = io[t].data /\ r.want = io[t].want
      /\ r.sector = io[t].sector /\ r.len = io[t].len /\ r.i = io[t].i
      /\ r.tries = io[t].tries
  BY <1>2 DEF LocalsType
<1>5. io'[t] = r /\ \A u \in Threads \ {t} : io'[u] = io[u]
  BY <1>0, Before
<1> HIDE DEF r
<1>6. LocalsInv(r) /\ CallerInv(r)
  BY <1>1, <1>2, <1>3, <1>4, DiskAssumption, FieldTypes
     DEF LocalsInv, CallerInv, Unmoved, Holding
<1>7. LandedInv(t)'
  BY <1>1, <1>2, <1>3, <1>4, <1>5, Before
     DEF MoveOutFault, LandedInv, LocalsInv, CallerInv, LocalsType, Moved, At, Holding
<1>8. OneUser' /\ OneCompletion' /\ CardInv'
  <2>1. /\ OneUser' /\ OneCompletion'
        /\ \A u \in Threads \ {t} : ~InDevice(u)'
    BY <1>1, <1>4, <1>5, InsideKeep DEF MoveOutFault, InDevice, At
  <2>2. CardInv'
    BY <1>4, <1>5, <2>1 DEF CardInv, At, InDevice
  <2> QED BY <2>1, <2>2
<1>9. card' \in CardType /\ lh_clear' \in 0 .. 1 /\ lh_done' \in 0 .. 1
  BY <1>1, Before DEF MoveOutFault
<1> QED
  BY <1>0, <1>1, <1>3, <1>6, <1>7, <1>8, <1>9, Before, Assemble
     DEF MoveOutFault, InDevice

LEMMA ClearInv ==
    ASSUME IInv, NEW t \in Threads, Clear(t) PROVE IInv'
<1> DEFINE q == IF io[t].result = "0" THEN "loop" ELSE "ret"
           n == IF io[t].result = "0" THEN io[t].i + 1 ELSE io[t].i
           r == [io[t] EXCEPT !.pc = q, !.i = n]
<1>0. io' = [io EXCEPT ![t] = r]
  BY DEF Clear, At
<1>1. io[t].pc = "clear"
  BY DEF Clear, At
<1>2. io[t] \in LocalsType /\ LocalsInv(io[t]) /\ CallerInv(io[t])
  BY Before
<1>c. /\ n \in Nat
      /\ io[t].result = "0" => q = "loop" /\ n = io[t].i + 1
      /\ io[t].result # "0" => q = "ret" /\ n = io[t].i
  BY <1>2 DEF LocalsType
<1> HIDE DEF q, n
<1>3. r \in LocalsType
  BY <1>1, <1>2, <1>c DEF LocalsType, PCs, Holding
<1>4. /\ r.pc = q /\ r.i = n /\ (r.sfs <=> io[t].sfs)
      /\ (r.write <=> io[t].write) /\ (r.aligned <=> io[t].aligned)
      /\ r.uio_offset = io[t].uio_offset /\ r.uio_resid = io[t].uio_resid
      /\ r.data = io[t].data /\ r.want = io[t].want
      /\ r.sector = io[t].sector /\ r.len = io[t].len
      /\ r.tries = io[t].tries /\ r.result = io[t].result
  BY <1>2 DEF LocalsType
<1>5. io'[t] = r /\ \A u \in Threads \ {t} : io'[u] = io[u]
  BY <1>0, Before
<1> HIDE DEF r
<1>6. LocalsInv(r) /\ CallerInv(r)
  <2>1. CASE io[t].result = "0"
    <3>1. r.pc = "loop" /\ r.i = io[t].i + 1
      BY <1>c, <1>4, <2>1
    <3>2. io[t].uio_resid = io[t].len - io[t].i - 1 /\ io[t].i < io[t].len
      BY <1>1, <1>2, <2>1, FieldTypes DEF LocalsInv, Unmoved, Holding
    <3>3. Unmoved(r) = io[t].len - (io[t].i + 1)
      BY <1>4, <3>1 DEF Unmoved, Holding
    <3>4. LocalsInv(r)
      BY <1>1, <1>2, <1>4, <3>1, <3>2, <3>3, FieldTypes, DiskAssumption
         DEF LocalsInv, Holding
    <3>5. CallerInv(r)
      BY <1>1, <1>2, <1>4, <3>1, FieldTypes DEF CallerInv, Holding
    <3> QED BY <3>4, <3>5
  <2>2. CASE io[t].result # "0"
    <3>1. r.pc = "ret"
      BY <1>c, <1>4, <2>2
    <3>2. LocalsInv(r)
      BY <1>1, <1>2, <1>4, <3>1 DEF LocalsInv, Holding
    <3>3. ~io[t].write => /\ io[t].uio_resid = io[t].len - io[t].i
                          /\ Len(io[t].data) = io[t].i
      BY <1>1, <1>2, <2>2, FieldTypes DEF LocalsInv, Unmoved, Holding
    <3>4. io[t].i < io[t].len /\ io[t].result # "EINVAL"
      BY <1>1, <1>2 DEF LocalsInv, Holding
    <3>5. CallerInv(r)
      BY <1>1, <1>2, <1>4, <3>1, <3>3, <3>4, FieldTypes DEF CallerInv, Holding
    <3> QED BY <3>2, <3>5
  <2> QED BY <2>1, <2>2
<1>7. LandedInv(t)'
  <2>1. CASE io[t].result = "0"
    <3>1. r.pc = "loop" /\ r.i = io[t].i + 1
      BY <1>c, <1>4, <2>1
    <3>2. landed[t] = io[t].i + 1
      BY <1>1, <2>1, Before DEF LandedInv, Holding
    <3>3. ~Moved(t)' /\ r.i \in Nat
      BY <1>3, <1>5, <3>1, FieldTypes DEF Moved, At
    <3> QED BY <1>5, <3>1, <3>2, <3>3 DEF LandedInv, Holding, Clear
  <2>2. CASE io[t].result # "0"
    BY <1>c, <1>4, <1>5, <2>2 DEF LandedInv, Holding
  <2> QED BY <2>1, <2>2
<1>8. OneUser' /\ OneCompletion' /\ CardInv'
  BY <1>1, <1>c, <1>4, <1>5, ReleaseKeep DEF Clear, InDevice, At
<1>9. card' \in CardType /\ lh_clear' \in 0 .. 1 /\ lh_done' \in 0 .. 1
  BY <1>1, DeviceFacts, Before DEF Clear, InDevice
<1> QED
  BY <1>0, <1>1, <1>3, <1>6, <1>7, <1>8, <1>9, Before, Assemble
     DEF Clear, InDevice

LEMMA RetryInv ==
    ASSUME IInv, NEW t \in Threads, Retry(t) PROVE IInv'
<1> DEFINE n == io[t].tries + 1
           r == [io[t] EXCEPT !.pc = "d_io", !.tries = n]
<1>0. io' = [io EXCEPT ![t] = r]
  BY DEF Retry, MustRetry, At
<1>1. io[t].pc = "ret"
  BY DEF Retry, At
<1>2. io[t] \in LocalsType /\ LocalsInv(io[t]) /\ CallerInv(io[t])
  BY Before
<1>a. io[t].sfs /\ io[t].result = "EIO"
  BY DEF Retry, MustRetry
<1>c. n \in Nat /\ n # 0
  BY <1>2 DEF LocalsType
<1> HIDE DEF n
<1>3. r \in LocalsType
  BY <1>1, <1>2, <1>c DEF LocalsType, PCs, Holding
<1>4. /\ r.pc = "d_io" /\ r.tries = n /\ (r.sfs <=> io[t].sfs)
      /\ (r.write <=> io[t].write) /\ (r.aligned <=> io[t].aligned)
      /\ r.uio_offset = io[t].uio_offset /\ r.uio_resid = io[t].uio_resid
      /\ r.data = io[t].data /\ r.want = io[t].want
      /\ r.sector = io[t].sector /\ r.len = io[t].len /\ r.i = io[t].i
      /\ r.result = io[t].result
  BY <1>2 DEF LocalsType
<1>5. io'[t] = r /\ \A u \in Threads \ {t} : io'[u] = io[u]
  BY <1>0, Before
<1> HIDE DEF r
<1>6. LocalsInv(r) /\ CallerInv(r)
  <2>1. LocalsInv(r)
    BY <1>1, <1>2, <1>4, <1>a, FieldTypes DEF LocalsInv, CallerInv, Holding
  <2>2. CallerInv(r)
    BY <1>1, <1>2, <1>4, <1>a, <1>c, FieldTypes DEF CallerInv, Holding
  <2> QED BY <2>1, <2>2
<1>7. LandedInv(t)'
  BY <1>1, <1>2, <1>3, <1>4, <1>5, Before, <1>c
     DEF Retry, LandedInv, LocalsInv, CallerInv, LocalsType, Moved, At, Holding
<1>8. OneUser' /\ OneCompletion' /\ CardInv'
  BY <1>1, <1>c, <1>4, <1>5, OutsideKeep DEF Retry, InDevice, At
<1>9. card' \in CardType /\ lh_clear' \in 0 .. 1 /\ lh_done' \in 0 .. 1
  BY Before DEF Retry
<1> QED
  BY <1>0, <1>1, <1>3, <1>6, <1>7, <1>8, <1>9, Before, Assemble
     DEF Retry, InDevice

LEMMA ReturnInv ==
    ASSUME IInv, NEW t \in Threads, Return(t) PROVE IInv'
<1>1. io[t].pc = "ret" /\ io' = [io EXCEPT ![t] = Idle]
  BY DEF Return, At
<1>2. Idle \in LocalsType /\ Idle.pc = "idle"
  BY DEF Idle, Locals, LocalsType, PCs
<1>3. io'[t] = Idle /\ \A u \in Threads \ {t} : io'[u] = io[u]
  BY <1>1, Before
<1>4. LocalsInv(Idle) /\ CallerInv(Idle)
  BY DEF Idle, Locals, LocalsInv, CallerInv, Holding
<1>5. LandedInv(t)'
  BY <1>2, <1>3 DEF LandedInv, Holding
<1>6. OneUser' /\ OneCompletion' /\ CardInv'
  BY <1>1, <1>2, <1>3, OutsideKeep DEF Return, InDevice
<1>7. /\ landed' \in [Threads -> Nat]
      /\ \A u \in Threads \ {t} : landed'[u] = landed[u]
  BY Before DEF Return
<1> QED BY <1>1, <1>2, <1>4, <1>5, <1>6, <1>7, Before, Assemble DEF Return

------------------------------------------------------------------------------
(* The card and its interrupt act for the one thread that waits.            *)
LEMMA Waiter ==
    ASSUME IInv, card.stat # "idle"
    PROVE  \E t \in Threads :
              /\ At(t, "wait") /\ InDevice(t)
              /\ \A u \in Threads \ {t} : ~At(u, "wait") /\ ~At(u, "result")
                                          /\ ~At(u, "start")
              /\ lh_done = 0 /\ card.stat # "invsect"
              /\ card.sect = io[t].sector + io[t].i /\ card.sect < NBlocks
<1>1. PICK t \in Threads : At(t, "wait")
  BY DEF IInv, OneCompletion
<1>2. InDevice(t)
  BY <1>1 DEF At, InDevice
<1>3. \A u \in Threads \ {t} : ~InDevice(u)
  BY <1>2, DeviceFacts
<1>4. \A u \in Threads \ {t} : ~At(u, "wait") /\ ~At(u, "result")
                               /\ ~At(u, "start")
  BY <1>3 DEF At, InDevice
<1>5. lh_done = 0 /\ card.stat # "invsect"
      /\ card.sect = io[t].sector + io[t].i
  BY <1>1, Before DEF IInv, OneCompletion, CardInv
<1>6. io[t].sector + io[t].len <= NBlocks /\ io[t].i < io[t].len
  BY <1>1, Before DEF LocalsInv, At, Holding
<1>7. card.sect < NBlocks
  BY <1>5, <1>6, Before, FieldTypes, DiskAssumption
<1> QED BY <1>1, <1>2, <1>4, <1>5, <1>7

(* Without a step of a thread, LocalsInv and CallerInv stay.                *)
LEMMA CardStep ==
    ASSUME IInv, io' = io, lh_clear' = lh_clear,
           disk' \in [0 .. NBlocks - 1 -> Values], card' \in CardType,
           lh_result' \in {"0", "EIO", "EINVAL"}, lh_done' \in 0 .. 1,
           landed' \in [Threads -> Nat],
           \A t \in Threads : LandedInv(t)', OneCompletion', CardInv'
    PROVE  IInv'
<1>1. TypeOK' /\ OneUser'
  BY DEF IInv, TypeOK, OneUser, InDevice
<1>2. \A t \in Threads : LocalsInv(io'[t]) /\ CallerInv(io'[t])
  BY DEF IInv
<1> QED BY <1>1, <1>2 DEF IInv

LEMMA CardOkInv == ASSUME IInv, CardOk PROVE IInv'
<1>1. PICK t \in Threads :
         /\ At(t, "wait")
         /\ \A u \in Threads \ {t} : ~At(u, "wait") /\ ~At(u, "result")
                                     /\ ~At(u, "start")
         /\ lh_done = 0 /\ card.sect = io[t].sector + io[t].i
  BY Waiter DEF CardOk
<1>2. card \in CardType /\ card.sect \in 0 .. NBlocks - 1
      /\ disk \in [0 .. NBlocks - 1 -> Values]
  BY DiskAssumption DEF IInv, TypeOK, CardOk, CardType
<1>3. card' \in CardType /\ card'.stat = "ok" /\ card'.sect = card.sect
  BY <1>2 DEF CardOk, CardType, Done
<1>4. disk' \in [0 .. NBlocks - 1 -> Values]
  BY <1>2 DEF CardOk, CardType
<1>5. /\ landed' \in [Threads -> Nat] /\ landed'[t] = landed[t] + 1
      /\ \A u \in Threads \ {t} : landed'[u] = landed[u]
  BY <1>1 DEF IInv, TypeOK, CardOk
<1>6. LandedInv(t)'
  <2>1. landed[t] = io[t].i
    BY <1>1, Before, FieldTypes DEF CardOk, LandedInv, Moved, At, Holding
  <2> QED BY <1>1, <1>3, <1>5, <2>1, Before, FieldTypes
          DEF CardOk, LandedInv, Moved, At, Holding
<1>7. ASSUME NEW u \in Threads \ {t} PROVE LandedInv(u)'
  BY <1>1, <1>5, Before DEF CardOk, LandedInv, Moved, At
<1>8. OneCompletion'
  BY <1>1, <1>3 DEF CardOk, OneCompletion, At
<1>9. CardInv'
  BY <1>1, <1>3 DEF CardOk, CardInv, At
<1>10. lh_result' \in {"0", "EIO", "EINVAL"} /\ lh_done' \in 0 .. 1
  BY DEF IInv, TypeOK, CardOk
<1> QED BY <1>3, <1>4, <1>5, <1>6, <1>7, <1>8, <1>9, <1>10, CardStep DEF CardOk

LEMMA CardFailInv == ASSUME IInv, CardFail PROVE IInv'
<1>1. PICK t \in Threads :
         /\ At(t, "wait")
         /\ \A u \in Threads \ {t} : ~At(u, "wait") /\ ~At(u, "result")
                                     /\ ~At(u, "start")
         /\ lh_done = 0 /\ card.sect = io[t].sector + io[t].i
         /\ card.sect < NBlocks
  BY Waiter DEF CardFail
<1>2. card' \in CardType /\ card'.stat = "media" /\ card'.sect = card.sect
  BY <1>1, Before DEF CardFail, CardType, Done
<1>3. ASSUME NEW u \in Threads PROVE LandedInv(u)'
  <2>1. Moved(u)' = Moved(u)
    BY <1>1, <1>2 DEF CardFail, Moved, At
  <2> QED BY <2>1, Before DEF CardFail, LandedInv
<1>4. OneCompletion'
  BY <1>1, <1>2 DEF CardFail, OneCompletion, At
<1>5. CardInv'
  BY <1>1, <1>2 DEF CardFail, CardInv, At
<1> QED BY <1>2, <1>3, <1>4, <1>5, CardStep DEF CardFail, IInv, TypeOK

LEMMA InterruptInv == ASSUME IInv, lhd_irq PROVE IInv'
<1>1. PICK t \in Threads :
         /\ At(t, "wait")
         /\ \A u \in Threads \ {t} : ~At(u, "wait") /\ ~At(u, "result")
                                     /\ ~At(u, "start")
         /\ lh_done = 0 /\ card.stat # "invsect"
         /\ card.sect = io[t].sector + io[t].i
  BY Waiter DEF lhd_irq, Done
<1>2. card' \in CardType /\ card'.stat = "idle" /\ card'.sect = card.sect
  BY Before DEF lhd_irq, CardType
<1>3. /\ lh_done' = 1 /\ lh_result' \in {"0", "EIO"}
      /\ lh_result' = "0" <=> card.stat = "ok"
  BY <1>1 DEF lhd_irq, Errno, Done
<1>4. ASSUME NEW u \in Threads PROVE LandedInv(u)'
  <2>1. Moved(u)' = Moved(u)
    BY <1>1, <1>2, <1>3 DEF lhd_irq, Moved, At, Done
  <2> QED BY <2>1, Before DEF lhd_irq, LandedInv
<1>5. OneCompletion'
  BY <1>1, <1>2, <1>3 DEF lhd_irq, OneCompletion, At
<1>6. CardInv'
  BY <1>1, <1>2, <1>3 DEF lhd_irq, CardInv, At
<1> QED BY <1>2, <1>3, <1>4, <1>5, <1>6, CardStep DEF lhd_irq, IInv, TypeOK

LEMMA StutterInv == ASSUME IInv, UNCHANGED vars PROVE IInv'
BY DEF vars, IInv, TypeOK, OneUser, OneCompletion, CardInv, LandedInv, Moved,
       At, InDevice

LEMMA NextInv == IInv /\ [Next]_vars => IInv'
<1> SUFFICES ASSUME IInv, [Next]_vars PROVE IInv'
  OBVIOUS
<1>1. ASSUME NEW t \in Threads, Request(t) \/ Step(t) PROVE IInv'
  BY <1>1, RequestInv, EnterInv, FinishInv, AcquireInv, FillInv, FillFaultInv,
     SetSectorInv, StartInv, WaitInv, ResultInv, MoveOutInv, MoveOutFaultInv,
     ClearInv, RetryInv, ReturnInv DEF Step
<1> QED BY <1>1, CardOkInv, CardFailInv, InterruptInv, StutterInv DEF Next

LEMMA Inductive == Spec => []IInv
BY InitInv, NextInv, PTL DEF Spec

(***************************************************************************)
(* lhd_io is entered and left in every way, and the card's registers and    *)
(* its buffer never have two users; lh_clear is 1 exactly when they have    *)
(* none.                                                                    *)
(***************************************************************************)
THEOREM DeviceExclusive == Spec => []OneUser
<1>1. IInv => OneUser
  BY DEF IInv
<1> QED BY <1>1, Inductive, PTL

(***************************************************************************)
(* Each start of the card is answered once: no completion is lost, none is  *)
(* left for another request.                                                *)
(***************************************************************************)
THEOREM CompletionsMatch == Spec => []OneCompletion
<1>1. IInv => OneCompletion
  BY DEF IInv
<1> QED BY <1>1, Inductive, PTL

(***************************************************************************)
(* The answer 0 of lhd_io and sfs_rwblock means that the card has moved     *)
(* every sector asked for, but for the retry of a write.                    *)
(***************************************************************************)
THEOREM SuccessLanded == Spec => []SuccessMeansLanded
<1>1. IInv => SuccessMeansLanded
  <2> SUFFICES ASSUME IInv, NEW t \in Threads, At(t, "ret"), io[t].result = "0"
               PROVE  \/ landed[t] = io[t].want
                      \/ io[t].sfs /\ io[t].write /\ io[t].tries > 0
    BY DEF SuccessMeansLanded
  <2>1. CASE ~io[t].write \/ io[t].tries = 0
    BY <2>1, Before DEF LandedInv, At
  <2>2. CASE io[t].write /\ io[t].tries # 0
    BY <2>2, Before, FieldTypes DEF CallerInv
  <2> QED BY <2>1, <2>2
<1> QED BY <1>1, Inductive, PTL

(***************************************************************************)
(* sfs never asks for a sector the disk does not have and the card never    *)
(* reports one: sfs_rwblock's panic on EINVAL is not reached.               *)
(***************************************************************************)
THEOREM SfsNotRefused ==
    Spec => [](\A t \in Threads : At(t, "ret") /\ io[t].sfs =>
                                      io[t].result # "EINVAL")
<1>1. IInv => \A t \in Threads : At(t, "ret") /\ io[t].sfs =>
                                     io[t].result # "EINVAL"
  BY DEF IInv, CallerInv, At
<1> QED BY <1>1, Inductive, PTL

------------------------------------------------------------------------------
(* The refinement of SectorDisk.                                            *)
LEMMA ConsFacts ==
    ASSUME NEW s \in Seq(Values)
    PROVE  /\ Len(s) > 0 => <<Head(s)>> \o Tail(s) = s
           /\ \A v \in Values : Head(<<v>> \o s) = v /\ Tail(<<v>> \o s) = s
           /\ Len(s) = 0 => s = <<>>
           /\ s \in [1 .. Len(s) -> Values]
<1>1. ASSUME Len(s) > 0 PROVE <<Head(s)>> \o Tail(s) = s
  <2>1. Len(<<Head(s)>> \o Tail(s)) = Len(s)
    BY <1>1
  <2>2. ASSUME NEW i \in 1 .. Len(s) PROVE (<<Head(s)>> \o Tail(s))[i] = s[i]
    <3>1. CASE i = 1
      BY <1>1, <3>1
    <3>2. CASE i # 1
      BY <1>1, <3>2
    <3> QED BY <3>1, <3>2
  <2>3. <<Head(s)>> \o Tail(s) \in Seq(Values)
    <3>1. <<Head(s)>> \in Seq(Values) /\ Tail(s) \in Seq(Values)
      BY <1>1
    <3> QED BY <3>1
  <2> QED BY <2>1, <2>2, <2>3
<1>2. ASSUME NEW v \in Values PROVE Head(<<v>> \o s) = v /\ Tail(<<v>> \o s) = s
  <2> DEFINE z == <<v>> \o s
  <2>1. z \in Seq(Values) /\ Len(z) = Len(s) + 1 /\ Head(z) = v
    OBVIOUS
  <2>2. \A i \in 1 .. Len(s) : z[i + 1] = s[i]
    OBVIOUS
  <2> HIDE DEF z
  <2>3. Tail(z) \in Seq(Values) /\ Len(Tail(z)) = Len(s)
    BY <2>1
  <2>4. \A i \in 1 .. Len(s) : Tail(z)[i] = s[i]
    BY <2>1, <2>2
  <2>5. Tail(z) = s
    BY <2>3, <2>4
  <2> QED BY <2>1, <2>5 DEF z
<1>3. Len(s) = 0 => s = <<>>
  OBVIOUS
<1>4. s \in [1 .. Len(s) -> Values]
  OBVIOUS
<1> QED BY <1>1, <1>2, <1>3, <1>4

LEMMA MaxLenBounds == \A n \in {1} \cup RawLens : n <= MaxLen
BY LengthAssumption DEF MaxLen

LEMMA MaxLenIn == MaxLen \in Nat
<1>1. MaxLen \in {1} \cup RawLens
  BY LengthAssumption DEF MaxLen
<1> QED BY <1>1, DiskAssumption

(* The values a request under way has still to write, or has read.          *)
AbsData(t) ==
    LET r == io[t]
    IN  IF r.write
        THEN IF r.uio_resid < r.len - landed[t]
             THEN <<card.buf>> \o r.data ELSE r.data
        ELSE IF Len(r.data) < landed[t]
             THEN Append(r.data, card.buf) ELSE r.data

AbsRequest(t, state) ==
    [state |-> state, write |-> io[t].write,
     sector |-> io[t].sector + landed[t], left |-> io[t].len - landed[t],
     data |-> AbsData(t)]

LEMMA OpCases ==
    ASSUME NEW t \in Threads
    PROVE  /\ io[t].pc \in {"idle", "d_io"} => AbstractOp(t) = Disk!None
           /\ io[t].pc = "ret" /\ io[t].result # "0" =>
                 AbstractOp(t) = Disk!Failed
           /\ io[t].pc = "ret" /\ io[t].result = "0" =>
                 AbstractOp(t) = AbsRequest(t, "ok")
           /\ io[t].pc \in Holding \cup {"loop"} =>
                 AbstractOp(t) = AbsRequest(t, "active")
<1>1. io[t].pc \in {"idle", "d_io"} => AbstractOp(t) = Disk!None
  BY DEF AbstractOp, AbsNone, Disk!None
<1>2. io[t].pc = "ret" /\ io[t].result # "0" => AbstractOp(t) = Disk!Failed
  BY DEF AbstractOp, AbsNone, Disk!None, Disk!Failed
<1>3. io[t].pc = "ret" /\ io[t].result = "0" => AbstractOp(t) = AbsRequest(t, "ok")
  BY DEF AbstractOp, AbsRequest, AbsData
<1>4. io[t].pc \in Holding \cup {"loop"} => AbstractOp(t) = AbsRequest(t, "active")
  BY DEF AbstractOp, AbsRequest, AbsData, Holding
<1> QED BY <1>1, <1>2, <1>3, <1>4

Ops == [t \in Threads |-> AbstractOp(t)]

(* A thread outside the device does not see the buffer change.              *)
LEMMA OthersOp ==
    ASSUME IInv, NEW t \in Threads, NEW u \in Threads \ {t},
           io'[u] = io[u], landed'[u] = landed[u],
           InDevice(t) \/ card' = card
    PROVE  AbstractOp(u)' = AbstractOp(u)
<1>1. CASE card' = card
  BY <1>1 DEF AbstractOp
<1>2. CASE InDevice(t)
  <2>1. io[u].pc \notin Holding
    BY <1>2, DeviceFacts DEF InDevice, Holding
  <2>2. CASE io[u].pc \in {"idle", "d_io"}
    BY <2>2 DEF AbstractOp
  <2>3. CASE io[u].pc = "ret" /\ io[u].result # "0"
    BY <2>3 DEF AbstractOp
  <2>4. CASE io[u].pc = "loop" \/ (io[u].pc = "ret" /\ io[u].result = "0")
    <3>1. /\ io[u].uio_resid \in Nat /\ io[u].len \in Nat /\ landed[u] \in Nat
          /\ io[u].i \in Nat
      BY Before, FieldTypes
    <3>2. /\ ~io[u].write => ~(Len(io[u].data) < landed[u])
          /\ io[u].write => ~(io[u].uio_resid < io[u].len - landed[u])
      <4>1. CASE io[u].pc = "loop"
        <5>1. landed[u] = io[u].i
          BY <4>1, <3>1, Before DEF LandedInv, Moved, At, Holding
        <5>2. /\ io[u].uio_resid = io[u].len - io[u].i
              /\ ~io[u].write => Len(io[u].data) = io[u].len - io[u].uio_resid
          BY <4>1, Before DEF LocalsInv, Unmoved, Holding
        <5> QED BY <3>1, <5>1, <5>2
      <4>2. CASE io[u].pc = "ret" /\ io[u].result = "0"
        <5>1. landed[u] = io[u].len /\ (~io[u].write => Len(io[u].data) = io[u].len)
          BY <4>2, Before DEF LandedInv, Holding
        <5> QED BY <3>1, <5>1
      <4> QED BY <2>4, <4>1, <4>2
    <3> QED BY <3>2 DEF AbstractOp
  <2>5. io[u].pc \in PCs
    BY Before, FieldTypes
  <2> QED BY <2>1, <2>2, <2>3, <2>4, <2>5 DEF PCs
<1> QED BY <1>1, <1>2

(* What a step of t does to the abstract requests.                          *)
LEMMA OpsOfStep ==
    ASSUME IInv, NEW t \in Threads,
           \A u \in Threads \ {t} : io'[u] = io[u] /\ landed'[u] = landed[u],
           InDevice(t) \/ card' = card
    PROVE  /\ Ops' = [Ops EXCEPT ![t] = AbstractOp(t)']
           /\ Ops[t] = AbstractOp(t)
           /\ AbstractOp(t)' = AbstractOp(t) => Ops' = Ops
<1>1. \A u \in Threads \ {t} : AbstractOp(u)' = AbstractOp(u)
  BY OthersOp
<1> QED BY <1>1 DEF Ops

(* What is known around a step of t that puts r in the place of its locals. *)
LEMMA OpsOfGo ==
    ASSUME IInv, NEW t \in Threads, NEW r, io' = [io EXCEPT ![t] = r],
           UNCHANGED landed, InDevice(t) \/ card' = card
    PROVE  /\ Ops' = [Ops EXCEPT ![t] = AbstractOp(t)']
           /\ Ops[t] = AbstractOp(t)
           /\ AbstractOp(t)' = AbstractOp(t) => Ops' = Ops
           /\ io'[t] = r
<1>1. /\ io'[t] = r
      /\ \A u \in Threads \ {t} : io'[u] = io[u] /\ landed'[u] = landed[u]
  BY Before
<1> QED BY <1>1, OpsOfStep

(* The steps of lhd_io that change nothing of the request.                  *)
LEMMA QuietStep ==
    ASSUME IInv, NEW t \in Threads,
           Acquire(t) \/ SetSector(t) \/ Start(t) \/ Wait(t) \/ Result(t)
           \/ MoveOutFault(t)
    PROVE  Ops' = Ops /\ disk' = disk
<1>1. PICK q \in Holding :
         \/ io' = [io EXCEPT ![t].pc = q]
         \/ io' = [io EXCEPT ![t].result = lh_result, ![t].pc = q]
         \/ io' = [io EXCEPT ![t].pc = q, ![t].result = "EFAULT"]
  <2>1. CASE Acquire(t)
    BY <2>1 DEF Acquire, Go, Holding
  <2>2. CASE SetSector(t) \/ Start(t) \/ Wait(t)
    BY <2>2 DEF SetSector, Start, Wait, Go, Holding
  <2>3. CASE Result(t)
    BY <2>3 DEF Result, Holding
  <2>4. CASE MoveOutFault(t)
    BY <2>4 DEF MoveOutFault, Holding
  <2> QED BY <2>1, <2>2, <2>3, <2>4
<1>2. io[t].pc \in Holding \cup {"loop"}
  BY DEF Acquire, SetSector, Start, Wait, Result, MoveOutFault, At, Holding
<1>3. disk' = disk /\ landed' = landed /\ card'.buf = card.buf
      /\ (InDevice(t) \/ card' = card)
  BY Before DEF Acquire, SetSector, Start, Wait, Result, MoveOutFault, At,
                InDevice, CardType
<1>4. /\ io'[t].pc = q
      /\ (io'[t].write <=> io[t].write) /\ io'[t].sector = io[t].sector
      /\ io'[t].len = io[t].len /\ io'[t].uio_resid = io[t].uio_resid
      /\ io'[t].data = io[t].data
      /\ \A u \in Threads \ {t} : io'[u] = io[u]
      /\ io'[t] \in LocalsType
  <2>1. io[t] \in LocalsType /\ lh_result \in {"0", "EIO", "EINVAL"} /\ q \in PCs
    BY Before DEF IInv, TypeOK, PCs
  <2>2. CASE io' = [io EXCEPT ![t].pc = q]
    <3> DEFINE s == [io[t] EXCEPT !.pc = q]
    <3>1. io' = [io EXCEPT ![t] = s]
      BY <2>2
    <3>2. s \in LocalsType
      BY <2>1 DEF LocalsType
    <3>3. /\ s.pc = q /\ (s.write <=> io[t].write)
          /\ s.sector = io[t].sector /\ s.len = io[t].len
          /\ s.uio_resid = io[t].uio_resid /\ s.data = io[t].data
      BY <2>1 DEF LocalsType
    <3> HIDE DEF s
    <3>4. io'[t] = s /\ \A u \in Threads \ {t} : io'[u] = io[u]
      BY <3>1, Before
    <3> QED BY <3>2, <3>3, <3>4
  <2>3. CASE io' = [io EXCEPT ![t].result = lh_result, ![t].pc = q]
    <3> DEFINE s == [io[t] EXCEPT !.result = lh_result, !.pc = q]
    <3>1. io' = [io EXCEPT ![t] = s]
      BY <2>3
    <3>2. s \in LocalsType
      BY <2>1 DEF LocalsType
    <3>3. /\ s.pc = q /\ (s.write <=> io[t].write)
          /\ s.sector = io[t].sector /\ s.len = io[t].len
          /\ s.uio_resid = io[t].uio_resid /\ s.data = io[t].data
      BY <2>1 DEF LocalsType
    <3> HIDE DEF s
    <3>4. io'[t] = s /\ \A u \in Threads \ {t} : io'[u] = io[u]
      BY <3>1, Before
    <3> QED BY <3>2, <3>3, <3>4
  <2>4. CASE io' = [io EXCEPT ![t].pc = q, ![t].result = "EFAULT"]
    <3> DEFINE s == [io[t] EXCEPT !.pc = q, !.result = "EFAULT"]
    <3>1. io' = [io EXCEPT ![t] = s]
      BY <2>4
    <3>2. s \in LocalsType
      BY <2>1 DEF LocalsType
    <3>3. /\ s.pc = q /\ (s.write <=> io[t].write)
          /\ s.sector = io[t].sector /\ s.len = io[t].len
          /\ s.uio_resid = io[t].uio_resid /\ s.data = io[t].data
      BY <2>1 DEF LocalsType
    <3> HIDE DEF s
    <3>4. io'[t] = s /\ \A u \in Threads \ {t} : io'[u] = io[u]
      BY <3>1, Before
    <3> QED BY <3>2, <3>3, <3>4
  <2> QED BY <1>1, <2>2, <2>3, <2>4
<1>5. AbstractOp(t)' = AbstractOp(t)
  <2>1. AbstractOp(t) = AbsRequest(t, "active")
    BY <1>2, OpCases
  <2>2. AbstractOp(t)' = AbsRequest(t, "active")'
    BY <1>4 DEF AbstractOp, AbsRequest, AbsData, Holding
  <2>3. io'[t].write = io[t].write
    BY <1>4, Before, FieldTypes
  <2>4. AbsRequest(t, "active")' = AbsRequest(t, "active")
    BY <1>3, <1>4, <2>3 DEF AbsRequest, AbsData
  <2> QED BY <2>1, <2>2, <2>4
<1> QED BY <1>3, <1>4, <1>5, OpsOfStep


LEMMA EnterRefines ==
    ASSUME IInv, NEW t \in Threads, Enter(t) PROVE Disk!Next
<1>1. /\ io[t].pc = "d_io" /\ io[t] \in LocalsType /\ LocalsInv(io[t])
      /\ disk' = disk /\ landed'[t] = 0
      /\ \A u \in Threads \ {t} : io'[u] = io[u] /\ landed'[u] = landed[u]
  BY Before DEF Enter, Ret, At
<1>2. /\ Ops' = [Ops EXCEPT ![t] = AbstractOp(t)']
      /\ Ops[t] = Disk!None
  BY <1>1, OpsOfStep, OpCases DEF Enter
<1>3. CASE ~io[t].aligned \/ io[t].uio_offset + io[t].uio_resid > NBlocks
  <2>0. io' = [io EXCEPT ![t].pc = "ret", ![t].result = "EINVAL"]
    BY <1>3 DEF Enter, Ret
  <2>1. io'[t].pc = "ret" /\ io'[t].result # "0"
    BY <2>0 DEF IInv, TypeOK, LocalsType
  <2>2. AbstractOp(t)' = Disk!Failed
    BY <2>1 DEF AbstractOp, AbsNone, Disk!Failed, Disk!None
  <2>3. Disk!Reject(t)
    BY <1>1, <1>2, <2>2 DEF Disk!Reject, Disk!None, Ops
  <2> QED BY <2>3 DEF Disk!Next
<1>4. CASE ~(~io[t].aligned \/ io[t].uio_offset + io[t].uio_resid > NBlocks)
  <2> DEFINE s == io[t].uio_offset
             n == io[t].uio_resid
             w == io[t].write
             d == io[t].data
  <2>1. io' = [io EXCEPT ![t].pc = "loop", ![t].i = 0, ![t].sector = s,
                         ![t].len = n]
    BY <1>4 DEF Enter
  <2>2. /\ io'[t].pc = "loop" /\ io'[t].sector = s /\ io'[t].len = n
        /\ io'[t].write = w /\ io'[t].uio_resid = n /\ io'[t].data = d
    BY <1>1, <2>1, Before DEF IInv, TypeOK, LocalsType
  <2>3. /\ s \in Nat /\ n \in Nat /\ w \in BOOLEAN /\ d \in Seq(Values)
        /\ s + n <= NBlocks /\ NBlocks \in Nat
    BY <1>1, <1>4, FieldTypes, DiskAssumption
  <2>4. (w => Len(d) = n) /\ (~w => Len(d) = 0)
    BY <1>1 DEF LocalsInv
  <2>5. d \in IF w THEN [1 .. n -> Values] ELSE {<<>>}
    BY <2>3, <2>4, ConsFacts
  <2>6. n <= MaxLen
    <3>1. n <= io[t].want /\ io[t].want \in {1} \cup RawLens
      BY <1>1 DEF LocalsInv
    <3>2. io[t].want <= MaxLen
      BY <3>1, MaxLenBounds
    <3>3. io[t].want \in Nat /\ MaxLen \in Nat
      BY <1>1, MaxLenIn, FieldTypes
    <3> QED BY <2>3, <3>1, <3>2, <3>3
  <2> HIDE DEF s, n, w, d
  <2>7. AbstractOp(t)' = Disk!Active(w, s, n, d)
    <3>1. AbstractOp(t)' = AbsRequest(t, "active")'
      BY <2>2 DEF AbstractOp, AbsRequest, AbsData
    <3>2. AbsData(t)' = d
      BY <1>1, <2>2, <2>3, <2>4 DEF AbsData
    <3> QED BY <1>1, <2>2, <2>3, <3>1, <3>2 DEF AbsRequest, Disk!Active
  <2>8. s \in 0 .. NBlocks /\ n \in 0 .. MaxLen
    BY <2>3, <2>6, MaxLenIn
  <2>9. Disk!Invoke(t)
    <3>1. Ops' = [Ops EXCEPT ![t] = Disk!Active(w, s, n, d)]
      BY <1>2, <2>7
    <3>2. Ops[t].state = "none"
      BY <1>2 DEF Disk!None
    <3>3. \E w1 \in BOOLEAN, s1 \in 0 .. NBlocks, n1 \in 0 .. MaxLen :
             /\ s1 + n1 <= NBlocks
             /\ \E d1 \in IF w1 THEN [1 .. n1 -> Values] ELSE {<<>>} :
                   Ops' = [Ops EXCEPT ![t] = Disk!Active(w1, s1, n1, d1)]
      BY <2>3, <2>5, <2>8, <3>1, Zenon
    <3> QED BY <1>1, <3>2, <3>3 DEF Disk!Invoke, Ops
  <2> QED BY <2>9 DEF Disk!Next
<1> QED BY <1>3, <1>4

LEMMA FinishRefines ==
    ASSUME IInv, NEW t \in Threads, Finish(t) PROVE Disk!Next
<1>1. /\ io[t].pc = "loop" /\ io[t].i = io[t].len /\ io[t] \in LocalsType
      /\ io' = [io EXCEPT ![t].pc = "ret", ![t].result = "0"]
  BY Before DEF Finish, Ret, At
<1>0. landed' = landed /\ card' = card /\ disk' = disk
  BY DEF Finish
<1>2. /\ io'[t].pc = "ret" /\ io'[t].result = "0"
      /\ io'[t].write = io[t].write /\ io'[t].sector = io[t].sector
      /\ io'[t].len = io[t].len /\ io'[t].uio_resid = io[t].uio_resid
      /\ io'[t].data = io[t].data
      /\ \A u \in Threads \ {t} : io'[u] = io[u]
  BY <1>1 DEF IInv, TypeOK, LocalsType
<1>3. /\ Ops' = [Ops EXCEPT ![t] = AbstractOp(t)']
      /\ Ops[t] = AbsRequest(t, "active")
  BY <1>0, <1>1, <1>2, OpsOfStep, OpCases
<1>4. AbstractOp(t)' = AbsRequest(t, "ok")
  <2>1. AbstractOp(t)' = AbsRequest(t, "ok")'
    BY <1>2 DEF AbstractOp, AbsRequest, AbsData
  <2>2. AbsRequest(t, "ok")' = AbsRequest(t, "ok")
    BY <1>0, <1>2 DEF AbsRequest, AbsData
  <2> QED BY <2>1, <2>2
<1>5. io[t].len - landed[t] = 0
  <2>1. landed[t] = io[t].i /\ landed[t] \in Nat
    BY <1>1, Before, FieldTypes DEF LandedInv, Moved, At, Holding
  <2> QED BY <1>1, <2>1
<1>6. AbsRequest(t, "ok") = [AbsRequest(t, "active") EXCEPT !.state = "ok"]
  BY DEF AbsRequest
<1>7. AbsRequest(t, "active").state = "active"
      /\ AbsRequest(t, "active").left = 0
  BY <1>5 DEF AbsRequest
<1>8. Disk!Succeed(t)
  BY <1>0, <1>3, <1>4, <1>6, <1>7 DEF Disk!Succeed, Ops
<1> QED BY <1>8 DEF Disk!Next

(* Failing ends the request, asking and returning are outside it.           *)
LEMMA EndRefines ==
    ASSUME IInv, NEW t \in Threads,
           Request(t) \/ FillFault(t) \/ Retry(t) \/ Return(t)
    PROVE  Disk!Next \/ (Ops' = Ops /\ disk' = disk)
<1>1. disk' = disk /\ card' = card
  BY DEF Request, FillFault, Retry, Return
<1>2. CASE Request(t)
  <2>1. PICK r : io' = [io EXCEPT ![t] = r] /\ r.pc = "d_io"
    <3>1. PICK sfs \in BOOLEAN, write \in BOOLEAN, aligned \in BOOLEAN,
               s \in 0 .. NBlocks, n \in {1} \cup RawLens :
            /\ IF sfs THEN n = 1 /\ s < NBlocks /\ aligned
                      ELSE n \in RawLens /\ t \in RawUsers
            /\ \E d \in IF write THEN [1 .. n -> Values] ELSE {<<>>} :
                  io' = [io EXCEPT ![t] =
                           Locals("d_io", sfs, write, aligned, s, n, d)]
      BY <1>2 DEF Request
    <3>2. PICK d : io' = [io EXCEPT ![t] =
                            Locals("d_io", sfs, write, aligned, s, n, d)]
      BY <3>1
    <3>3. Locals("d_io", sfs, write, aligned, s, n, d).pc = "d_io"
      BY DEF Locals
    <3> QED BY <3>2, <3>3
  <2>2. io[t].pc = "idle" /\ landed' = landed
    BY <1>2 DEF Request, At
  <2>3. AbstractOp(t) = Disk!None
    BY <2>2, OpCases
  <2>4. AbstractOp(t)' = Disk!None
    BY <2>1, Before DEF AbstractOp, AbsNone, Disk!None
  <2> QED BY <1>1, <2>1, <2>2, <2>3, <2>4, OpsOfGo
<1>3. CASE FillFault(t)
  <2> DEFINE r == [io[t] EXCEPT !.pc = "ret", !.result = "EFAULT"]
  <2>1. io' = [io EXCEPT ![t] = r] /\ io[t].pc = "fill" /\ landed' = landed
    BY <1>3 DEF FillFault, Ret, At
  <2>2. r.pc = "ret" /\ r.result # "0"
    BY Before DEF LocalsType
  <2> HIDE DEF r
  <2>3. AbstractOp(t)' = Disk!Failed
    BY <2>1, <2>2, Before DEF AbstractOp, AbsNone, Disk!Failed, Disk!None
  <2>4. AbstractOp(t).state = "active"
    BY <2>1, OpCases DEF AbsRequest, Holding
  <2>5. Ops' = [Ops EXCEPT ![t] = AbstractOp(t)'] /\ Ops[t] = AbstractOp(t)
    BY <1>1, <2>1, OpsOfGo
  <2>6. Disk!Fail(t)
    BY <1>1, <2>3, <2>4, <2>5 DEF Disk!Fail, Ops
  <2> QED BY <2>6 DEF Disk!Next
<1>4. CASE Retry(t) \/ Return(t)
  <2>1. /\ io[t].pc = "ret" /\ io'[t].pc \in {"d_io", "idle"}
        /\ \A u \in Threads \ {t} : io'[u] = io[u] /\ landed'[u] = landed[u]
    <3>1. CASE Retry(t)
      <4>1. io' = [io EXCEPT ![t].pc = "d_io", ![t].tries = @ + 1]
            /\ landed' = landed /\ io[t].pc = "ret"
        BY <3>1 DEF Retry, At
      <4> QED BY <4>1 DEF IInv, TypeOK, LocalsType
    <3>2. CASE Return(t)
      <4>1. io' = [io EXCEPT ![t] = Idle] /\ landed' = [landed EXCEPT ![t] = 0]
            /\ io[t].pc = "ret"
        BY <3>2 DEF Return, At
      <4>2. Idle.pc = "idle"
        BY DEF Idle, Locals
      <4> QED BY <4>1, <4>2 DEF IInv, TypeOK
    <3> QED BY <1>4, <3>1, <3>2
  <2>2. AbstractOp(t)' = Disk!None
    BY <2>1 DEF AbstractOp, AbsNone, Disk!None
  <2>3. AbstractOp(t).state \in {"ok", "failed"}
    BY <2>1, OpCases DEF AbsRequest, Disk!Failed, Disk!None
  <2>4. Ops' = [Ops EXCEPT ![t] = AbstractOp(t)'] /\ Ops[t] = AbstractOp(t)
    BY <1>1, <2>1, OpsOfStep
  <2>5. Disk!Return(t)
    BY <1>1, <2>2, <2>3, <2>4 DEF Disk!Return, Ops
  <2> QED BY <2>5 DEF Disk!Next
<1> QED BY <1>2, <1>3, <1>4

(* A value moves between the uio and the buffer: the request does not       *)
(* change, for the buffer is counted with the uio.                          *)
LEMMA BufferQuiet ==
    ASSUME IInv, NEW t \in Threads, Fill(t) \/ MoveOut(t)
    PROVE  Ops' = Ops /\ disk' = disk
<1>1. /\ io[t] \in LocalsType /\ LocalsInv(io[t]) /\ LandedInv(t)
      /\ landed' = landed /\ disk' = disk /\ InDevice(t)
      /\ io[t].pc \in {"fill", "out"}
  BY Before DEF Fill, MoveOut, InDevice, At
<1>2. /\ io[t].uio_resid \in Nat /\ io[t].len \in Nat /\ io[t].i \in Nat
      /\ landed[t] \in Nat /\ io[t].data \in Seq(Values)
  BY <1>1, Before, FieldTypes
<1>3. /\ io'[t].pc \in {"sect", "clear"}
      /\ (io'[t].write <=> io[t].write) /\ io'[t].sector = io[t].sector
      /\ io'[t].len = io[t].len
      /\ \A u \in Threads \ {t} : io'[u] = io[u]
      /\ io'[t].uio_resid = io[t].uio_resid - 1
  <2>1. CASE Fill(t)
    <3>1. io' = [io EXCEPT ![t].pc = "sect", ![t].data = Tail(@),
                           ![t].uio_offset = @ + 1, ![t].uio_resid = @ - 1]
      BY <2>1 DEF Fill
    <3> QED BY <3>1 DEF IInv, TypeOK, LocalsType
  <2>2. CASE MoveOut(t)
    <3>1. io' = [io EXCEPT ![t].pc = "clear", ![t].data = Append(@, card.buf),
                           ![t].uio_offset = @ + 1, ![t].uio_resid = @ - 1]
      BY <2>2 DEF MoveOut
    <3> QED BY <3>1 DEF IInv, TypeOK, LocalsType
  <2> QED BY <2>1, <2>2
<1>4. AbsData(t)' = AbsData(t)
  <2>1. CASE Fill(t)
    <3>1. /\ io'[t].data = Tail(io[t].data) /\ card'.buf = Head(io[t].data)
      <4>1. io' = [io EXCEPT ![t].pc = "sect", ![t].data = Tail(@),
                             ![t].uio_offset = @ + 1, ![t].uio_resid = @ - 1]
        BY <2>1 DEF Fill
      <4>2. card' = [card EXCEPT !.buf = Head(io[t].data)] /\ card \in CardType
        BY <2>1, Before DEF Fill
      <4>3. io'[t].data = Tail(io[t].data)
        BY <4>1 DEF IInv, TypeOK, LocalsType
      <4> QED BY <4>2, <4>3 DEF CardType
    <3>2. io[t].pc = "fill" /\ io[t].write
      BY <1>1, <2>1 DEF Fill, At, LocalsInv
    <3>3. /\ landed[t] = io[t].i
          /\ io[t].uio_resid = io[t].len - io[t].i
          /\ Len(io[t].data) = io[t].uio_resid /\ io[t].i < io[t].len
      BY <1>1, <1>2, <3>2 DEF LandedInv, LocalsInv, Unmoved, Moved, At, Holding
    <3>4. AbsData(t) = io[t].data
      BY <1>2, <3>2, <3>3 DEF AbsData
    <3>5. AbsData(t)' = <<card'.buf>> \o io'[t].data
      BY <1>1, <1>2, <1>3, <3>2, <3>3 DEF AbsData
    <3>6. Len(io[t].data) > 0
      BY <1>2, <3>3
    <3> QED BY <1>2, <3>1, <3>4, <3>5, <3>6, ConsFacts
  <2>2. CASE MoveOut(t)
    <3>1. io'[t].data = Append(io[t].data, card.buf)
      <4>1. io' = [io EXCEPT ![t].pc = "clear", ![t].data = Append(@, card.buf),
                             ![t].uio_offset = @ + 1, ![t].uio_resid = @ - 1]
        BY <2>2 DEF MoveOut
      <4> QED BY <4>1 DEF IInv, TypeOK, LocalsType
    <3>2. io[t].pc = "out" /\ ~io[t].write
      BY <1>1, <2>2 DEF MoveOut, At, LocalsInv
    <3>3. landed[t] = io[t].i + 1
      BY <1>1, <1>2, <3>2 DEF LandedInv, Moved, At, Holding
    <3>4. Len(io[t].data) = io[t].len - io[t].uio_resid
          /\ io[t].uio_resid = io[t].len - io[t].i
      BY <1>1, <3>2 DEF LocalsInv, Unmoved, Holding
    <3>5. Len(io[t].data) = io[t].i /\ Len(Append(io[t].data, card.buf)) = io[t].i + 1
      BY <1>2, <3>4
    <3>6. AbsData(t) = Append(io[t].data, card.buf)
      BY <1>2, <3>2, <3>3, <3>5 DEF AbsData
    <3>7. AbsData(t)' = Append(io[t].data, card.buf)
      BY <1>1, <1>2, <1>3, <3>1, <3>2, <3>3, <3>5 DEF AbsData
    <3> QED BY <3>6, <3>7
  <2> QED BY <2>1, <2>2
<1>5. AbstractOp(t)' = AbstractOp(t)
  <2>1. AbstractOp(t) = AbsRequest(t, "active")
    BY <1>1, OpCases DEF Holding
  <2>2. AbstractOp(t)' = AbsRequest(t, "active")'
    BY <1>3 DEF AbstractOp, AbsRequest, AbsData
  <2>3. io'[t].write = io[t].write
    <3>1. io'[t].write \in BOOLEAN
      BY FillInv, MoveOutInv DEF IInv, TypeOK, LocalsType
    <3> QED BY <1>1, <1>3, <3>1, FieldTypes
  <2>4. AbsRequest(t, "active")' = AbsRequest(t, "active")
    BY <1>1, <1>3, <1>4, <2>3 DEF AbsRequest
  <2> QED BY <2>1, <2>2, <2>4
<1> QED BY <1>1, <1>3, <1>5, OpsOfStep

LEMMA ClearRefines ==
    ASSUME IInv, NEW t \in Threads, Clear(t)
    PROVE  Disk!Next \/ (Ops' = Ops /\ disk' = disk)
<1>1. /\ io[t] \in LocalsType /\ io[t].pc = "clear" /\ InDevice(t)
      /\ landed' = landed /\ disk' = disk /\ card' = card
  BY Before DEF Clear, At, InDevice
<1>2. AbstractOp(t) = AbsRequest(t, "active")
  BY <1>1, OpCases DEF Holding
<1>3. CASE io[t].result = "0"
  <2>1. io' = [io EXCEPT ![t].pc = "loop", ![t].i = @ + 1]
    BY <1>3 DEF Clear
  <2>2. /\ io'[t].pc = "loop" /\ io'[t].write = io[t].write
        /\ io'[t].sector = io[t].sector /\ io'[t].len = io[t].len
        /\ io'[t].uio_resid = io[t].uio_resid /\ io'[t].data = io[t].data
        /\ \A u \in Threads \ {t} : io'[u] = io[u]
    BY <2>1 DEF IInv, TypeOK, LocalsType
  <2>3. AbstractOp(t)' = AbsRequest(t, "active")'
    BY <2>2 DEF AbstractOp, AbsRequest, AbsData
  <2>4. AbsRequest(t, "active")' = AbsRequest(t, "active")
    BY <1>1, <2>2 DEF AbsRequest, AbsData
  <2> QED BY <1>1, <1>2, <2>2, <2>3, <2>4, OpsOfStep
<1>4. CASE io[t].result # "0"
  <2>1. io' = [io EXCEPT ![t].pc = "ret", ![t].i = @]
    BY <1>4 DEF Clear
  <2>2. /\ io'[t].pc = "ret" /\ io'[t].result # "0"
        /\ \A u \in Threads \ {t} : io'[u] = io[u]
    BY <1>4, <2>1 DEF IInv, TypeOK, LocalsType
  <2>3. AbstractOp(t)' = Disk!Failed
    BY <2>2 DEF AbstractOp, AbsNone, Disk!Failed, Disk!None
  <2>4. Ops' = [Ops EXCEPT ![t] = AbstractOp(t)'] /\ Ops[t] = AbstractOp(t)
    BY <1>1, <2>2, OpsOfStep
  <2>5. AbstractOp(t).state = "active"
    BY <1>2 DEF AbsRequest
  <2>6. Disk!Fail(t)
    BY <1>1, <2>3, <2>4, <2>5 DEF Disk!Fail, Ops
  <2> QED BY <2>6 DEF Disk!Next
<1> QED BY <1>3, <1>4

(* The card finishes: the sector moves.                                     *)
LEMMA CardOkRefines == ASSUME IInv, CardOk PROVE Disk!Next
<1>1. PICK t \in Threads :
         /\ At(t, "wait") /\ InDevice(t)
         /\ \A u \in Threads \ {t} : ~At(u, "wait")
         /\ lh_done = 0 /\ card.sect = io[t].sector + io[t].i
         /\ card.sect < NBlocks
  BY Waiter DEF CardOk
<1>2. /\ card \in CardType /\ disk \in [0 .. NBlocks - 1 -> Values]
      /\ card.sect \in 0 .. NBlocks - 1 /\ io' = io /\ io[t] \in LocalsType
      /\ io[t].pc = "wait"
  BY <1>1, DiskAssumption DEF IInv, TypeOK, CardOk, CardType, At
<1>3. /\ landed'[t] = landed[t] + 1
      /\ \A u \in Threads \ {t} : landed'[u] = landed[u]
  BY <1>1 DEF IInv, TypeOK, CardOk
<1>4. landed[t] = io[t].i /\ landed[t] \in Nat
  BY <1>1, <1>2, Before, FieldTypes DEF CardOk, LandedInv, Moved, At, Holding
<1>5. /\ io[t].i < io[t].len /\ io[t].uio_resid = Unmoved(io[t])
      /\ io[t].write => Len(io[t].data) = io[t].uio_resid
      /\ ~io[t].write => Len(io[t].data) = io[t].len - io[t].uio_resid
  BY <1>2, Before DEF LocalsInv, Holding
<1>6. /\ io[t].uio_resid \in Nat /\ io[t].len \in Nat /\ io[t].i \in Nat
      /\ io[t].sector \in Nat /\ io[t].data \in Seq(Values)
      /\ io[t].write \in BOOLEAN
  BY <1>2, FieldTypes
<1>7. /\ io[t].write => io[t].uio_resid = io[t].len - io[t].i - 1
      /\ ~io[t].write => io[t].uio_resid = io[t].len - io[t].i
  BY <1>2, <1>5 DEF Unmoved, Holding
<1> DEFINE o == AbsRequest(t, "active")
<1>8. /\ Ops' = [Ops EXCEPT ![t] = AbstractOp(t)'] /\ Ops[t] = o
      /\ AbstractOp(t)' = o'
  <2>1. AbstractOp(t) = o
    BY <1>2, OpCases DEF Holding
  <2>2. AbstractOp(t)' = o'
    BY <1>2 DEF AbstractOp, AbsRequest, AbsData
  <2> QED BY <1>1, <1>2, <1>3, <2>1, <2>2, OpsOfStep
<1>9. o = [state |-> "active", write |-> io[t].write, sector |-> card.sect,
           left |-> io[t].len - io[t].i, data |-> AbsData(t)]
  BY <1>1, <1>4 DEF AbsRequest
<1>9a. o' = [state |-> "active", write |-> io[t].write,
             sector |-> card.sect + 1, left |-> io[t].len - io[t].i - 1,
             data |-> AbsData(t)']
  <2>1. io[t].sector + landed'[t] = card.sect + 1
    BY <1>1, <1>3, <1>4, <1>6
  <2>2. io[t].len - landed'[t] = io[t].len - io[t].i - 1
    BY <1>3, <1>4, <1>6
  <2> QED BY <1>2, <2>1, <2>2 DEF AbsRequest
<1> HIDE DEF o
<1>10. CASE io[t].write
  <2>0. card.buf \in Values /\ card.write
    BY <1>1, <1>2, <1>10 DEF CardType, IInv, CardInv, CardOk
  <2>1. AbsData(t) = <<card.buf>> \o io[t].data
    BY <1>4, <1>6, <1>7, <1>10 DEF AbsData
  <2>2. card' = [card EXCEPT !.stat = "ok", !.buf = card.buf]
    BY <2>0 DEF CardOk
  <2>3. Head(AbsData(t)) = card.buf /\ Tail(AbsData(t)) = io[t].data
    BY <1>6, <2>0, <2>1, ConsFacts
  <2>4. AbsData(t)' = Tail(AbsData(t))
    <3>1. AbsData(t)' = io[t].data
      BY <1>2, <1>3, <1>4, <1>6, <1>7, <1>10 DEF AbsData
    <3> QED BY <2>3, <3>1
  <2>5. disk' = [disk EXCEPT ![o.sector] = Head(o.data)]
    BY <1>9, <2>0, <2>3 DEF CardOk
  <2>6. o' = Disk!Moved(o)
    <3>1. Disk!Moved(o)
          = [state |-> "active", write |-> o.write, sector |-> o.sector + 1,
             left |-> o.left - 1, data |-> Tail(o.data)]
      BY <1>9, <1>10 DEF Disk!Moved, Disk!Active
    <3> QED BY <1>9, <1>9a, <2>4, <3>1
  <2>7. o.state = "active" /\ o.left > 0 /\ o.write
    BY <1>5, <1>6, <1>9, <1>10
  <2>8. Disk!Transfer(t)
    BY <1>8, <2>5, <2>6, <2>7 DEF Disk!Transfer, Ops
  <2> QED BY <2>8 DEF Disk!Next
<1>11. CASE ~io[t].write
  <2>0. ~card.write
    BY <1>1, <1>2, <1>11 DEF IInv, CardInv, CardOk
  <2>1. AbsData(t) = io[t].data
    BY <1>4, <1>5, <1>6, <1>7, <1>11 DEF AbsData
  <2>2. card'.buf = disk[card.sect] /\ disk' = disk
    BY <1>2, <2>0 DEF CardOk, CardType
  <2>3. AbsData(t)' = Append(AbsData(t), disk[card.sect])
    <3>1. AbsData(t)' = Append(io[t].data, card'.buf)
      BY <1>2, <1>3, <1>4, <1>5, <1>6, <1>7, <1>11, SMTT(60) DEF AbsData
    <3> QED BY <2>1, <2>2, <3>1
  <2>4. o' = Disk!Moved(o)
    <3>1. Disk!Moved(o)
          = [state |-> "active", write |-> o.write, sector |-> o.sector + 1,
             left |-> o.left - 1, data |-> Append(o.data, disk[o.sector])]
      BY <1>9, <1>11 DEF Disk!Moved, Disk!Active
    <3> QED BY <1>9, <1>9a, <2>3, <3>1
  <2>5. o.state = "active" /\ o.left > 0 /\ ~o.write
    BY <1>5, <1>6, <1>9, <1>11
  <2>6. Disk!Transfer(t)
    BY <1>8, <2>2, <2>4, <2>5 DEF Disk!Transfer, Ops
  <2> QED BY <2>6 DEF Disk!Next
<1> QED BY <1>10, <1>11

LEMMA CardQuiet ==
    ASSUME IInv, CardFail \/ lhd_irq PROVE Ops' = Ops /\ disk' = disk
<1>1. io' = io /\ landed' = landed /\ disk' = disk /\ card'.buf = card.buf
  BY DEF CardFail, lhd_irq, IInv, TypeOK, CardType
<1>2. \A t \in Threads : AbstractOp(t)' = AbstractOp(t)
  BY <1>1 DEF AbstractOp
<1> QED BY <1>1, <1>2 DEF Ops

(***************************************************************************)
(* lhd_io under its callers implements SectorDisk: every sector of every    *)
(* request moves in one step of the card, in order, whatever the other      *)
(* threads, the errors and the faults of the users' buffers do in between.  *)
(***************************************************************************)
THEOREM Refinement == Spec => AbsSpec
<1>1. Init => Disk!Init
  <2> SUFFICES ASSUME Init PROVE Disk!Init
    OBVIOUS
  <2>1. \A t \in Threads : io[t].pc = "idle"
    BY DEF Init, Idle, Locals
  <2>2. \A t \in Threads : AbstractOp(t) = Disk!None
    BY <2>1, OpCases
  <2> QED BY <2>2 DEF Init, Disk!Init
<1>2. IInv /\ [Next]_vars => [Disk!Next]_(Disk!absvars)
  <2> SUFFICES ASSUME IInv, [Next]_vars
               PROVE  Disk!Next \/ (Ops' = Ops /\ disk' = disk)
    BY DEF Ops, Disk!absvars
  <2>1. ASSUME NEW t \in Threads, Request(t) \/ Step(t)
        PROVE  Disk!Next \/ (Ops' = Ops /\ disk' = disk)
    BY <2>1, EndRefines, EnterRefines, FinishRefines, QuietStep, BufferQuiet,
       ClearRefines DEF Step
  <2>2. CASE CardOk
    BY <2>2, CardOkRefines
  <2>3. CASE CardFail \/ lhd_irq
    BY <2>3, CardQuiet
  <2>4. CASE UNCHANGED vars
    <3>1. \A t \in Threads : AbstractOp(t)' = AbstractOp(t)
      BY <2>4 DEF vars, AbstractOp
    <3> QED BY <2>4, <3>1 DEF vars, Ops
  <2> QED BY <2>1, <2>2, <2>3, <2>4 DEF Next
<1> QED BY <1>1, <1>2, Inductive, PTL DEF Spec, AbsSpec, Disk!Spec
==============================================================================
