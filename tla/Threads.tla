------------------------------- MODULE Threads -------------------------------
(***************************************************************************)
(* The thread system of the kernel: kern/thread/thread.c, scheduler.c,      *)
(* hardclock.c and the semaphores of synch.c, with md_switch (pcb.c), the   *)
(* interrupt entry (interrupt.c) and the capacities of the array and queue  *)
(* the lists are kept in (kern/lib/array.c, queue.c).                       *)
(*                                                                          *)
(* One processor.  Everything the kernel does at splhigh is one step;       *)
(* interrupts come between the steps of a thread that runs at spl0 and in   *)
(* the idle loop.  mi_switch ends in another thread (or in the idle loop,   *)
(* on the stack of the thread that left), so a step that switches contains  *)
(* what the next thread does before it can be interrupted.                  *)
(***************************************************************************)
EXTENDS Integers, Sequences, SequencesExt

CONSTANTS
    Threads,       \* thread structures
    Menu,          \* the boot thread
    NoThread,      \* curthread = NULL
    Sems,          \* semaphores
    Lbolt,         \* &lbolt, the address clocksleep sleeps on
    Null,          \* t_sleepaddr = NULL
    HZ,            \* clock interrupts per second
    QueueInit,     \* size q_create is called with (32)
    ArrayKeep,     \* array_setsize(a, 0) frees an array larger than this (16)
    MaxSecs,       \* bound of the model: longest clocksleep
    MaxCount       \* bound of the model: V is not called above this count

ASSUME NameAssumption ==
    /\ Menu \in Threads /\ NoThread \notin Threads
    /\ Lbolt \notin Sems /\ Null \notin Sems \cup {Lbolt}
ASSUME SizeAssumption ==
    /\ HZ \in Nat \ {0} /\ QueueInit \in Nat \ {0} /\ ArrayKeep \in Nat
    /\ MaxSecs \in Nat \ {0} /\ MaxCount \in Nat

VARIABLES
    curthread,         \* the running thread; NoThread in the idle loop
    stack,             \* whose kernel stack the processor is on
    runqueue, sleepers, zombies,
    numthreads,
    pc,                \* where each thread is, see PCs
    t_sleepaddr,
    num_secs,          \* clocksleep's local
    in_interrupt,
    pcb_ininterrupt,   \* its value saved for each thread that is not running
    count,             \* of each semaphore
    lbolt_counter,
    qsize, smax, zmax, \* capacities of runqueue, sleepers and zombies
    halted             \* panic or shutdown

lists == <<runqueue, sleepers, zombies, qsize, smax, zmax>>
cpu == <<curthread, stack, in_interrupt, pcb_ininterrupt>>
vars == <<cpu, lists, numthreads, pc, t_sleepaddr, num_secs, count,
          lbolt_counter, halted>>

(* "none": no such thread.  "new": forked, has never run.  "run": runs, or  *)
(* will run, at spl0.  "preempted": in the clock interrupt handler.  "P",   *)
(* "clock": in the loop of P or clocksleep, at splhigh.                     *)
PCs == {"none", "new", "run", "preempted", "P", "clock", "zombie"}

(* The running thread is at spl0: it can be interrupted. *)
Running(t) == curthread = t /\ t # NoThread /\ pc[t] = "run" /\ ~halted

------------------------------------------------------------------------------
(* Capacities.  Operators named M_... are deliberate mistakes: each differs *)
(* from the definition that follows it in one respect, and breaks a         *)
(* property.                                                                *)

(* array_preallocate *)
Preallocate(max, nguys) ==
    LET newmax[m \in Nat] == IF nguys > m THEN newmax[(m + 1) * 2] ELSE m
    IN  newmax[max]

(* array_setsize(a, 0) *)
ArrayClear(max) == IF max > ArrayKeep THEN 0 ELSE max

(* q_preallocate, q_grow *)
QPreallocate(size, n) ==
    LET nsize[m \in Nat] == IF m < n THEN nsize[m * 2] ELSE m
    IN  nsize[size]

M_QRoom(size, n) == QPreallocate(size, n)     \* the last slot is used too

(* q_addtail up to n elements: the queue is full with one slot left. *)
QRoom(size, n) == QPreallocate(size, n + 1)

------------------------------------------------------------------------------
Init ==
    /\ curthread = Menu /\ stack = Menu
    /\ runqueue = <<>> /\ sleepers = <<>> /\ zombies = <<>>
    /\ numthreads = 1
    /\ pc = [t \in Threads |-> IF t = Menu THEN "run" ELSE "none"]
    /\ t_sleepaddr = [t \in Threads |-> Null]
    /\ num_secs = [t \in Threads |-> 0]
    /\ in_interrupt = 0
    /\ pcb_ininterrupt = [t \in Threads |-> 0]
    /\ count = [s \in Sems |-> 0]
    /\ lbolt_counter = 0
    /\ qsize = QueueInit /\ smax = 0 /\ zmax = 0
    /\ halted = FALSE

M_MdSwitch(cur, next, i) ==                   \* in_interrupt is not restored
    /\ in_interrupt' = i
    /\ UNCHANGED pcb_ininterrupt

(* md_switch from cur, where in_interrupt is i. *)
MdSwitch(cur, next, i) ==
    IF cur = next
    THEN in_interrupt' = i /\ UNCHANGED pcb_ininterrupt
    ELSE /\ pcb_ininterrupt' = [pcb_ininterrupt EXCEPT ![cur] = i]
         /\ in_interrupt' = pcb_ininterrupt[next]

(* exorcise: destroy the zombies zs; zm is the capacity of their list. *)
Exorcise(zs, zm, npc) ==
    /\ zombies' = <<>>
    /\ zmax' = ArrayClear(zm)
    /\ pc' = [t \in Threads |-> IF t \in ToSet(zs) THEN "none" ELSE npc[t]]

(* The rest of mi_switch once the run queue rq is not empty.  A thread      *)
(* that has run before returns from its own mi_switch and exorcises; a new  *)
(* one starts in mi_threadstart.                                            *)
RunNext(cur, rq, zs, zm, npc, i) ==
    LET next == Head(rq) IN
    /\ curthread' = next /\ stack' = next
    /\ runqueue' = Tail(rq)
    /\ MdSwitch(cur, next, i)
    /\ IF npc[next] = "new"
       THEN zombies' = zs /\ zmax' = zm /\ pc' = [npc EXCEPT ![next] = "run"]
       ELSE Exorcise(zs, zm, npc)

(* mi_switch once cur is on its list: scheduler() idles on cur's stack, with *)
(* curthread NULL, while nobody is runnable.                                 *)
MiSwitch(cur, rq, zs, zm, npc, i) ==
    IF rq # <<>> THEN RunNext(cur, rq, zs, zm, npc, i)
    ELSE /\ curthread' = NoThread /\ stack' = cur
         /\ runqueue' = rq /\ zombies' = zs /\ zmax' = zm /\ pc' = npc
         /\ in_interrupt' = i /\ UNCHANGED pcb_ininterrupt

(* The idle loop finds a runnable thread. *)
Dispatch ==
    /\ curthread = NoThread /\ runqueue # <<>>
    /\ RunNext(stack, runqueue, zombies, zmax, pc, in_interrupt)
    /\ UNCHANGED <<sleepers, qsize, smax, numthreads, t_sleepaddr, num_secs,
                   count, lbolt_counter, halted>>

------------------------------------------------------------------------------
M_Needed == numthreads                        \* one thread too few

(* The threads thread_fork makes room for: one more than there are. *)
Needed == numthreads + 1

(* thread_fork of t. *)
Fork(t) ==
    /\ Running(curthread)
    /\ pc[t] = "none"
    /\ smax' = Preallocate(smax, Needed)
    /\ zmax' = Preallocate(zmax, Needed)
    /\ qsize' = QRoom(QPreallocate(qsize, Needed), Len(runqueue) + 1)
    /\ runqueue' = Append(runqueue, t)
    /\ numthreads' = numthreads + 1
    /\ pc' = [pc EXCEPT ![t] = "new"]
    /\ t_sleepaddr' = [t_sleepaddr EXCEPT ![t] = Null]
    /\ pcb_ininterrupt' = [pcb_ininterrupt EXCEPT ![t] = 0]
    /\ UNCHANGED <<curthread, stack, in_interrupt, sleepers, zombies, num_secs,
                   count, lbolt_counter, halted>>

(* One of its allocations fails: the lists that were already enlarged stay. *)
ForkSteps == {"zombies", "queue", "run"}
ForkFail(step) ==
    /\ Running(curthread)
    /\ step = "queue" => qsize < Needed
    /\ step = "run" => QPreallocate(qsize, Needed) <= Len(runqueue) + 1
    /\ smax' = Preallocate(smax, Needed)
    /\ zmax' = IF step = "zombies" THEN zmax ELSE Preallocate(zmax, Needed)
    /\ qsize' = IF step = "run" THEN QPreallocate(qsize, Needed) ELSE qsize
    /\ UNCHANGED <<cpu, runqueue, sleepers, zombies, numthreads, pc, t_sleepaddr,
                   num_secs, count, lbolt_counter, halted>>

M_SwitchReady(t, rq, npc, i) ==               \* to the head of the queue
    /\ qsize' = QRoom(qsize, Len(rq) + 1)
    /\ MiSwitch(t, <<t>> \o rq, zombies, zmax, npc, i)

(* mi_switch(S_READY) of the running thread, with run queue rq before it;   *)
(* npc is where it goes on.                                                 *)
SwitchReady(t, rq, npc, i) ==
    /\ qsize' = QRoom(qsize, Len(rq) + 1)
    /\ MiSwitch(t, Append(rq, t), zombies, zmax, npc, i)

(* mi_switch(S_SLEEP), in thread_sleep(addr). *)
ThreadSleep(t, addr, npc) ==
    /\ t_sleepaddr' = [t_sleepaddr EXCEPT ![t] = addr]
    /\ sleepers' = Append(sleepers, t)
    /\ smax' = IF Len(sleepers) + 1 > smax
               THEN Preallocate(smax, Len(sleepers) + 1) ELSE smax
    /\ MiSwitch(t, runqueue, zombies, zmax, npc, in_interrupt)
    /\ UNCHANGED qsize

(* thread_yield called by the thread itself. *)
ThreadYield(t) ==
    /\ Running(t)
    /\ SwitchReady(t, runqueue, pc, in_interrupt)
    /\ UNCHANGED <<sleepers, smax, numthreads, t_sleepaddr, num_secs, count,
                   lbolt_counter, halted>>

(* thread_exit: on the zombie list until somebody else exorcises. *)
ThreadExit(t) ==
    /\ Running(t) /\ t # Menu
    /\ numthreads' = numthreads - 1
    /\ MiSwitch(t, runqueue, Append(zombies, t),
                IF Len(zombies) + 1 > zmax
                THEN Preallocate(zmax, Len(zombies) + 1) ELSE zmax,
                [pc EXCEPT ![t] = "zombie"], in_interrupt)
    /\ UNCHANGED <<sleepers, qsize, smax, t_sleepaddr, num_secs, count,
                   lbolt_counter, halted>>

------------------------------------------------------------------------------
(* A pass over the list seq that keeps the threads in S. *)
Keep(seq, S) ==
    LET kept[i \in 0 .. Len(seq)] ==
            IF i = 0 THEN <<>>
            ELSE IF seq[i] \in S THEN Append(kept[i - 1], seq[i])
                                 ELSE kept[i - 1]
    IN  kept[Len(seq)]

(* thread_wakeup(addr): its sleepers, in order, and the others. *)
SleepersOn(addr) == {t \in Threads : t_sleepaddr[t] = addr}
Woken(addr) == Keep(sleepers, SleepersOn(addr))
M_Asleep(addr) == sleepers                    \* no array_remove
Asleep(addr) == Keep(sleepers, Threads \ SleepersOn(addr))

(* P on a semaphore with count > 0. *)
PTake(t, s) ==
    /\ Running(t)
    /\ count[s] > 0
    /\ count' = [count EXCEPT ![s] = @ - 1]
    /\ UNCHANGED <<cpu, lists, numthreads, pc, t_sleepaddr, num_secs,
                   lbolt_counter, halted>>

M_PSleep(t, s) ==                             \* sleeps without looking
    /\ Running(t)
    /\ ThreadSleep(t, s, [pc EXCEPT ![t] = "P"])
    /\ UNCHANGED <<numthreads, num_secs, count, lbolt_counter, halted>>

(* P on a semaphore with count = 0: sleep... *)
PSleep(t, s) ==
    /\ Running(t)
    /\ count[s] = 0
    /\ ThreadSleep(t, s, [pc EXCEPT ![t] = "P"])
    /\ UNCHANGED <<numthreads, num_secs, count, lbolt_counter, halted>>

(* ... and look again once the thread has been woken and runs. *)
PRetry(t) ==
    LET s == t_sleepaddr[t] IN
    /\ curthread = t /\ pc[t] = "P"
    /\ IF count[s] = 0
       THEN ThreadSleep(t, s, pc) /\ UNCHANGED count
       ELSE /\ count' = [count EXCEPT ![s] = @ - 1]
            /\ t_sleepaddr' = [t_sleepaddr EXCEPT ![t] = Null]
            /\ pc' = [pc EXCEPT ![t] = "run"]
            /\ UNCHANGED <<cpu, lists>>
    /\ UNCHANGED <<numthreads, num_secs, lbolt_counter, halted>>

(* V, by the running thread or by a device's interrupt handler, which can   *)
(* also interrupt the idle loop.                                            *)
V(s) ==
    /\ curthread = NoThread \/ Running(curthread)
    /\ count[s] < MaxCount
    /\ count' = [count EXCEPT ![s] = @ + 1]
    /\ runqueue' = runqueue \o Woken(s)
    /\ sleepers' = Asleep(s)
    /\ qsize' = QRoom(qsize, Len(runqueue \o Woken(s)))
    /\ UNCHANGED <<cpu, zombies, smax, zmax, numthreads, pc, t_sleepaddr,
                   num_secs, lbolt_counter, halted>>

(* clocksleep(n): its loop, first entered... *)
ClockSleep(t, n) ==
    /\ Running(t)
    /\ num_secs' = [num_secs EXCEPT ![t] = n]
    /\ ThreadSleep(t, Lbolt, [pc EXCEPT ![t] = "clock"])
    /\ UNCHANGED <<numthreads, count, lbolt_counter, halted>>

(* ... and after each second. *)
ClockRetry(t) ==
    /\ curthread = t /\ pc[t] = "clock"
    /\ num_secs' = [num_secs EXCEPT ![t] = @ - 1]
    /\ IF num_secs[t] - 1 > 0
       THEN ThreadSleep(t, Lbolt, pc)
       ELSE /\ t_sleepaddr' = [t_sleepaddr EXCEPT ![t] = Null]
            /\ pc' = [pc EXCEPT ![t] = "run"]
            /\ UNCHANGED <<cpu, lists>>
    /\ UNCHANGED <<numthreads, count, lbolt_counter, halted>>

(* hardclock: each second it wakes the sleepers on lbolt. *)
Second == lbolt_counter + 1 >= HZ
WokenByTick == IF Second THEN Woken(Lbolt) ELSE <<>>
M_Hardclock ==                                \* ticks are not counted
    /\ lbolt_counter' = IF Second THEN 0 ELSE lbolt_counter
    /\ sleepers' = IF Second THEN Asleep(Lbolt) ELSE sleepers
Hardclock ==
    /\ lbolt_counter' = IF Second THEN 0 ELSE lbolt_counter + 1
    /\ sleepers' = IF Second THEN Asleep(Lbolt) ELSE sleepers

(* A clock interrupt: the thread yields inside the handler. *)
Tick(t) ==
    /\ Running(t)
    /\ Hardclock
    /\ SwitchReady(t, runqueue \o WokenByTick, [pc EXCEPT ![t] = "preempted"], 1)
    /\ UNCHANGED <<smax, numthreads, t_sleepaddr, num_secs, count, halted>>

(* It has the processor again and returns from the handler. *)
InterruptReturn(t) ==
    /\ curthread = t /\ pc[t] = "preempted"
    /\ pc' = [pc EXCEPT ![t] = "run"]
    /\ in_interrupt' = 0
    /\ UNCHANGED <<curthread, stack, pcb_ininterrupt, lists, numthreads,
                   t_sleepaddr, num_secs, count, lbolt_counter, halted>>

M_IdleTick ==                                 \* mi_switch goes on to exorcise
    /\ curthread = NoThread
    /\ Hardclock
    /\ runqueue' = runqueue \o WokenByTick
    /\ qsize' = QRoom(qsize, Len(runqueue \o WokenByTick))
    /\ Exorcise(zombies, zmax, pc)
    /\ UNCHANGED <<cpu, smax, numthreads, t_sleepaddr, num_secs, count, halted>>

(* A clock interrupt in the idle loop: mi_switch returns at once. *)
IdleTick ==
    /\ curthread = NoThread
    /\ Hardclock
    /\ runqueue' = runqueue \o WokenByTick
    /\ qsize' = QRoom(qsize, Len(runqueue \o WokenByTick))
    /\ UNCHANGED <<cpu, zombies, smax, zmax, numthreads, pc, t_sleepaddr,
                   num_secs, count, halted>>

(* panic (thread_panic) and shutdown drop all other threads; the machine    *)
(* stops.                                                                   *)
Halt ==
    /\ Running(curthread)
    /\ halted' = TRUE
    /\ runqueue' = <<>> /\ sleepers' = <<>>
    /\ UNCHANGED <<cpu, zombies, qsize, smax, zmax, numthreads, pc, t_sleepaddr,
                   num_secs, count, lbolt_counter>>

------------------------------------------------------------------------------
Clock == IdleTick \/ \E t \in Threads : Tick(t)
Continue == Dispatch \/ \E t \in Threads : PRetry(t) \/ ClockRetry(t) \/ InterruptReturn(t)

Next ==
    \/ Dispatch \/ IdleTick \/ Halt
    \/ \E step \in ForkSteps : ForkFail(step)
    \/ \E s \in Sems : V(s)
    \/ \E t \in Threads :
        \/ Fork(t) \/ ThreadYield(t) \/ ThreadExit(t)
        \/ \E s \in Sems : PTake(t, s) \/ PSleep(t, s)
        \/ PRetry(t)
        \/ \E n \in 1 .. MaxSecs : ClockSleep(t, n)
        \/ ClockRetry(t)
        \/ Tick(t) \/ InterruptReturn(t)

(* The timer's interrupt stays pending while interrupts are off, so it is   *)
(* taken if they are on again and again: strong fairness.  Code that runs   *)
(* at splhigh, and the idle loop, go on running.                            *)
Spec == Init /\ [][Next]_vars /\ SF_vars(Clock) /\ WF_vars(Continue)

------------------------------------------------------------------------------
Live == {t \in Threads : pc[t] # "none"}

(* The step is one of thread_fork. *)
Forking == (\E t \in Threads : Fork(t)) \/ (\E step \in ForkSteps : ForkFail(step))

(***************************************************************************)
(* Types of the state.  The lists of mi_switch and make_runnable never      *)
(* outgrow their storage: an array may be full, but the circular queue      *)
(* must keep a slot free, or it would look empty to q_empty.                *)
(***************************************************************************)
TypeOK ==
    /\ curthread \in Threads \cup {NoThread} /\ stack \in Threads
    /\ runqueue \in Seq(Threads) /\ sleepers \in Seq(Threads) /\ zombies \in Seq(Threads)
    /\ numthreads \in Nat
    /\ pc \in [Threads -> PCs]
    /\ t_sleepaddr \in [Threads -> Sems \cup {Lbolt, Null}]
    /\ num_secs \in [Threads -> 0 .. MaxSecs]
    /\ in_interrupt \in {0, 1} /\ pcb_ininterrupt \in [Threads -> {0, 1}]
    /\ count \in [Sems -> Nat]
    /\ lbolt_counter \in 0 .. HZ - 1
    /\ qsize \in Nat /\ smax \in Nat /\ zmax \in Nat
    /\ Len(runqueue) < qsize /\ Len(sleepers) <= smax /\ Len(zombies) <= zmax
    /\ halted \in BOOLEAN

(***************************************************************************)
(* Every thread that exists is in exactly one place: running, on the run    *)
(* queue, asleep, or a zombie.  No thread is dropped by a switch, queued    *)
(* twice by a wakeup, or destroyed while a list still names it.  And        *)
(* numthreads, by which thread_fork sizes the lists and which               *)
(* one_thread_only trusts, counts those that have not exited.               *)
(***************************************************************************)
OnePlace ==
    LET all == runqueue \o sleepers \o zombies
               \o (IF curthread = NoThread THEN <<>> ELSE <<curthread>>)
    IN  /\ ~halted => /\ ToSet(all) = Live
                      /\ \A i, j \in DOMAIN all : all[i] = all[j] => i = j
        /\ numthreads = Cardinality({t \in Live : pc[t] # "zombie"})

(***************************************************************************)
(* exorcise never frees the stack the processor is on: not that of the      *)
(* running thread, nor the stack of a dead thread that still runs the idle  *)
(* loop.                                                                    *)
(***************************************************************************)
StackAllocated == pc[stack] # "none" /\ curthread \in {stack, NoThread}

(***************************************************************************)
(* in_interrupt is per thread: no thread is found to be in an interrupt     *)
(* because another one was preempted, so the assertions of P and            *)
(* thread_sleep hold, and a new thread does not start inside one.           *)
(***************************************************************************)
NotInInterrupt ==
    in_interrupt = 1 => curthread # NoThread /\ pc[curthread] = "preempted"

(***************************************************************************)
(* No wakeup is lost: nobody is asleep on a semaphore with a count above    *)
(* zero.                                                                    *)
(***************************************************************************)
NoLostWakeup ==
    \A t \in ToSet(sleepers) : t_sleepaddr[t] \in Sems => count[t_sleepaddr[t]] = 0

(***************************************************************************)
(* After the first fork, mi_switch always finds room for a sleeper: the     *)
(* array only grows in thread_fork.                                         *)
(***************************************************************************)
SleepersPreallocated ==
    [][smax' > smax /\ smax > 0 => Forking]_vars

(***************************************************************************)
(* The scheduler starves nobody: a thread on the run queue gets the         *)
(* processor.                                                               *)
(***************************************************************************)
RunnableRuns ==
    \A t \in Threads : t \in ToSet(runqueue) ~> (curthread = t \/ halted)

(***************************************************************************)
(* clocksleep returns.                                                      *)
(***************************************************************************)
ClockSleepEnds ==
    \A t \in Threads : pc[t] = "clock" ~> (pc[t] = "run" \/ halted)

------------------------------------------------------------------------------
(***************************************************************************)
(* scheduler.c on scheduler_preallocate: "Ensure space for handling at      *)
(* least NTHREADS threads.  This is done only to ensure that                *)
(* make_runnable() does not fail": the queue only grows in thread_fork.     *)
(* The code does not keep this.                                             *)
(***************************************************************************)
RunqueuePreallocated ==
    [][qsize' # qsize => Forking]_vars

(***************************************************************************)
(* thread.c in mi_switch, on the lists it adds the current thread to:       *)
(* "Because we preallocate during thread_fork, this should not fail": an    *)
(* exiting thread finds room on the zombie list.  The code does not keep    *)
(* this: exorcise releases a large array when it empties it.                *)
(***************************************************************************)
ZombiesPreallocated ==
    [][zmax' > zmax => Forking]_vars

==============================================================================
