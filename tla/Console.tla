-------------------------------- MODULE Console --------------------------------
(***************************************************************************)
(* The console: kern/dev/generic/console.c on the serial driver             *)
(* kern/dev/lamebus/lser.c, from config_lser at boot to con_io under        *)
(* several threads.                                                         *)
(*                                                                          *)
(* A character is printed through the semaphore cs_wsem and an interrupt,   *)
(* or, with interrupts off or in a handler, by polling; before there is a   *)
(* console it is kept for later.  The two ways of printing share the flag   *)
(* ls_wbusy and the status register of the device.  P and V are the atomic  *)
(* steps module Threads shows them to be; what runs with interrupts off is  *)
(* one step, and the lser_irq of a pending interrupt may come between any   *)
(* two steps.  The lock functions con_io calls have empty bodies in         *)
(* synch.c, so they are left out.                                           *)
(*                                                                          *)
(* The device is external: it sends one character at a time and keeps one   *)
(* received character.  Characters received are numbered; what is sent is   *)
(* labelled with the thread it is from.                                     *)
(***************************************************************************)
EXTENDS Integers, Sequences, FiniteSets, SequencesExt

CONSTANTS
    Threads,        \* threads doing console I/O
    Main,           \* the one that boots
    Lines,          \* what con_io is asked to write: sequences of Chars
    ReadLens,       \* lengths of the reads con_io is asked for
    DelayBufSize,   \* DELAYBUFSIZE
    MaxKeys         \* bound of the model: keys typed

Chars == {"x", "nl", "cr"}

(* "none" and "printed" stand for no thread. *)
ASSUME ThreadAssumption ==
    Main \in Threads /\ "none" \notin Threads /\ "printed" \notin Threads
ASSUME RequestAssumption ==
    Lines \subseteq Seq({"x", "nl"}) /\ ReadLens \subseteq Nat \ {0}
ASSUME BoundAssumption ==
    DelayBufSize \in Nat /\ MaxKeys \in Nat

VARIABLES
    phase,      \* how far autoconf and config_con have come
    tx,         \* the character the device is sending, or Nothing
    wirq,       \* LSER_IRQ_ACTIVE in the write interrupt register
    rx, rirq,   \* the last character received; LSER_IRQ_ACTIVE for it
    ls_wbusy,   \* struct lser_softc
    cs_wsem, cs_rsem, cs_gotchar,   \* struct con_softc
    delayed,    \* delayed_outbuf
    io,         \* per thread: where it is in con_io, putch or getch
    out,        \* per thread: what of its call the device has sent
    keys,       \* the keys typed
    taken,      \* the numbers of those getch has returned, 0 for none
    hurried,    \* a key was typed when another, or the console, was not ready
    fault       \* the kernel went wrong: no step follows

vars == <<phase, tx, wirq, rx, rirq, ls_wbusy, cs_wsem, cs_rsem, cs_gotchar,
          delayed, io, out, keys, taken, hurried, fault>>

device == <<tx, wirq, ls_wbusy, out>>
input  == <<rx, rirq, cs_rsem, cs_gotchar, keys, taken, hurried>>

Nothing == [who |-> "none", ch |-> "none"]
Sender  == Threads \cup {"printed"}

NoIo == [pc |-> "idle", req |-> <<>>, line |-> <<>>, todo |-> <<>>, resid |-> 0]

(* config_lser has just enabled the device's interrupts. *)
Init ==
    /\ phase = "lser"
    /\ tx = Nothing /\ wirq = FALSE
    /\ rx = 0 /\ rirq = FALSE
    /\ ls_wbusy = FALSE
    /\ cs_wsem = 0 /\ cs_rsem = 0 /\ cs_gotchar = 0
    /\ delayed = <<>>
    /\ io = [t \in Threads |-> NoIo]
    /\ out = [t \in Threads |-> <<>>]
    /\ keys = <<>> /\ taken = <<>> /\ hurried = FALSE
    /\ fault = FALSE

Ok == ~fault
At(t, pc) == Ok /\ io[t].pc = pc
Live == phase \in {"flush", "up"}       \* the_console # NULL

(* What the sender is known to have sent once the device has sent c. *)
Delivered(c) == IF c.who \in Threads THEN [out EXCEPT ![c.who] = Append(@, c.ch)]
                                     ELSE out

------------------------------------------------------------------------------
(* putch before there is a console. *)
PutchDelayed ==
    /\ Ok /\ ~Live
    /\ Len(delayed) < DelayBufSize
    /\ delayed' = Append(delayed, "x")
    /\ UNCHANGED <<phase, device, cs_wsem, io, input, fault>>

(* attach_con_to_lser: the device's interrupts now reach the console. *)
Attach ==
    /\ Ok /\ phase = "lser"
    /\ phase' = "attached"
    /\ UNCHANGED <<device, cs_wsem, delayed, io, input, fault>>

(* config_con, assignment by assignment: interrupts are on. *)
ConfigSems ==
    /\ Ok /\ phase = "attached"
    /\ phase' = "sems"
    /\ cs_rsem' = 0 /\ cs_wsem' = 1
    /\ UNCHANGED <<device, delayed, io, rx, rirq, cs_gotchar, keys, taken,
                   hurried, fault>>

ConfigGotchar ==
    /\ Ok /\ phase = "sems"
    /\ phase' = "gotchar"
    /\ cs_gotchar' = 0
    /\ UNCHANGED <<device, cs_wsem, delayed, io, rx, rirq, cs_rsem, keys, taken,
                   hurried, fault>>

(* the_console = cs, and flush_delay_buf starts. *)
ConfigConsole ==
    /\ Ok /\ phase = "gotchar"
    /\ phase' = "flush"
    /\ io' = [io EXCEPT ![Main] = [NoIo EXCEPT !.pc = "putch", !.req = delayed,
                                               !.todo = delayed]]
    /\ UNCHANGED <<device, cs_wsem, delayed, input, fault>>

FlushDone ==
    /\ Ok /\ phase = "flush" /\ At(Main, "loop")
    /\ phase' = "up"
    /\ delayed' = <<>>
    /\ io' = [io EXCEPT ![Main] = NoIo]
    /\ out' = [out EXCEPT ![Main] = <<>>]
    /\ tx' = IF tx.who = Main THEN [tx EXCEPT !.who = "printed"] ELSE tx
    /\ UNCHANGED <<wirq, ls_wbusy, cs_wsem, input, fault>>

------------------------------------------------------------------------------
(* con_io, writing a line. *)
Write(t) ==
    /\ At(t, "idle") /\ phase = "up"
    /\ \E l \in Lines :
          io' = [io EXCEPT ![t] = [NoIo EXCEPT !.pc = "loop", !.req = l,
                                               !.line = l]]
    /\ UNCHANGED <<phase, device, cs_wsem, delayed, input, fault>>

(* What is printed for one character. *)
Expand(ch) == IF ch = "nl" THEN <<"cr", "nl">> ELSE <<ch>>

(* uiomove takes the next character from the user, *)
NextChar(t) ==
    /\ At(t, "loop") /\ io[t].line # <<>>
    /\ io' = [io EXCEPT ![t].pc = "putch", ![t].line = Tail(@),
                        ![t].todo = Expand(Head(io[t].line))]
    /\ UNCHANGED <<phase, device, cs_wsem, delayed, input, fault>>

(* or cannot, or all have been printed: con_io returns.  The device may     *)
(* still be sending the last one.                                           *)
Return(t) ==
    /\ At(t, "loop") /\ phase = "up"
    /\ io' = [io EXCEPT ![t] = NoIo]
    /\ out' = [out EXCEPT ![t] = <<>>]
    /\ tx' = IF tx.who = t THEN [tx EXCEPT !.who = "printed"] ELSE tx
    /\ UNCHANGED <<phase, wirq, ls_wbusy, cs_wsem, delayed, input, fault>>

PutchDone(t) ==
    /\ At(t, "putch") /\ io[t].todo = <<>>
    /\ io' = [io EXCEPT ![t].pc = "loop"]
    /\ UNCHANGED <<phase, device, cs_wsem, delayed, input, fault>>

M_PutchP(t) ==          \* does not wait for the device
    /\ At(t, "putch") /\ io[t].todo # <<>>
    /\ cs_wsem' = IF cs_wsem > 0 THEN cs_wsem - 1 ELSE 0
    /\ io' = [io EXCEPT ![t].pc = "send"]
    /\ UNCHANGED <<phase, device, delayed, input, fault>>

(* putch_intr: P(cs_wsem) *)
PutchP(t) ==
    /\ At(t, "putch") /\ io[t].todo # <<>>
    /\ cs_wsem > 0
    /\ cs_wsem' = cs_wsem - 1
    /\ io' = [io EXCEPT ![t].pc = "send"]
    /\ UNCHANGED <<phase, device, delayed, input, fault>>

M_LserWrite(t) ==       \* ls_wbusy is not set
    /\ At(t, "send")
    /\ IF ls_wbusy
       THEN fault' = TRUE /\ UNCHANGED <<io, tx, ls_wbusy>>
       ELSE /\ tx' = [who |-> t, ch |-> Head(io[t].todo)]
            /\ ls_wbusy' = FALSE
            /\ io' = [io EXCEPT ![t].pc = "putch", ![t].todo = Tail(@)]
            /\ UNCHANGED fault
    /\ UNCHANGED <<phase, wirq, out, cs_wsem, delayed, input>>

(* lser_write: it panics if the device was given a character before it was  *)
(* done with the last.                                                      *)
LserWrite(t) ==
    /\ At(t, "send")
    /\ IF ls_wbusy
       THEN fault' = TRUE /\ UNCHANGED <<io, tx, ls_wbusy>>
       ELSE /\ tx' = [who |-> t, ch |-> Head(io[t].todo)]
            /\ ls_wbusy' = TRUE
            /\ io' = [io EXCEPT ![t].pc = "putch", ![t].todo = Tail(@)]
            /\ UNCHANGED fault
    /\ UNCHANGED <<phase, wirq, out, cs_wsem, delayed, input>>

M_LserWritepolled ==    \* the interrupt that was pending is cleared as well
    /\ Ok /\ Live
    /\ IF ls_wbusy /\ tx = Nothing /\ ~wirq
       THEN fault' = TRUE /\ UNCHANGED device
       ELSE /\ out' = IF ls_wbusy THEN Delivered(tx) ELSE out
            /\ tx' = Nothing
            /\ wirq' = FALSE
            /\ UNCHANGED <<ls_wbusy, fault>>
    /\ UNCHANGED <<phase, cs_wsem, delayed, io, input>>

M2_LserWritepolled ==   \* does not wait for the character under way
    /\ Ok /\ Live
    /\ tx' = Nothing
    /\ wirq' = ls_wbusy
    /\ UNCHANGED <<phase, cs_wsem, delayed, io, input, ls_wbusy, out, fault>>

(* lser_writepolled, by a handler or with interrupts off: it waits for the  *)
(* character under way, sends its own and waits for that, and leaves the    *)
(* interrupt pending if one was to come.  With nothing to wait for it would *)
(* spin for ever.  A character under way that it does not know of is lost.  *)
LserWritepolled ==
    /\ Ok /\ Live
    /\ IF ls_wbusy /\ tx = Nothing /\ ~wirq
       THEN fault' = TRUE /\ UNCHANGED device
       ELSE /\ out' = IF ls_wbusy THEN Delivered(tx) ELSE out
            /\ tx' = Nothing
            /\ wirq' = ls_wbusy
            /\ UNCHANGED <<ls_wbusy, fault>>
    /\ UNCHANGED <<phase, cs_wsem, delayed, io, input>>

------------------------------------------------------------------------------
(* con_io, reading up to a newline. *)
Read(t) ==
    /\ At(t, "idle") /\ phase = "up"
    /\ \E n \in ReadLens :
          io' = [io EXCEPT ![t] = [NoIo EXCEPT !.pc = "getch", !.resid = n]]
    /\ UNCHANGED <<phase, device, cs_wsem, delayed, input, fault>>

(* getch_intr: P(cs_rsem) ... *)
GetchP(t) ==
    /\ At(t, "getch")
    /\ cs_rsem > 0
    /\ cs_rsem' = cs_rsem - 1
    /\ io' = [io EXCEPT ![t].pc = "got"]
    /\ UNCHANGED <<phase, device, cs_wsem, delayed, rx, rirq, cs_gotchar, keys,
                   taken, hurried, fault>>

EndsLine(k) == k > 0 /\ keys[k] \in {"cr", "nl"}

(* ... and then the character, which ends the read if it is a newline or    *)
(* the last one asked for.                                                  *)
GetchTake(t) ==
    /\ At(t, "got")
    /\ taken' = Append(taken, cs_gotchar)
    /\ io' = [io EXCEPT ![t] =
                IF EndsLine(cs_gotchar) \/ io[t].resid = 1
                THEN NoIo
                ELSE [io[t] EXCEPT !.pc = "getch", !.resid = io[t].resid - 1]]
    /\ UNCHANGED <<phase, device, cs_wsem, delayed, rx, rirq, cs_rsem,
                   cs_gotchar, keys, hurried, fault>>

------------------------------------------------------------------------------
(* The device is done with a character. *)
Sent ==
    /\ Ok /\ tx # Nothing
    /\ out' = Delivered(tx)
    /\ tx' = Nothing
    /\ wirq' = TRUE
    /\ UNCHANGED <<phase, ls_wbusy, cs_wsem, delayed, io, input, fault>>

(* A key is typed.  The device forgets one that was not fetched yet. *)
Key ==
    /\ Ok /\ Len(keys) < MaxKeys
    /\ \E ch \in {"x", "cr"} : keys' = Append(keys, ch)
    /\ rx' = Len(keys) + 1
    /\ rirq' = TRUE
    /\ hurried' = (hurried \/ Len(taken) < Len(keys) \/ ~Live)
    /\ UNCHANGED <<phase, device, cs_wsem, delayed, io, cs_rsem, cs_gotchar,
                   taken, fault>>

con_input ==
    /\ cs_gotchar' = rx
    /\ cs_rsem' = cs_rsem + 1

M_LserIrq ==           \* the read interrupt is not cleared
    /\ Ok /\ (wirq \/ rirq)
    /\ wirq' = FALSE /\ rirq' = (rirq /\ cs_rsem < MaxKeys)
    /\ ls_wbusy' = IF wirq THEN FALSE ELSE ls_wbusy
    /\ cs_wsem' = IF wirq THEN cs_wsem + 1 ELSE cs_wsem
    /\ IF rirq THEN con_input ELSE UNCHANGED <<cs_rsem, cs_gotchar>>
    /\ fault' = (rirq /\ phase \in {"lser", "attached"})
    /\ UNCHANGED <<phase, tx, rx, delayed, io, out, keys, taken, hurried>>

(* lser_irq.  A key that comes before config_con has made the semaphores,   *)
(* or before ls_input is set at all, goes through whatever kmalloc left     *)
(* there.                                                                   *)
LserIrq ==
    /\ Ok /\ (wirq \/ rirq)
    /\ wirq' = FALSE /\ rirq' = FALSE
    /\ ls_wbusy' = IF wirq THEN FALSE ELSE ls_wbusy
    /\ cs_wsem' = IF wirq THEN cs_wsem + 1 ELSE cs_wsem
    /\ IF rirq THEN con_input ELSE UNCHANGED <<cs_rsem, cs_gotchar>>
    /\ fault' = (rirq /\ phase \in {"lser", "attached"})
    /\ UNCHANGED <<phase, tx, rx, delayed, io, out, keys, taken, hurried>>

Boot == Attach \/ ConfigSems \/ ConfigGotchar \/ ConfigConsole \/ FlushDone

Step(t) ==
    \/ NextChar(t) \/ Return(t) \/ PutchDone(t) \/ PutchP(t) \/ LserWrite(t)
    \/ GetchP(t) \/ GetchTake(t)

Next ==
    \/ PutchDelayed \/ Boot
    \/ \E t \in Threads : Write(t) \/ Read(t) \/ Step(t)
    \/ LserWritepolled
    \/ Sent \/ Key
    \/ LserIrq

(* Threads that can run do (module Threads), the device sends what it was   *)
(* given, and interrupts are not left off for ever.                         *)
Fairness ==
    /\ \A t \in Threads : WF_vars(Step(t))
    /\ WF_vars(Boot) /\ WF_vars(Sent) /\ WF_vars(LserIrq)

Spec == Init /\ [][Next]_vars /\ Fairness

------------------------------------------------------------------------------
Sending == {t \in Threads : io[t].pc = "send"}

(***************************************************************************)
(* The turn to write is in exactly one place: the semaphore, a thread on    *)
(* its way from P to lser_write, or the device.  And ls_wbusy says exactly  *)
(* that a completion is to come - being sent, or its interrupt pending -    *)
(* whatever polled output came in between; so lser_write never panics       *)
(* ("Not clear to write") and polling never spins for ever.                 *)
(***************************************************************************)
OneWriter ==
    Live /\ Ok =>
        /\ cs_wsem + Cardinality(Sending) + (IF ls_wbusy THEN 1 ELSE 0) = 1
        /\ ls_wbusy <=> tx # Nothing \/ wirq
        /\ ~(tx # Nothing /\ wirq)

Printing(t) == io[t].pc \in {"loop", "putch", "send"}
InDevice(t) == IF tx.who = t THEN <<tx.ch>> ELSE <<>>
Printed(line) == FlattenSeq([i \in DOMAIN line |->
                     IF line[i] = "nl" THEN <<"cr", "nl">> ELSE <<line[i]>>])

(***************************************************************************)
(* What the device has sent for a call of con_io, what it is sending and    *)
(* what is still to be printed make up the line, with a carriage return     *)
(* before each newline: nothing is lost, doubled or reordered by other      *)
(* threads' output or by polled output that breaks in.                      *)
(***************************************************************************)
OutputFaithful ==
    \A t \in Threads : Printing(t) =>
        out[t] \o InDevice(t) \o io[t].todo \o Printed(io[t].line)
            = Printed(io[t].req)

(***************************************************************************)
(* Without buffering, keys typed too fast are lost (console.c:20), and the  *)
(* next one is then read twice.  Even so getch never goes back to a         *)
(* character older than one it has returned, and never returns more         *)
(* characters than keys were typed: those returned, those about to be       *)
(* fetched, the count of the semaphore and the interrupt pending make up no *)
(* more.  Keys typed one at a time, after the console is there, are all     *)
(* read, once each and in order, whoever reads them.                        *)
(***************************************************************************)
Fetching == {t \in Threads : io[t].pc = "got"}
Accounted == Len(taken) + Cardinality(Fetching) + cs_rsem
             + (IF rirq THEN 1 ELSE 0)

InputFaithful ==
    /\ \A i, j \in DOMAIN taken : i < j => taken[i] <= taken[j]
    /\ Ok => Accounted <= Len(keys)
    /\ Ok /\ ~hurried => /\ Accounted = Len(keys)
                         /\ \A i \in DOMAIN taken : taken[i] = i

(***************************************************************************)
(* The turn to write always comes back to the semaphore.  (A given thread   *)
(* may still lose the race for it each time.)                               *)
(***************************************************************************)
OutputProgress == Live /\ Ok /\ cs_wsem = 0 ~> cs_wsem = 1
==============================================================================
