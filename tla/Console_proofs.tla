---------------------------- MODULE Console_proofs ----------------------------
(***************************************************************************)
(* Proofs about Console: the turn to write is never lost or doubled, what   *)
(* con_io is asked to write comes out whole and in order, and what it reads *)
(* are the keys typed.                                                      *)
(***************************************************************************)
EXTENDS Console, ListFacts

(***************************************************************************)
(* The inductive invariant.                                                 *)
(***************************************************************************)
Io == [pc    : {"idle", "loop", "putch", "send", "getch", "got"},
       req   : Seq(Chars),
       line  : Seq({"x", "nl"}),
       todo  : Seq(Chars),
       resid : Int]

Types ==
    /\ phase \in {"lser", "attached", "sems", "gotchar", "flush", "up"}
    /\ tx \in [who : Sender, ch : Chars] \cup {Nothing}
    /\ wirq \in BOOLEAN /\ rirq \in BOOLEAN /\ ls_wbusy \in BOOLEAN
    /\ hurried \in BOOLEAN /\ fault \in BOOLEAN
    /\ rx \in Nat /\ cs_wsem \in Nat /\ cs_rsem \in Nat /\ cs_gotchar \in Nat
    /\ delayed \in Seq({"x"})
    /\ io \in [Threads -> Io]
    /\ out \in [Threads -> Seq(Chars)]
    /\ keys \in Seq(Chars)
    /\ taken \in Seq(Nat)

(* The turn to write is made with cs_wsem, and nothing is sent or being     *)
(* done before there is a console.                                          *)
TurnInv ==
    /\ phase \in {"lser", "attached"} => cs_wsem = 0 /\ ~ls_wbusy
    /\ phase \notin {"lser", "attached"} =>
          \/ cs_wsem = 1 /\ Sending = {} /\ ~ls_wbusy
          \/ cs_wsem = 0 /\ (\E t \in Threads : Sending = {t}) /\ ~ls_wbusy
          \/ cs_wsem = 0 /\ Sending = {} /\ ls_wbusy
    /\ ls_wbusy <=> tx # Nothing \/ wirq
    /\ ~(tx # Nothing /\ wirq)
    /\ ~Live => ~ls_wbusy /\ \A t \in Threads : io[t] = NoIo

Whole(a, b, c, d) == a \o b \o c \o d

(* A thread between two characters has none left to print and one in        *)
(* lser_write has one, and the device works for none that is not printing.  *)
Line(t) ==
    /\ Printing(t) => Whole(out[t], InDevice(t), io[t].todo,
                            Printed(io[t].line)) = Printed(io[t].req)
    /\ ~Printing(t) => out[t] = <<>> /\ tx.who # t
    /\ io[t].pc = "loop" => io[t].todo = <<>>
    /\ io[t].pc = "send" => io[t].todo # <<>>

LineInv == \A t \in Threads : Line(t)

(* The last character received is the last key typed, cs_gotchar is one     *)
(* that was received, and nothing is read before the console is there.      *)
(* Keys typed one at a time are ahead of the reader by at most one, which   *)
(* cs_gotchar holds once its interrupt is done with.                        *)
KeyInv ==
    /\ rx = Len(keys) /\ cs_gotchar <= rx
    /\ \A i \in 1 .. Len(taken) : taken[i] <= cs_gotchar
    /\ \A i, j \in 1 .. Len(taken) : i < j => taken[i] <= taken[j]
    /\ phase # "up" => taken = <<>> /\ Fetching = {}
    /\ IsFiniteSet(Fetching)
    /\ phase \in {"lser", "attached"} /\ Ok => cs_rsem = 0
    /\ Ok => Accounted <= Len(keys)
    /\ ~Live /\ ~hurried => keys = <<>>
    /\ Ok /\ ~hurried => /\ Accounted = Len(keys)
                         /\ \A i \in 1 .. Len(taken) : taken[i] = i
                         /\ Len(keys) <= Len(taken) + 1
                         /\ ~rirq => cs_gotchar = Len(keys)

(* Nobody reads before the console is there. *)
BootInv ==
    phase # "up" =>
        \A t \in Threads : io[t].pc \in {"idle", "loop", "putch", "send"}

(* What goes wrong does so before the console is there. *)
FaultInv == Live => Ok

IInv == Types /\ TurnInv /\ LineInv /\ KeyInv /\ BootInv /\ FaultInv

------------------------------------------------------------------------------
(* Lists of characters. *)
LEMMA SeqSubset ==
    ASSUME NEW A, NEW B, A \subseteq B
    PROVE  \A s \in Seq(A) : s \in Seq(B)
<1> SUFFICES ASSUME NEW s \in Seq(A) PROVE s \in Seq(B)
  OBVIOUS
<1>1. Len(s) \in Nat /\ s \in [1 .. Len(s) -> A]
  BY LenProperties
<1>2. s \in [1 .. Len(s) -> B]
  BY <1>1
<1> QED BY <1>1, <1>2, IsASeq

LEMMA HeadFirst ==
    ASSUME NEW S, NEW s \in Seq(S), s # <<>>
    PROVE  /\ Head(s) \in S /\ Tail(s) \in Seq(S)
           /\ s = <<Head(s)>> \o Tail(s)
BY SMT

(* The parts of a line joined: moving characters from one to the next       *)
(* leaves the whole as it was.                                              *)
LEMMA WholeOne ==
    ASSUME NEW S, NEW d \in Seq(S)
    PROVE  Whole(<<>>, <<>>, <<>>, d) = d /\ Whole(<<>>, <<>>, d, <<>>) = d
BY SMT DEF Whole

LEMMA WholeNext ==
    ASSUME NEW S, NEW a \in Seq(S), NEW b \in Seq(S), NEW c \in Seq(S),
           NEW d \in Seq(S)
    PROVE  Whole(a, b, <<>>, c \o d) = Whole(a, b, c, d)
BY SMT DEF Whole

LEMMA WholeGiven ==
    ASSUME NEW S, NEW a \in Seq(S), NEW c \in Seq(S), c # <<>>, NEW d \in Seq(S)
    PROVE  Whole(a, <<>>, c, d) = Whole(a, <<Head(c)>>, Tail(c), d)
BY SMT DEF Whole

LEMMA WholeSent ==
    ASSUME NEW S, NEW a \in Seq(S), NEW ch \in S, NEW c \in Seq(S),
           NEW d \in Seq(S)
    PROVE  Whole(a, <<ch>>, c, d) = Whole(Append(a, ch), <<>>, c, d)
BY SMT DEF Whole

LEMMA ExpandChars ==
    ASSUME NEW ch \in Chars PROVE Expand(ch) \in Seq(Chars)
<1>1. {"cr", "nl"} \subseteq Chars
  BY DEF Chars
<1> HIDE DEF Chars
<1>2. <<"cr", "nl">> \in Seq(Chars)
  BY <1>1
<1>3. <<ch>> \in Seq(Chars)
  OBVIOUS
<1> QED BY <1>2, <1>3 DEF Expand

(* Printing a line is printing its first character, then the others. *)
LEMMA PrintedIs ==
    ASSUME NEW l \in Seq(Chars)
    PROVE  /\ Printed(<<>>) = <<>>
           /\ Printed(l) \in Seq(Chars)
           /\ l # <<>> => /\ Printed(Tail(l)) \in Seq(Chars)
                          /\ Printed(l) = Expand(Head(l)) \o Printed(Tail(l))
<1> DEFINE Each(s) == [i \in DOMAIN s |-> Expand(s[i])]
<1>1. \A s : Printed(s) = FlattenSeq(Each(s))
  BY DEF Printed, Expand
<1>2. Printed(<<>>) = <<>>
  <2>1. Each(<<>>) = <<>>
    BY EmptySeq
  <2> QED BY <1>1, <2>1 DEF FlattenSeq
<1>3. ASSUME l # <<>>
      PROVE  /\ Printed(l) \in Seq(Chars) /\ Printed(Tail(l)) \in Seq(Chars)
             /\ Printed(l) = Expand(Head(l)) \o Printed(Tail(l))
  <2>1. /\ Len(l) \in Nat \ {0} /\ \A i \in 1 .. Len(l) : l[i] \in Chars
        /\ DOMAIN l = 1 .. Len(l) /\ Head(l) = l[1]
        /\ Tail(l) \in Seq(Chars) /\ Len(Tail(l)) = Len(l) - 1
        /\ DOMAIN Tail(l) = 1 .. Len(l) - 1
        /\ \A i \in 1 .. Len(l) - 1 : Tail(l)[i] = l[i + 1]
    BY <1>3, LenProperties, EmptySeq, HeadTailProperties
  <2> DEFINE e == Each(l)
             r == Each(Tail(l))
  <2>2. /\ e \in [1 .. Len(l) -> Seq(Chars)] /\ r = [i \in 1 .. Len(l) - 1 |-> Expand(l[i + 1])]
        /\ \A i \in 1 .. Len(l) : e[i] = Expand(l[i])
    BY <2>1, ExpandChars
  <2> HIDE DEF e, r
  <2>3. e \in Seq(Seq(Chars)) /\ Len(e) = Len(l)
    BY <2>1, <2>2, IsASeq
  <2>4. e # <<>>
    BY <2>1, <2>3, EmptySeq
  <2>5. /\ Tail(e) \in Seq(Seq(Chars)) /\ Len(Tail(e)) = Len(l) - 1
        /\ \A i \in 1 .. Len(l) - 1 : Tail(e)[i] = e[i + 1]
        /\ Head(e) = e[1]
    BY <2>3, <2>4, HeadTailProperties
  <2>6. Tail(e) = r
    <3>1. Tail(e) = [i \in 1 .. Len(l) - 1 |-> Tail(e)[i]]
      BY <2>5, LenProperties
    <3>2. \A i \in 1 .. Len(l) - 1 : Tail(e)[i] = Expand(l[i + 1])
      BY <2>1, <2>2, <2>5
    <3> QED BY <2>2, <3>1, <3>2
  <2>7. Head(e) = Expand(Head(l))
    BY <2>1, <2>2, <2>5
  <2>8. /\ FlattenSeq(e) \in Seq(Chars) /\ FlattenSeq(Tail(e)) \in Seq(Chars)
        /\ FlattenSeq(e) = Head(e) \o FlattenSeq(Tail(e))
    BY <2>3, <2>4, FlattenHead
  <2>9. Printed(l) = FlattenSeq(e) /\ Printed(Tail(l)) = FlattenSeq(r)
    BY <1>1 DEF e, r
  <2> QED BY <2>6, <2>7, <2>8, <2>9
<1> QED BY <1>2, <1>3, EmptySeq

(* What was kept for later needs no carriage returns. *)
LEMMA PrintedPlain ==
    ASSUME NEW l \in Seq({"x"})
    PROVE  l \in Seq(Chars) /\ Printed(l) = l
<1> DEFINE X == Seq({"x"})
           T == {n \in Nat : \A s \in X : Len(s) = n => Printed(s) = s}
<1>1. \A s \in X : s \in Seq(Chars) /\ s \in Seq({"x"})
  BY SeqSubset DEF Chars
<1> HIDE DEF X
<1>2. 0 \in T
  <2>1. \A s \in X : Len(s) = 0 => s = <<>>
    BY <1>1, EmptySeq
  <2>2. Printed(<<>>) = <<>>
    <3>1. <<>> \in Seq(Chars)
      BY EmptySeq
    <3> QED BY <3>1, PrintedIs
  <2> QED BY <2>1, <2>2
<1>3. ASSUME NEW n \in Nat, n \in T PROVE n + 1 \in T
  <2>1. ASSUME NEW s \in X, Len(s) = n + 1 PROVE Printed(s) = s
    <3>1. s \in Seq({"x"}) /\ s \in Seq(Chars) /\ s # <<>>
      BY <1>1, <2>1, EmptySeq
    <3>2. /\ Head(s) \in {"x"} /\ Tail(s) \in X
          /\ s = <<Head(s)>> \o Tail(s)
      BY <3>1, HeadFirst DEF X
    <3>3. Len(Tail(s)) = n
      BY <2>1, <3>1, HeadTailProperties
    <3>4. Printed(Tail(s)) = Tail(s)
      BY <1>3, <3>2, <3>3
    <3>5. Printed(s) = Expand(Head(s)) \o Printed(Tail(s))
      BY <3>1, PrintedIs
    <3>6. Expand(Head(s)) = <<Head(s)>>
      BY <3>2 DEF Expand
    <3> QED BY <3>2, <3>4, <3>5, <3>6
  <2> QED BY <2>1
<1>4. \A n \in Nat : n \in T
  <2>1. \A n \in Nat : n \in T => n + 1 \in T
    BY <1>3
  <2> HIDE DEF T
  <2> QED BY <1>2, <2>1, Induction
<1>5. l \in X /\ Len(l) \in Nat
  BY LenProperties DEF X
<1> QED BY <1>1, <1>4, <1>5
------------------------------------------------------------------------------
(* Types. *)
LEMMA TypesInit == Init => Types
<1> SUFFICES ASSUME Init PROVE Types
  OBVIOUS
<1> USE DEF Init
<1>1. NoIo \in Io /\ io = [t \in Threads |-> NoIo]
  <2>1. \A S : <<>> \in Seq(S)
    BY EmptySeq
  <2> QED BY <2>1 DEF NoIo, Io
<1>2. out \in [Threads -> Seq(Chars)]
  BY EmptySeq
<1>3. delayed \in Seq({"x"}) /\ keys \in Seq(Chars) /\ taken \in Seq(Nat)
  BY EmptySeq
<1>4. io \in [Threads -> Io]
  BY <1>1
<1> QED BY <1>2, <1>3, <1>4 DEF Types

LEMMA TypesStep == Types /\ LineInv /\ [Next]_vars => Types'
<1> SUFFICES ASSUME Types, LineInv, [Next]_vars PROVE Types'
  OBVIOUS
<1> USE DEF Types
<1>1. \A S : <<>> \in Seq(S)
  BY EmptySeq
<1>7. NoIo \in Io
  BY <1>1 DEF NoIo, Io
<1>2. ASSUME PutchDelayed PROVE Types'
  <2>1. delayed' \in Seq({"x"})
    BY <1>2, AppendProperties DEF PutchDelayed
  <2> QED BY <1>2, <2>1 DEF PutchDelayed, device, input
<1>3. ASSUME Attach PROVE Types'
  BY <1>3 DEF Attach, device, input
<1>4. ASSUME ConfigSems PROVE Types'
  BY <1>4 DEF ConfigSems, device
<1>5. ASSUME ConfigGotchar PROVE Types'
  BY <1>5 DEF ConfigGotchar, device
<1>6. ASSUME ConfigConsole PROVE Types'
  <2>1. delayed \in Seq(Chars)
    BY PrintedPlain
  <2>2. io' \in [Threads -> Io]
    <3>1. io' = [io EXCEPT ![Main] = [NoIo EXCEPT !.pc = "putch", !.req = delayed,
                                                  !.todo = delayed]]
      BY <1>6 DEF ConfigConsole
    <3>2. [NoIo EXCEPT !.pc = "putch", !.req = delayed, !.todo = delayed] \in Io
      BY <1>7, <2>1, ThreadAssumption DEF Io
    <3> QED BY <3>1, <3>2
  <2> QED BY <1>6, <2>2 DEF ConfigConsole, device, input
<1>8. \A t \in Threads :
         /\ (IF tx.who = t THEN [tx EXCEPT !.who = "printed"] ELSE tx)
               \in [who : Sender, ch : Chars] \cup {Nothing}
         /\ [out EXCEPT ![t] = <<>>] \in [Threads -> Seq(Chars)]
  <2> SUFFICES ASSUME NEW t \in Threads
               PROVE  (IF tx.who = t THEN [tx EXCEPT !.who = "printed"] ELSE tx)
                         \in [who : Sender, ch : Chars] \cup {Nothing}
    BY <1>1
  <2>1. CASE tx = Nothing
    BY <2>1, ThreadAssumption DEF Nothing
  <2>2. CASE tx \in [who : Sender, ch : Chars]
    BY <2>2 DEF Sender
  <2> QED BY <2>1, <2>2
<1>9. ASSUME FlushDone PROVE Types'
  BY <1>1, <1>7, <1>8, <1>9, ThreadAssumption DEF FlushDone, input
<1>10. ASSUME NEW t \in Threads, Write(t) PROVE Types'
  <2>1. PICK l \in Lines : io' = [io EXCEPT ![t] = [NoIo EXCEPT !.pc = "loop",
                                                    !.req = l, !.line = l]]
    BY <1>10 DEF Write
  <2>2. l \in Seq({"x", "nl"}) /\ l \in Seq(Chars)
    <3>1. l \in Seq({"x", "nl"})
      BY RequestAssumption
    <3>2. {"x", "nl"} \subseteq Chars
      BY DEF Chars
    <3> QED BY <3>1, <3>2, SeqSubset
  <2>3. io' \in [Threads -> Io]
    <3>1. [NoIo EXCEPT !.pc = "loop", !.req = l, !.line = l] \in Io
      BY <1>7, <2>2 DEF Io
    <3> QED BY <2>1, <3>1
  <2> QED BY <1>10, <2>3 DEF Write, device, input
<1>11. ASSUME NEW t \in Threads, Read(t) PROVE Types'
  <2>1. PICK n \in ReadLens : io' = [io EXCEPT ![t] = [NoIo EXCEPT !.pc = "getch",
                                                       !.resid = n]]
    BY <1>11 DEF Read
  <2>2. n \in Int
    BY RequestAssumption
  <2>3. io' \in [Threads -> Io]
    <3>1. [NoIo EXCEPT !.pc = "getch", !.resid = n] \in Io
      BY <1>7, <2>2 DEF Io
    <3> QED BY <2>1, <3>1
  <2> QED BY <1>11, <2>3 DEF Read, device, input
<1>12. ASSUME NEW t \in Threads PROVE io[t] \in Io
  OBVIOUS
<1>13. ASSUME NEW t \in Threads, NextChar(t) PROVE Types'
  <2> DEFINE line == io[t].line
  <2>1. line \in Seq({"x", "nl"}) /\ line # <<>>
    BY <1>12, <1>13 DEF NextChar, Io
  <2>2. Head(line) \in {"x", "nl"} /\ Tail(line) \in Seq({"x", "nl"})
    BY <2>1, HeadFirst
  <2>3. Expand(Head(line)) \in Seq(Chars)
    BY <2>2, ExpandChars DEF Chars
  <2>4. io' = [io EXCEPT ![t] = [@ EXCEPT !.pc = "putch", !.line = Tail(line),
                                          !.todo = Expand(Head(line))]]
    BY <1>13 DEF NextChar
  <2> HIDE DEF line
  <2>5. io' \in [Threads -> Io]
    BY <2>2, <2>3, <2>4 DEF Io
  <2> QED BY <1>13, <2>5 DEF NextChar, device, input
<1>14. ASSUME NEW t \in Threads, Return(t) PROVE Types'
  BY <1>1, <1>7, <1>8, <1>14 DEF Return, input
<1>15. ASSUME NEW t \in Threads, PutchDone(t) PROVE Types'
  <2>1. io' \in [Threads -> Io]
    BY <1>15 DEF PutchDone, Io
  <2> QED BY <1>15, <2>1 DEF PutchDone, device, input
<1>16. ASSUME NEW t \in Threads, PutchP(t) PROVE Types'
  <2>1. io' \in [Threads -> Io]
    BY <1>16 DEF PutchP, Io
  <2> QED BY <1>16, <2>1 DEF PutchP, device, input
<1>17. ASSUME NEW t \in Threads, LserWrite(t) PROVE Types'
  <2> DEFINE todo == io[t].todo
  <2>1. todo \in Seq(Chars)
    BY <1>12 DEF Io
  <2>2. Head(todo) \in Chars /\ Tail(todo) \in Seq(Chars)
    <3>1. todo # <<>>
      BY <1>17 DEF LserWrite, At, LineInv, Line
    <3> QED BY <2>1, <3>1, HeadFirst
  <2>3. CASE ls_wbusy
    BY <1>17, <2>3 DEF LserWrite, input
  <2>4. CASE ~ls_wbusy
    <3>1. /\ tx' = [who |-> t, ch |-> Head(todo)] /\ ls_wbusy' = TRUE
          /\ io' = [io EXCEPT ![t] = [@ EXCEPT !.pc = "putch", !.todo = Tail(todo)]]
          /\ UNCHANGED <<fault, phase, wirq, out, cs_wsem, delayed, input>>
      BY <1>17, <2>4 DEF LserWrite
    <3> HIDE DEF todo
    <3>2. io' \in [Threads -> Io]
      BY <2>2, <3>1 DEF Io
    <3>3. tx' \in [who : Sender, ch : Chars]
      BY <2>2, <3>1 DEF Sender
    <3> QED BY <3>1, <3>2, <3>3 DEF input
  <2> QED BY <2>3, <2>4
<1>18. ASSUME NEW t \in Threads, GetchP(t) PROVE Types'
  <2>1. io' \in [Threads -> Io]
    BY <1>18 DEF GetchP, Io
  <2> QED BY <1>18, <2>1 DEF GetchP, device
<1>19. ASSUME NEW t \in Threads, GetchTake(t) PROVE Types'
  <2>1. io' \in [Threads -> Io]
    <3>1. CASE EndsLine(cs_gotchar) \/ io[t].resid = 1
      <4>1. io' = [io EXCEPT ![t] = NoIo]
        BY <1>19, <3>1 DEF GetchTake
      <4> QED BY <1>7, <4>1
    <3>2. CASE ~(EndsLine(cs_gotchar) \/ io[t].resid = 1)
      <4>1. io' = [io EXCEPT ![t] = [io[t] EXCEPT !.pc = "getch",
                                      !.resid = io[t].resid - 1]]
        BY <1>19, <3>2 DEF GetchTake
      <4>2. io[t].resid - 1 \in Int
        BY <1>12 DEF Io
      <4> QED BY <1>12, <4>1, <4>2 DEF Io
    <3> QED BY <3>1, <3>2
  <2>2. taken' \in Seq(Nat)
    BY <1>19, AppendProperties DEF GetchTake
  <2> QED BY <1>19, <2>1, <2>2 DEF GetchTake, device
<1>20. Delivered(tx) \in [Threads -> Seq(Chars)]
  <2>1. CASE tx.who \in Threads
    <3>1. tx.ch \in Chars
      BY <2>1, ThreadAssumption DEF Nothing
    <3>2. Append(out[tx.who], tx.ch) \in Seq(Chars)
      BY <2>1, <3>1, AppendProperties
    <3> QED BY <2>1, <3>2 DEF Delivered
  <2>2. CASE tx.who \notin Threads
    BY <2>2 DEF Delivered
  <2> QED BY <2>1, <2>2
<1>21. ASSUME LserWritepolled PROVE Types'
  BY <1>20, <1>21 DEF LserWritepolled, device, input
<1>22. ASSUME Sent PROVE Types'
  BY <1>20, <1>22 DEF Sent, input
<1>23. ASSUME Key PROVE Types'
  <2>1. PICK ch \in {"x", "cr"} : keys' = Append(keys, ch)
    BY <1>23 DEF Key
  <2>2. keys' \in Seq(Chars)
    BY <2>1, AppendProperties DEF Chars
  <2>3. Len(keys) \in Nat
    BY LenProperties
  <2> QED BY <1>23, <2>2, <2>3 DEF Key, device
<1>24. ASSUME LserIrq PROVE Types'
  <2>1. cs_gotchar' \in Nat /\ cs_rsem' \in Nat
    BY <1>24 DEF LserIrq, con_input
  <2>2. cs_wsem' \in Nat
    BY <1>24 DEF LserIrq
  <2>3. ls_wbusy' \in BOOLEAN
    <3>1. ls_wbusy' = IF wirq THEN FALSE ELSE ls_wbusy
      BY <1>24 DEF LserIrq
    <3> QED BY <3>1, Zenon
  <2>4. fault' \in BOOLEAN
    <3>1. fault' = (rirq /\ phase \in {"lser", "attached"})
      BY <1>24 DEF LserIrq
    <3> QED BY <3>1, Zenon
  <2> QED BY <1>24, <2>1, <2>2, <2>3, <2>4 DEF LserIrq
<1>25. ASSUME UNCHANGED vars PROVE Types'
  BY <1>25 DEF vars, device, input
<1> QED BY <1>2, <1>3, <1>4, <1>5, <1>6, <1>9, <1>10, <1>11, <1>13, <1>14,
           <1>15, <1>16, <1>17, <1>18, <1>19, <1>21, <1>22, <1>23, <1>24, <1>25
        DEF Next, Boot, Step

------------------------------------------------------------------------------
(* What a change of one thread's place does to the others and to the sets   *)
(* of those sending and fetching.                                           *)
LEMMA IoStep ==
    ASSUME Types, NEW t \in Threads, NEW r, io' = [io EXCEPT ![t] = r]
    PROVE  /\ io'[t] = r /\ \A u \in Threads \ {t} : io'[u] = io[u]
           /\ Sending' = IF r.pc = "send" THEN Sending \cup {t} ELSE Sending \ {t}
           /\ Fetching' = IF r.pc = "got" THEN Fetching \cup {t} ELSE Fetching \ {t}
<1>1. io'[t] = r /\ \A u \in Threads \ {t} : io'[u] = io[u]
  BY DEF Types
<1>2. Sending' = IF r.pc = "send" THEN Sending \cup {t} ELSE Sending \ {t}
  BY <1>1 DEF Sending
<1>3. Fetching' = IF r.pc = "got" THEN Fetching \cup {t} ELSE Fetching \ {t}
  BY <1>1 DEF Fetching
<1> QED BY <1>1, <1>2, <1>3

(* A thread that is in con_io is so because there is a console. *)
LEMMA BusyLive ==
    ASSUME TurnInv, NEW t \in Threads, io[t].pc # "idle"
    PROVE  Live
BY DEF TurnInv, NoIo

(* The turn to write. *)
LEMMA TurnInit == Init => TurnInv
<1> SUFFICES ASSUME Init PROVE TurnInv
  OBVIOUS
<1>1. \A t \in Threads : io[t] = NoIo
  BY DEF Init
<1> QED BY <1>1 DEF Init, TurnInv, Live

LEMMA TurnStep == Types /\ TurnInv /\ [Next]_vars => TurnInv'
<1> SUFFICES ASSUME Types, TurnInv, [Next]_vars PROVE TurnInv'
  OBVIOUS
<1> DEFINE Same == /\ cs_wsem' = cs_wsem /\ ls_wbusy' = ls_wbusy
                   /\ tx' = tx /\ wirq' = wirq
<1>1. ASSUME io' = io PROVE Sending' = Sending
  BY <1>1 DEF Sending
<1>2. ASSUME Same, phase' = phase, io' = io PROVE TurnInv'
  BY <1>1, <1>2 DEF TurnInv, Live
<1>3. ASSUME Same, phase' = phase, Live, Sending' = Sending PROVE TurnInv'
  BY <1>3 DEF TurnInv, Live
<1>4. ASSUME PutchDelayed PROVE TurnInv'
  BY <1>2, <1>4 DEF PutchDelayed, device
<1>5. ASSUME Attach PROVE TurnInv'
  BY <1>1, <1>5 DEF Attach, device, TurnInv, Live
<1>6. ASSUME ConfigSems PROVE TurnInv'
  <2>1. Sending' = {} /\ ~ls_wbusy /\ \A t \in Threads : io[t] = NoIo
    BY <1>1, <1>6 DEF ConfigSems, TurnInv, Live, Sending, NoIo
  <2> QED BY <1>6, <2>1 DEF ConfigSems, device, TurnInv, Live
<1>7. ASSUME ConfigGotchar PROVE TurnInv'
  BY <1>1, <1>7 DEF ConfigGotchar, device, TurnInv, Live
<1>8. ASSUME ConfigConsole PROVE TurnInv'
  <2> DEFINE r == [NoIo EXCEPT !.pc = "putch", !.req = delayed, !.todo = delayed]
  <2>1. io' = [io EXCEPT ![Main] = r] /\ r.pc = "putch"
    BY <1>8 DEF ConfigConsole, NoIo
  <2> HIDE DEF r
  <2>2. Sending' = Sending \ {Main}
    BY <2>1, IoStep, ThreadAssumption
  <2>3. Main \notin Sending
    BY <1>8, ThreadAssumption DEF ConfigConsole, TurnInv, Live, Sending, NoIo
  <2> QED BY <1>8, <2>2, <2>3 DEF ConfigConsole, device, TurnInv, Live
<1>9. ASSUME NEW t \in Threads, NEW r, io' = [io EXCEPT ![t] = r],
             io[t].pc # "send", r.pc # "send"
      PROVE  Sending' = Sending
  <2>1. Sending' = Sending \ {t} /\ t \notin Sending
    BY <1>9, IoStep DEF Sending
  <2> QED BY <2>1
<1>10. NoIo.pc = "idle" /\ \A t \in Threads : io[t] \in Io
  BY DEF NoIo, Types
<1>11. ASSUME NEW t \in Threads,
              tx' = IF tx.who = t THEN [tx EXCEPT !.who = "printed"] ELSE tx
       PROVE  tx' = Nothing <=> tx = Nothing
  <2>1. CASE tx.who = t
    <3>1. tx # Nothing /\ tx \in [who : Sender, ch : Chars]
      BY <2>1, ThreadAssumption DEF Nothing, Types
    <3>2. tx'.who = "printed"
      BY <1>11, <2>1, <3>1
    <3>3. Nothing.who = "none"
      BY DEF Nothing
    <3> QED BY <3>1, <3>2, <3>3
  <2>2. CASE tx.who # t
    BY <1>11, <2>2
  <2> QED BY <2>1, <2>2
<1>12. ASSUME FlushDone PROVE TurnInv'
  <2>1. Sending' = Sending
    BY <1>9, <1>10, <1>12, ThreadAssumption DEF FlushDone, At
  <2>2. tx' = Nothing <=> tx = Nothing
    BY <1>11, <1>12, ThreadAssumption DEF FlushDone
  <2> QED BY <1>12, <2>1, <2>2 DEF FlushDone, TurnInv, Live
<1>13. ASSUME NEW t \in Threads, Write(t) PROVE TurnInv'
  <2>1. PICK l \in Lines : io' = [io EXCEPT ![t] = [NoIo EXCEPT !.pc = "loop",
                                                    !.req = l, !.line = l]]
    BY <1>13 DEF Write
  <2>2. [NoIo EXCEPT !.pc = "loop", !.req = l, !.line = l].pc = "loop"
    BY DEF NoIo
  <2>3. Sending' = Sending
    BY <1>9, <1>13, <2>1, <2>2 DEF Write, At
  <2> QED BY <1>3, <1>13, <2>3 DEF Write, device, Live
<1>14. ASSUME NEW t \in Threads, Read(t) PROVE TurnInv'
  <2>1. PICK n \in ReadLens : io' = [io EXCEPT ![t] = [NoIo EXCEPT !.pc = "getch",
                                                       !.resid = n]]
    BY <1>14 DEF Read
  <2>2. [NoIo EXCEPT !.pc = "getch", !.resid = n].pc = "getch"
    BY DEF NoIo
  <2>3. Sending' = Sending
    BY <1>9, <1>14, <2>1, <2>2 DEF Read, At
  <2> QED BY <1>3, <1>14, <2>3 DEF Read, device, Live
<1>15. ASSUME NEW t \in Threads, NextChar(t) PROVE TurnInv'
  <2> DEFINE r == [io[t] EXCEPT !.pc = "putch", !.line = Tail(@),
                                !.todo = Expand(Head(io[t].line))]
  <2>1. io' = [io EXCEPT ![t] = r] /\ r.pc = "putch"
    BY <1>10, <1>15 DEF NextChar, Io
  <2> HIDE DEF r
  <2>2. Sending' = Sending /\ Live
    BY <1>9, <1>15, <2>1, BusyLive DEF NextChar, At
  <2> QED BY <1>3, <1>15, <2>2 DEF NextChar, device
<1>16. ASSUME NEW t \in Threads, Return(t) PROVE TurnInv'
  <2>1. Sending' = Sending
    BY <1>9, <1>10, <1>16 DEF Return, At
  <2>2. tx' = Nothing <=> tx = Nothing
    BY <1>11, <1>16 DEF Return
  <2> QED BY <1>16, <2>1, <2>2 DEF Return, TurnInv, Live
<1>17. ASSUME NEW t \in Threads, PutchDone(t) PROVE TurnInv'
  <2> DEFINE r == [io[t] EXCEPT !.pc = "loop"]
  <2>1. io' = [io EXCEPT ![t] = r] /\ r.pc = "loop"
    BY <1>10, <1>17 DEF PutchDone, Io
  <2> HIDE DEF r
  <2>2. Sending' = Sending /\ Live
    BY <1>9, <1>17, <2>1, BusyLive DEF PutchDone, At
  <2> QED BY <1>3, <1>17, <2>2 DEF PutchDone, device
<1>18. ASSUME NEW t \in Threads, PutchP(t) PROVE TurnInv'
  <2> DEFINE r == [io[t] EXCEPT !.pc = "send"]
  <2>1. io' = [io EXCEPT ![t] = r] /\ r.pc = "send"
    BY <1>10, <1>18 DEF PutchP, Io
  <2> HIDE DEF r
  <2>2. Sending' = Sending \cup {t} /\ Live
    BY <1>18, <2>1, IoStep, BusyLive DEF PutchP, At
  <2>3. cs_wsem = 1 /\ Sending = {} /\ ~ls_wbusy
    BY <1>18, <2>2 DEF PutchP, TurnInv, Live
  <2>4. cs_wsem' = 0 /\ Sending' = {t}
    BY <1>18, <2>2, <2>3 DEF PutchP
  <2> QED BY <1>18, <2>2, <2>3, <2>4 DEF PutchP, device, TurnInv, Live
<1>19. ASSUME NEW t \in Threads, LserWrite(t) PROVE TurnInv'
  <2>1. t \in Sending /\ Live
    BY <1>19, BusyLive DEF LserWrite, At, Sending
  <2>2. cs_wsem = 0 /\ Sending = {t} /\ ~ls_wbusy
    BY <2>1 DEF TurnInv, Live
  <2> DEFINE r == [io[t] EXCEPT !.pc = "putch", !.todo = Tail(@)]
  <2>3. /\ io' = [io EXCEPT ![t] = r] /\ r.pc = "putch"
        /\ tx' = [who |-> t, ch |-> Head(io[t].todo)] /\ ls_wbusy' = TRUE
        /\ UNCHANGED <<phase, wirq, cs_wsem>>
    BY <1>10, <1>19, <2>2 DEF LserWrite, Io
  <2> HIDE DEF r
  <2>4. Sending' = {}
    BY <2>2, <2>3, IoStep
  <2>5. tx'.who = t
    BY <2>3
  <2>6. tx' # Nothing
    BY <2>5, ThreadAssumption DEF Nothing
  <2> QED BY <2>1, <2>2, <2>3, <2>4, <2>6 DEF TurnInv, Live
<1>20. ASSUME NEW t \in Threads, GetchP(t) PROVE TurnInv'
  <2> DEFINE r == [io[t] EXCEPT !.pc = "got"]
  <2>1. io' = [io EXCEPT ![t] = r] /\ r.pc = "got"
    BY <1>10, <1>20 DEF GetchP, Io
  <2> HIDE DEF r
  <2>2. Sending' = Sending /\ Live
    BY <1>9, <1>20, <2>1, BusyLive DEF GetchP, At
  <2> QED BY <1>3, <1>20, <2>2 DEF GetchP, device
<1>21. ASSUME NEW t \in Threads, GetchTake(t) PROVE TurnInv'
  <2> DEFINE r == IF EndsLine(cs_gotchar) \/ io[t].resid = 1
                  THEN NoIo
                  ELSE [io[t] EXCEPT !.pc = "getch", !.resid = io[t].resid - 1]
  <2>1. io' = [io EXCEPT ![t] = r]
    BY <1>21 DEF GetchTake
  <2>2. r.pc # "send"
    BY <1>10 DEF Io
  <2> HIDE DEF r
  <2>3. Sending' = Sending /\ Live
    BY <1>9, <1>21, <2>1, <2>2, BusyLive DEF GetchTake, At
  <2> QED BY <1>3, <1>21, <2>3 DEF GetchTake, device
<1>22. ASSUME LserWritepolled PROVE TurnInv'
  <2>1. tx' = Nothing /\ wirq' = ls_wbusy /\ ls_wbusy' = ls_wbusy
    BY <1>22 DEF LserWritepolled, TurnInv, device
  <2>2. Live /\ phase' = phase /\ cs_wsem' = cs_wsem /\ Sending' = Sending
    BY <1>1, <1>22 DEF LserWritepolled
  <2> QED BY <2>1, <2>2 DEF TurnInv, Live
<1>23. ASSUME Sent PROVE TurnInv'
  BY <1>1, <1>23 DEF Sent, TurnInv, Live
<1>24. ASSUME Key PROVE TurnInv'
  BY <1>2, <1>24 DEF Key, device
<1>25. ASSUME LserIrq PROVE TurnInv'
  <2>1. CASE wirq
    <3>1. /\ wirq' = FALSE /\ ls_wbusy' = FALSE /\ cs_wsem' = cs_wsem + 1
          /\ UNCHANGED <<phase, tx, io>> /\ Sending' = Sending
      BY <1>1, <1>25, <2>1 DEF LserIrq
    <3>2. Live /\ ls_wbusy /\ tx = Nothing
      BY <2>1 DEF TurnInv
    <3> QED BY <3>1, <3>2 DEF TurnInv, Live
  <2>2. CASE ~wirq
    BY <1>2, <1>25, <2>2 DEF LserIrq, Types
  <2> QED BY <2>1, <2>2
<1>26. ASSUME UNCHANGED vars PROVE TurnInv'
  BY <1>2, <1>26 DEF vars
<1> QED BY <1>4, <1>5, <1>6, <1>7, <1>8, <1>12, <1>13, <1>14, <1>15, <1>16,
           <1>17, <1>18, <1>19, <1>20, <1>21, <1>22, <1>23, <1>24, <1>25, <1>26
        DEF Next, Boot, Step

------------------------------------------------------------------------------
(* What is printed. *)
LEMMA LineInit == Init => LineInv
<1> SUFFICES ASSUME Init, NEW t \in Threads PROVE Line(t)
  BY DEF LineInv
<1>1. io[t] = NoIo /\ out[t] = <<>> /\ tx = Nothing
  BY DEF Init
<1>2. NoIo.pc = "idle" /\ Nothing.who = "none"
  BY DEF NoIo, Nothing
<1> QED BY <1>1, <1>2, ThreadAssumption DEF Line, Printing

(* A thread whose call and output are as they were. *)
LEMMA LineKept ==
    ASSUME NEW u \in Threads, Line(u), io'[u] = io[u], out'[u] = out[u],
           InDevice(u)' = InDevice(u), tx'.who = u => tx.who = u
    PROVE  Line(u)'
<1>1. Printing(u)' = Printing(u)
  BY DEF Printing
<1> QED BY <1>1 DEF Line

LEMMA LineAllKept ==
    ASSUME LineInv, io' = io, out' = out, tx' = tx
    PROVE  LineInv'
BY LineKept DEF LineInv, InDevice

(* The parts of a line are lists of characters. *)
LEMMA LineTypes ==
    ASSUME Types, NEW t \in Threads
    PROVE  /\ out[t] \in Seq(Chars) /\ io[t].todo \in Seq(Chars)
           /\ io[t].line \in Seq({"x", "nl"}) /\ io[t].line \in Seq(Chars)
           /\ Printed(io[t].line) \in Seq(Chars) /\ io[t] \in Io
           /\ tx.who = t => tx.ch \in Chars
           /\ InDevice(t) \in Seq(Chars)
<1>1. out[t] \in Seq(Chars) /\ io[t] \in Io
  BY DEF Types
<1>2. io[t].todo \in Seq(Chars) /\ io[t].line \in Seq({"x", "nl"})
  BY <1>1 DEF Io
<1>3. io[t].line \in Seq(Chars)
  <2>1. {"x", "nl"} \subseteq Chars
    BY DEF Chars
  <2> QED BY <1>2, <2>1, SeqSubset
<1>4. Printed(io[t].line) \in Seq(Chars)
  BY <1>3, PrintedIs
<1>5. tx.who = t => tx.ch \in Chars
  BY ThreadAssumption DEF Types, Nothing
<1>6. InDevice(t) \in Seq(Chars)
  BY <1>5, EmptySeq DEF InDevice
<1> QED BY <1>1, <1>2, <1>3, <1>4, <1>5, <1>6

(* What one thread does in con_io leaves the lines of the others alone. *)
LEMMA LineOthers ==
    ASSUME Types, LineInv, NEW t \in Threads, NEW r, io' = [io EXCEPT ![t] = r],
           out' = out, tx' = tx, Line(t)'
    PROVE  LineInv'
<1>1. io'[t] = r /\ \A u \in Threads \ {t} : io'[u] = io[u]
  BY IoStep
<1>2. ASSUME NEW u \in Threads \ {t} PROVE Line(u)'
  BY <1>1, LineKept DEF LineInv, InDevice
<1> QED BY <1>2 DEF LineInv

(* A call of con_io that ends. *)
LEMMA LineEnds ==
    ASSUME Types, LineInv, NEW t \in Threads, io' = [io EXCEPT ![t] = NoIo],
           out' = [out EXCEPT ![t] = <<>>],
           tx' = IF tx.who = t THEN [tx EXCEPT !.who = "printed"] ELSE tx
    PROVE  LineInv'
<1>1. /\ io'[t] = NoIo /\ out'[t] = <<>>
      /\ \A u \in Threads \ {t} : io'[u] = io[u] /\ out'[u] = out[u]
  BY DEF Types
<1>2. tx.who = t => tx'.who = "printed"
  <2> SUFFICES ASSUME tx.who = t PROVE tx'.who = "printed"
    OBVIOUS
  <2>1. tx \in [who : Sender, ch : Chars]
    BY ThreadAssumption DEF Types, Nothing
  <2> QED BY <2>1
<1>3. Line(t)'
  <2>1. tx'.who # t
    BY <1>2, ThreadAssumption
  <2> QED BY <1>1, <2>1 DEF Line, Printing, NoIo
<1>4. ASSUME NEW u \in Threads \ {t} PROVE Line(u)'
  <2>1. tx'.who = u <=> tx.who = u
    BY <1>2, ThreadAssumption
  <2>2. tx.who = u => tx' = tx
    OBVIOUS
  <2>3. InDevice(u)' = InDevice(u)
    BY <2>1, <2>2 DEF InDevice
  <2> QED BY <1>1, <2>1, <2>3, LineKept DEF LineInv
<1> QED BY <1>3, <1>4 DEF LineInv

(* The device is done with its character, and the sender knows. *)
LEMMA LineDelivered ==
    ASSUME Types, LineInv, io' = io, out' = Delivered(tx), tx' = Nothing
    PROVE  LineInv'
<1> SUFFICES ASSUME NEW t \in Threads PROVE Line(t)'
  BY DEF LineInv
<1>1. tx'.who # t /\ InDevice(t)' = <<>>
  BY ThreadAssumption DEF Nothing, InDevice
<1>2. CASE tx.who = t
  <2>1. Printing(t) /\ Printing(t)'
    BY <1>2 DEF LineInv, Line, Printing
  <2>2. out'[t] = Append(out[t], tx.ch) /\ InDevice(t) = <<tx.ch>>
    BY <1>2 DEF Delivered, InDevice, Types
  <2>3. Whole(out[t], InDevice(t), io[t].todo, Printed(io[t].line))
        = Whole(out'[t], <<>>, io[t].todo, Printed(io[t].line))
    BY <1>2, <2>2, LineTypes, WholeSent
  <2> QED BY <1>1, <2>1, <2>3 DEF LineInv, Line
<1>3. CASE tx.who # t
  <2>1. out'[t] = out[t]
    BY <1>3 DEF Delivered, Types
  <2>2. InDevice(t) = <<>>
    BY <1>3 DEF InDevice
  <2> QED BY <1>1, <2>1, <2>2, LineKept DEF LineInv
<1> QED BY <1>2, <1>3

LEMMA LineStep == Types /\ TurnInv /\ LineInv /\ [Next]_vars => LineInv'
<1> SUFFICES ASSUME Types, TurnInv, LineInv, [Next]_vars PROVE LineInv'
  OBVIOUS
<1>1. ASSUME PutchDelayed PROVE LineInv'
  BY <1>1, LineAllKept DEF PutchDelayed, device
<1>2. ASSUME Attach PROVE LineInv'
  BY <1>2, LineAllKept DEF Attach, device
<1>3. ASSUME ConfigSems PROVE LineInv'
  BY <1>3, LineAllKept DEF ConfigSems, device
<1>4. ASSUME ConfigGotchar PROVE LineInv'
  BY <1>4, LineAllKept DEF ConfigGotchar, device
<1>5. NoIo.pc = "idle" /\ NoIo.line = <<>> /\ NoIo.todo = <<>> /\ NoIo \in Io
  <2>1. \A S : <<>> \in Seq(S)
    BY EmptySeq
  <2> QED BY <2>1 DEF NoIo, Io
<1>6. \A t \in Threads : io[t].pc = "idle" =>
                            out[t] = <<>> /\ InDevice(t) = <<>> /\ tx.who # t
  BY DEF LineInv, Line, Printing, InDevice
<1>7. Printed(<<>>) = <<>>
  <2>1. <<>> \in Seq(Chars)
    BY EmptySeq
  <2> QED BY <2>1, PrintedIs
<1>8. ASSUME ConfigConsole PROVE LineInv'
  <2> DEFINE r == [NoIo EXCEPT !.pc = "putch", !.req = delayed, !.todo = delayed]
  <2>1. /\ io' = [io EXCEPT ![Main] = r] /\ out' = out /\ tx' = tx
    BY <1>8 DEF ConfigConsole, device
  <2>2. r.pc = "putch" /\ r.req = delayed /\ r.todo = delayed /\ r.line = <<>>
    BY <1>5 DEF Io
  <2> HIDE DEF r
  <2>3. io'[Main] = r
    BY <2>1, IoStep, ThreadAssumption
  <2>4. out[Main] = <<>> /\ InDevice(Main) = <<>> /\ tx.who # Main
    BY <1>5, <1>6, <1>8, ThreadAssumption DEF ConfigConsole, TurnInv, Live
  <2>5. delayed \in Seq(Chars) /\ Printed(delayed) = delayed
    BY PrintedPlain DEF Types
  <2>6. Whole(<<>>, <<>>, delayed, <<>>) = delayed
    BY <2>5, WholeOne
  <2>7. InDevice(Main)' = InDevice(Main)
    BY <2>1 DEF InDevice
  <2>8. Line(Main)'
    BY <1>7, <2>1, <2>2, <2>3, <2>4, <2>5, <2>6, <2>7 DEF Line, Printing
  <2> QED BY <2>1, <2>8, LineOthers, ThreadAssumption
<1>9. ASSUME FlushDone PROVE LineInv'
  BY <1>9, LineEnds, ThreadAssumption DEF FlushDone
<1>10. ASSUME NEW t \in Threads, Write(t) PROVE LineInv'
  <2>1. PICK l \in Lines : io' = [io EXCEPT ![t] = [NoIo EXCEPT !.pc = "loop",
                                                    !.req = l, !.line = l]]
    BY <1>10 DEF Write
  <2> DEFINE r == [NoIo EXCEPT !.pc = "loop", !.req = l, !.line = l]
  <2>2. r.pc = "loop" /\ r.req = l /\ r.todo = <<>> /\ r.line = l
    BY <1>5 DEF Io
  <2>3. io' = [io EXCEPT ![t] = r]
    BY <2>1
  <2> HIDE DEF r
  <2>4. io'[t] = r /\ out' = out /\ tx' = tx
    BY <1>10, <2>3, IoStep DEF Write, device
  <2>5. out[t] = <<>> /\ InDevice(t) = <<>>
    BY <1>6, <1>10 DEF Write, At
  <2>6. Whole(<<>>, <<>>, <<>>, Printed(l)) = Printed(l)
    <3>1. l \in Seq({"x", "nl"})
      BY RequestAssumption
    <3>2. {"x", "nl"} \subseteq Chars
      BY DEF Chars
    <3>3. l \in Seq(Chars)
      BY <3>1, <3>2, SeqSubset
    <3>4. Printed(l) \in Seq(Chars)
      BY <3>3, PrintedIs
    <3> QED BY <3>4, WholeOne
  <2>7. InDevice(t)' = InDevice(t)
    BY <2>4 DEF InDevice
  <2>8. Line(t)'
    BY <2>2, <2>4, <2>5, <2>6, <2>7 DEF Line, Printing
  <2> QED BY <2>3, <2>4, <2>8, LineOthers
(* A thread that was not printing, and is not afterwards. *)
<1>11. ASSUME NEW t \in Threads, NEW r, io' = [io EXCEPT ![t] = r],
              out' = out, tx' = tx, r.pc \in {"idle", "getch", "got"},
              ~Printing(t)
       PROVE  LineInv'
  <2>1. io'[t] = r
    BY <1>11, IoStep
  <2>2. Line(t)'
    BY <1>11, <2>1 DEF LineInv, Line, Printing
  <2> QED BY <1>11, <2>2, LineOthers
<1>12. ASSUME NEW t \in Threads, Read(t) PROVE LineInv'
  <2>1. PICK n \in ReadLens : io' = [io EXCEPT ![t] = [NoIo EXCEPT !.pc = "getch",
                                                       !.resid = n]]
    BY <1>12 DEF Read
  <2> DEFINE r == [NoIo EXCEPT !.pc = "getch", !.resid = n]
  <2>2. r.pc = "getch" /\ io' = [io EXCEPT ![t] = r]
    BY <1>5, <2>1 DEF Io
  <2> HIDE DEF r
  <2> QED BY <1>11, <1>12, <2>2 DEF Read, At, device, Printing
<1>13. ASSUME NEW t \in Threads, NextChar(t) PROVE LineInv'
  <2> DEFINE line == io[t].line
             ex == Expand(Head(line))
             r == [io[t] EXCEPT !.pc = "putch", !.line = Tail(line), !.todo = ex]
  <2>1. io' = [io EXCEPT ![t] = r] /\ out' = out /\ tx' = tx
    BY <1>13 DEF NextChar, device
  <2>2. /\ r.pc = "putch" /\ r.line = Tail(line) /\ r.todo = ex
        /\ r.req = io[t].req
    BY LineTypes DEF Io
  <2>3. line \in Seq(Chars) /\ line # <<>> /\ io[t].pc = "loop"
    BY <1>13, LineTypes DEF NextChar, At
  <2> HIDE DEF r
  <2>4. io'[t] = r
    BY <2>1, IoStep
  <2>5. /\ Printed(Tail(line)) \in Seq(Chars) /\ Head(line) \in Chars
        /\ Printed(line) = ex \o Printed(Tail(line))
    BY <2>3, PrintedIs, HeadFirst
  <2>6. ex \in Seq(Chars)
    BY <2>5, ExpandChars
  <2>7. io[t].todo = <<>> /\ Whole(out[t], InDevice(t), <<>>, Printed(line))
                                = Printed(io[t].req)
    BY <2>3 DEF LineInv, Line, Printing
  <2> HIDE DEF line, ex
  <2>8. Whole(out[t], InDevice(t), ex, Printed(Tail(line)))
        = Printed(io[t].req)
    BY <2>5, <2>6, <2>7, LineTypes, WholeNext
  <2>9. InDevice(t)' = InDevice(t)
    BY <2>1 DEF InDevice
  <2>10. Line(t)'
    BY <2>1, <2>2, <2>4, <2>8, <2>9 DEF Line, Printing
  <2> QED BY <2>1, <2>10, LineOthers
<1>14. ASSUME NEW t \in Threads, Return(t) PROVE LineInv'
  BY <1>14, LineEnds DEF Return
(* A thread whose place in putch changes, and no part of its line. *)
<1>15. ASSUME NEW t \in Threads, NEW pc \in {"loop", "putch", "send"},
              io' = [io EXCEPT ![t].pc = pc], out' = out, tx' = tx, Printing(t),
              pc = "loop" => io[t].todo = <<>>, pc = "send" => io[t].todo # <<>>
       PROVE  LineInv'
  <2> DEFINE r == [io[t] EXCEPT !.pc = pc]
  <2>1. io' = [io EXCEPT ![t] = r]
    BY <1>15
  <2>2. /\ r.pc = pc /\ r.line = io[t].line /\ r.todo = io[t].todo
        /\ r.req = io[t].req
    BY LineTypes DEF Io
  <2> HIDE DEF r
  <2>3. io'[t] = r
    BY <2>1, IoStep
  <2>4. InDevice(t)' = InDevice(t)
    BY <1>15 DEF InDevice
  <2>5. Line(t)'
    BY <1>15, <2>2, <2>3, <2>4 DEF LineInv, Line, Printing
  <2> QED BY <1>15, <2>1, <2>5, LineOthers
<1>16. ASSUME NEW t \in Threads, PutchDone(t) PROVE LineInv'
  BY <1>15, <1>16 DEF PutchDone, At, device, Printing
<1>17. ASSUME NEW t \in Threads, PutchP(t) PROVE LineInv'
  BY <1>15, <1>17 DEF PutchP, At, device, Printing
<1>18. ASSUME NEW t \in Threads, LserWrite(t) PROVE LineInv'
  <2> DEFINE todo == io[t].todo
             r == [io[t] EXCEPT !.pc = "putch", !.todo = Tail(todo)]
  <2>1. t \in Sending /\ Live /\ io[t].pc = "send"
    BY <1>18, BusyLive DEF LserWrite, At, Sending
  <2>2. ~ls_wbusy /\ tx = Nothing
    BY <2>1 DEF TurnInv, Live
  <2>3. /\ io' = [io EXCEPT ![t] = r] /\ out' = out
        /\ tx' = [who |-> t, ch |-> Head(todo)]
    BY <1>18, <2>2 DEF LserWrite
  <2>4. /\ r.pc = "putch" /\ r.line = io[t].line /\ r.todo = Tail(todo)
        /\ r.req = io[t].req
    BY LineTypes DEF Io
  <2> HIDE DEF r
  <2>5. io'[t] = r /\ \A u \in Threads \ {t} : io'[u] = io[u]
    BY <2>3, IoStep
  <2>6. \A u \in Threads : tx.who # u /\ InDevice(u) = <<>>
    BY <2>2, ThreadAssumption DEF Nothing, InDevice
  <2>7. tx'.who = t /\ InDevice(t)' = <<Head(todo)>>
    BY <2>3 DEF InDevice
  <2>8. Line(t)'
    <3>1. Whole(out[t], <<>>, todo, Printed(io[t].line)) = Printed(io[t].req)
      BY <2>1, <2>6 DEF LineInv, Line, Printing
    <3>2. todo # <<>> /\ todo \in Seq(Chars)
      BY <2>1, LineTypes DEF LineInv, Line
    <3> HIDE DEF todo
    <3>3. Whole(out[t], <<Head(todo)>>, Tail(todo), Printed(io[t].line))
          = Printed(io[t].req)
      BY <3>1, <3>2, LineTypes, WholeGiven
    <3> QED BY <2>3, <2>4, <2>5, <2>7, <3>3 DEF Line, Printing
  <2>9. ASSUME NEW u \in Threads \ {t} PROVE Line(u)'
    <3>1. tx'.who # u /\ InDevice(u)' = <<>>
      BY <2>7 DEF InDevice
    <3> QED BY <2>3, <2>5, <2>6, <3>1, LineKept DEF LineInv
  <2> QED BY <2>8, <2>9 DEF LineInv
<1>19. ASSUME NEW t \in Threads, GetchP(t) PROVE LineInv'
  <2> DEFINE r == [io[t] EXCEPT !.pc = "got"]
  <2>1. io' = [io EXCEPT ![t] = r] /\ r.pc = "got"
    BY <1>19, LineTypes DEF GetchP, Io
  <2> HIDE DEF r
  <2> QED BY <1>11, <1>19, <2>1 DEF GetchP, At, device, Printing
<1>20. ASSUME NEW t \in Threads, GetchTake(t) PROVE LineInv'
  <2> DEFINE r == IF EndsLine(cs_gotchar) \/ io[t].resid = 1
                  THEN NoIo
                  ELSE [io[t] EXCEPT !.pc = "getch", !.resid = io[t].resid - 1]
  <2>1. io' = [io EXCEPT ![t] = r]
    BY <1>20 DEF GetchTake
  <2>2. r.pc \in {"idle", "getch", "got"}
    BY <1>5, LineTypes DEF Io
  <2> HIDE DEF r
  <2> QED BY <1>11, <1>20, <2>1, <2>2 DEF GetchTake, At, device, Printing
<1>21. ASSUME LserWritepolled PROVE LineInv'
  <2>1. CASE ls_wbusy
    BY <1>21, <2>1, LineDelivered DEF LserWritepolled, TurnInv, device
  <2>2. CASE ~ls_wbusy
    BY <1>21, <2>2, LineAllKept DEF LserWritepolled, TurnInv, device
  <2> QED BY <2>1, <2>2
<1>22. ASSUME Sent PROVE LineInv'
  BY <1>22, LineDelivered DEF Sent
<1>23. ASSUME Key PROVE LineInv'
  BY <1>23, LineAllKept DEF Key, device
<1>24. ASSUME LserIrq PROVE LineInv'
  BY <1>24, LineAllKept DEF LserIrq
<1>25. ASSUME UNCHANGED vars PROVE LineInv'
  BY <1>25, LineAllKept DEF vars
<1> QED BY <1>1, <1>2, <1>3, <1>4, <1>8, <1>9, <1>10, <1>12, <1>13, <1>14,
           <1>16, <1>17, <1>18, <1>19, <1>20, <1>21, <1>22, <1>23, <1>24, <1>25
        DEF Next, Boot, Step

------------------------------------------------------------------------------
(* What is read. *)
LEMMA KeyInit == Init => KeyInv
<1> SUFFICES ASSUME Init PROVE KeyInv
  OBVIOUS
<1>1. Fetching = {}
  BY DEF Init, Fetching, NoIo
<1>2. IsFiniteSet(Fetching) /\ Cardinality(Fetching) = 0
  BY <1>1, FS_EmptySet
<1>3. Len(keys) = 0 /\ Len(taken) = 0 /\ keys = <<>> /\ taken = <<>>
  BY EmptySeq DEF Init
<1>4. /\ rx = 0 /\ cs_gotchar = 0 /\ cs_rsem = 0 /\ rirq = FALSE
      /\ hurried = FALSE /\ fault = FALSE
  BY DEF Init
<1>5. Accounted = 0
  BY <1>2, <1>3, <1>4 DEF Accounted
<1> QED BY <1>1, <1>2, <1>3, <1>4, <1>5 DEF KeyInv

LEMMA KeyKept ==
    ASSUME KeyInv, UNCHANGED input, Fetching' = Fetching,
           phase' # "up" => phase # "up",
           phase' \in {"lser", "attached"} => phase \in {"lser", "attached"},
           Live => Live', fault => fault'
    PROVE  KeyInv'
<1>1. Accounted' = Accounted
  BY DEF Accounted, input
<1> QED BY <1>1 DEF KeyInv, input, Ok

(* The numbers the count is made of. *)
LEMMA KeyTypes ==
    ASSUME Types, KeyInv
    PROVE  /\ Cardinality(Fetching) \in Nat /\ Len(taken) \in Nat
           /\ Len(keys) \in Nat /\ cs_rsem \in Nat /\ cs_gotchar \in Nat
           /\ rirq \in BOOLEAN /\ Accounted \in Nat
<1>1. Cardinality(Fetching) \in Nat
  BY FS_CardinalityType DEF KeyInv
<1>2. Len(taken) \in Nat /\ Len(keys) \in Nat
  BY LenProperties DEF Types
<1> QED BY <1>1, <1>2 DEF Types, Accounted

(* A thread that neither was fetching a character nor is afterwards. *)
LEMMA NotFetching ==
    ASSUME Types, NEW t \in Threads, NEW r, io' = [io EXCEPT ![t] = r],
           io[t].pc # "got", r.pc # "got"
    PROVE  Fetching' = Fetching
<1>1. Fetching' = Fetching \ {t} /\ t \notin Fetching
  BY IoStep DEF Fetching
<1> QED BY <1>1

LEMMA KeyStep == Types /\ TurnInv /\ KeyInv /\ BootInv /\ [Next]_vars => KeyInv'
<1> SUFFICES ASSUME Types, TurnInv, KeyInv, BootInv, [Next]_vars PROVE KeyInv'
  OBVIOUS
<1>1. io' = io => Fetching' = Fetching
  BY DEF Fetching
<1>2. NoIo.pc = "idle" /\ \A t \in Threads : io[t] \in Io
  BY DEF NoIo, Types
<1>3. ASSUME PutchDelayed PROVE KeyInv'
  BY <1>1, <1>3, KeyKept DEF PutchDelayed, Live
<1>4. ASSUME Attach PROVE KeyInv'
  BY <1>1, <1>4, KeyKept DEF Attach, Live
<1>5. ASSUME ConfigSems PROVE KeyInv'
  <2>1. cs_rsem' = cs_rsem /\ UNCHANGED input
    BY <1>5 DEF ConfigSems, KeyInv, input
  <2> QED BY <1>1, <1>5, <2>1, KeyKept DEF ConfigSems, Live
<1>6. ASSUME ConfigGotchar PROVE KeyInv'
  <2>1. taken = <<>> /\ Len(taken) = 0 /\ Fetching = {}
    BY <1>6, EmptySeq DEF ConfigGotchar, KeyInv
  <2>2. /\ UNCHANGED <<rx, rirq, cs_rsem, keys, taken, hurried, fault>>
        /\ Fetching' = Fetching /\ cs_gotchar' = 0 /\ ~Live /\ ~Live'
        /\ phase' = "gotchar"
    BY <1>1, <1>6 DEF ConfigGotchar, Live
  <2>3. Accounted' = Accounted
    BY <2>2 DEF Accounted
  <2>4. ~hurried => Len(keys) = 0
    BY <2>2, EmptySeq DEF KeyInv
  <2> QED BY <2>1, <2>2, <2>3, <2>4, KeyTypes DEF KeyInv, Ok
<1>7. ASSUME ConfigConsole PROVE KeyInv'
  <2> DEFINE r == [NoIo EXCEPT !.pc = "putch", !.req = delayed, !.todo = delayed]
  <2>1. io' = [io EXCEPT ![Main] = r] /\ r.pc = "putch"
    BY <1>7 DEF ConfigConsole, NoIo
  <2> HIDE DEF r
  <2>2. io[Main].pc = "idle"
    BY <1>2, <1>7, ThreadAssumption DEF ConfigConsole, TurnInv, Live
  <2>3. Fetching' = Fetching
    BY <2>1, <2>2, NotFetching, ThreadAssumption
  <2> QED BY <1>7, <2>3, KeyKept DEF ConfigConsole, Live
<1>8. ASSUME FlushDone PROVE KeyInv'
  <2>1. Fetching' = Fetching
    BY <1>2, <1>8, NotFetching, ThreadAssumption DEF FlushDone, At
  <2> QED BY <1>8, <2>1, KeyKept DEF FlushDone, Live
<1>9. ASSUME NEW t \in Threads, Write(t) PROVE KeyInv'
  <2>1. PICK l \in Lines : io' = [io EXCEPT ![t] = [NoIo EXCEPT !.pc = "loop",
                                                    !.req = l, !.line = l]]
    BY <1>9 DEF Write
  <2>2. [NoIo EXCEPT !.pc = "loop", !.req = l, !.line = l].pc = "loop"
    BY DEF NoIo
  <2>3. Fetching' = Fetching
    BY <1>9, <2>1, <2>2, NotFetching DEF Write, At
  <2> QED BY <1>9, <2>3, KeyKept DEF Write, Live
<1>10. ASSUME NEW t \in Threads, Read(t) PROVE KeyInv'
  <2>1. PICK n \in ReadLens : io' = [io EXCEPT ![t] = [NoIo EXCEPT !.pc = "getch",
                                                       !.resid = n]]
    BY <1>10 DEF Read
  <2>2. [NoIo EXCEPT !.pc = "getch", !.resid = n].pc = "getch"
    BY DEF NoIo
  <2>3. Fetching' = Fetching
    BY <1>10, <2>1, <2>2, NotFetching DEF Read, At
  <2> QED BY <1>10, <2>3, KeyKept DEF Read, Live
<1>11. ASSUME NEW t \in Threads, NextChar(t) PROVE KeyInv'
  <2> DEFINE r == [io[t] EXCEPT !.pc = "putch", !.line = Tail(@),
                                !.todo = Expand(Head(io[t].line))]
  <2>1. io' = [io EXCEPT ![t] = r] /\ r.pc = "putch"
    BY <1>2, <1>11 DEF NextChar, Io
  <2> HIDE DEF r
  <2>2. Fetching' = Fetching
    BY <1>11, <2>1, NotFetching DEF NextChar, At
  <2> QED BY <1>11, <2>2, KeyKept DEF NextChar, Live
<1>12. ASSUME NEW t \in Threads, Return(t) PROVE KeyInv'
  <2>1. Fetching' = Fetching
    BY <1>2, <1>12, NotFetching DEF Return, At
  <2> QED BY <1>12, <2>1, KeyKept DEF Return, Live
<1>13. ASSUME NEW t \in Threads, PutchDone(t) PROVE KeyInv'
  <2> DEFINE r == [io[t] EXCEPT !.pc = "loop"]
  <2>1. io' = [io EXCEPT ![t] = r] /\ r.pc = "loop"
    BY <1>2, <1>13 DEF PutchDone, Io
  <2> HIDE DEF r
  <2>2. Fetching' = Fetching
    BY <1>13, <2>1, NotFetching DEF PutchDone, At
  <2> QED BY <1>13, <2>2, KeyKept DEF PutchDone, Live
<1>14. ASSUME NEW t \in Threads, PutchP(t) PROVE KeyInv'
  <2> DEFINE r == [io[t] EXCEPT !.pc = "send"]
  <2>1. io' = [io EXCEPT ![t] = r] /\ r.pc = "send"
    BY <1>2, <1>14 DEF PutchP, Io
  <2> HIDE DEF r
  <2>2. Fetching' = Fetching
    BY <1>14, <2>1, NotFetching DEF PutchP, At
  <2> QED BY <1>14, <2>2, KeyKept DEF PutchP, Live
<1>15. ASSUME NEW t \in Threads, LserWrite(t) PROVE KeyInv'
  <2>1. CASE ls_wbusy
    BY <1>1, <1>15, <2>1, KeyKept DEF LserWrite, At, Ok, Live
  <2>2. CASE ~ls_wbusy
    <3> DEFINE r == [io[t] EXCEPT !.pc = "putch", !.todo = Tail(@)]
    <3>1. io' = [io EXCEPT ![t] = r] /\ r.pc = "putch"
      BY <1>2, <1>15, <2>2 DEF LserWrite, Io
    <3> HIDE DEF r
    <3>2. Fetching' = Fetching
      BY <1>15, <3>1, NotFetching DEF LserWrite, At
    <3> QED BY <1>15, <2>2, <3>2, KeyKept DEF LserWrite, Live
  <2> QED BY <2>1, <2>2
<1>16. ASSUME NEW t \in Threads, GetchP(t) PROVE KeyInv'
  <2> DEFINE r == [io[t] EXCEPT !.pc = "got"]
  <2>1. io' = [io EXCEPT ![t] = r] /\ r.pc = "got"
    BY <1>2, <1>16 DEF GetchP, Io
  <2> HIDE DEF r
  <2>2. Fetching' = Fetching \cup {t} /\ t \notin Fetching
    BY <1>16, <2>1, IoStep DEF GetchP, At, Fetching
  <2>3. /\ IsFiniteSet(Fetching')
        /\ Cardinality(Fetching') = Cardinality(Fetching) + 1
    BY <2>2, FS_AddElement DEF KeyInv
  <2>4. /\ cs_rsem > 0 /\ cs_rsem' = cs_rsem - 1
        /\ UNCHANGED <<phase, rx, rirq, cs_gotchar, keys, taken, hurried, fault>>
    BY <1>16 DEF GetchP
  <2>5. Accounted' = Accounted
    BY <2>3, <2>4, KeyTypes DEF Accounted
  <2>6. phase = "up"
    BY <1>16 DEF GetchP, At, BootInv
  <2> QED BY <2>3, <2>4, <2>5, <2>6 DEF KeyInv, Ok, Live
<1>17. ASSUME NEW t \in Threads, GetchTake(t) PROVE KeyInv'
  <2> DEFINE r == IF EndsLine(cs_gotchar) \/ io[t].resid = 1
                  THEN NoIo
                  ELSE [io[t] EXCEPT !.pc = "getch", !.resid = io[t].resid - 1]
             n == Len(taken)
  <2>1. io' = [io EXCEPT ![t] = r]
    BY <1>17 DEF GetchTake
  <2>2. r.pc # "got"
    BY <1>2 DEF Io
  <2> HIDE DEF r
  <2>3. Fetching' = Fetching \ {t} /\ t \in Fetching
    BY <1>17, <2>1, <2>2, IoStep DEF GetchTake, At, Fetching
  <2>4. /\ IsFiniteSet(Fetching')
        /\ Cardinality(Fetching') = Cardinality(Fetching) - 1
    BY <2>3, FS_RemoveElement DEF KeyInv
  <2>5. phase = "up"
    BY <2>3 DEF KeyInv
  <2>6. /\ taken' = Append(taken, cs_gotchar) /\ Ok
        /\ UNCHANGED <<phase, rx, rirq, cs_rsem, cs_gotchar, keys, hurried, fault>>
    BY <1>17 DEF GetchTake, At
  <2>7. /\ Len(taken') = n + 1 /\ taken'[n + 1] = cs_gotchar
        /\ \A i \in 1 .. n : taken'[i] = taken[i]
    BY <2>6, AppendProperties, KeyTypes DEF Types
  <2>8. Accounted' = Accounted
    BY <2>4, <2>6, <2>7, KeyTypes DEF Accounted
  <2>9. n \in Nat /\ \A i \in 1 .. n + 1 : i = n + 1 \/ i \in 1 .. n
    BY KeyTypes
  <2>10. \A i \in 1 .. n : taken[i] \in Nat
    BY LenProperties DEF Types
  <2>11. \A i \in 1 .. n + 1 : taken'[i] <= cs_gotchar
    BY <2>7, <2>9, KeyTypes DEF KeyInv
  <2>12. \A i, j \in 1 .. n + 1 : i < j => taken'[i] <= taken'[j]
    <3> SUFFICES ASSUME NEW i \in 1 .. n + 1, NEW j \in 1 .. n + 1, i < j
                 PROVE  taken'[i] <= taken'[j]
      OBVIOUS
    <3>1. i \in 1 .. n
      BY <2>9
    <3>2. CASE j = n + 1
      BY <2>7, <2>11, <3>2
    <3>3. CASE j \in 1 .. n
      BY <2>7, <3>1, <3>3 DEF KeyInv
    <3> QED BY <2>9, <3>2, <3>3
  <2>13. ASSUME ~hurried
         PROVE  cs_gotchar = n + 1 /\ Len(keys) = n + 1 /\ ~rirq
    <3>1. /\ Accounted = Len(keys) /\ Len(keys) <= n + 1
          /\ ~rirq => cs_gotchar = Len(keys)
      BY <2>6, <2>13 DEF KeyInv
    <3>2. Cardinality(Fetching) >= 1
      BY <2>4, FS_CardinalityType, KeyTypes
    <3>3. Len(keys) = n + 1 /\ ~rirq
      BY <3>1, <3>2, KeyTypes DEF Accounted
    <3> QED BY <3>1, <3>3
  <2>14. Ok' /\ ~hurried' => \A i \in 1 .. n + 1 : taken'[i] = i
    BY <2>6, <2>7, <2>9, <2>13 DEF KeyInv
  <2> HIDE DEF n
  <2> QED BY <2>4, <2>5, <2>6, <2>7, <2>8, <2>9, <2>11, <2>12, <2>13, <2>14
          DEF KeyInv, Ok, Live
<1>18. ASSUME LserWritepolled PROVE KeyInv'
  BY <1>1, <1>18, KeyKept DEF LserWritepolled, Ok, Live
<1>19. ASSUME Sent PROVE KeyInv'
  BY <1>1, <1>19, KeyKept DEF Sent, Live
<1>20. ASSUME Key PROVE KeyInv'
  <2>1. PICK ch \in {"x", "cr"} : keys' = Append(keys, ch)
    BY <1>20 DEF Key
  <2>2. Len(keys') = Len(keys) + 1
    BY <2>1, AppendProperties DEF Types, Chars
  <2>3. /\ rx' = Len(keys) + 1 /\ rirq' = TRUE /\ Ok
        /\ hurried' = (hurried \/ Len(taken) < Len(keys) \/ ~Live)
        /\ Fetching' = Fetching /\ Live' = Live
        /\ UNCHANGED <<phase, cs_rsem, cs_gotchar, taken, fault>>
    BY <1>1, <1>20 DEF Key, Live
  <2>4. Accounted' <= Accounted + 1 /\ (~rirq => Accounted' = Accounted + 1)
    BY <2>3, KeyTypes DEF Accounted
  <2>5. Accounted \in Nat /\ Accounted' \in Nat
    BY <2>3, KeyTypes DEF Accounted
  <2>6. ASSUME ~hurried'
        PROVE  Len(keys) <= Len(taken) /\ Accounted' = Len(keys) + 1 /\ ~hurried /\ Live
    <3>1. Len(keys) <= Len(taken) /\ ~hurried /\ Live
      <4>1. ~(hurried \/ Len(taken) < Len(keys) \/ ~Live)
        BY <2>3, <2>6, Zenon
      <4> QED BY <4>1, KeyTypes
    <3>2. Accounted = Len(keys)
      BY <2>3, <3>1 DEF KeyInv
    <3>3. ~rirq
      BY <3>1, <3>2, KeyTypes DEF Accounted
    <3> QED BY <2>4, <3>1, <3>2, <3>3
  <2> QED BY <2>2, <2>3, <2>4, <2>5, <2>6, KeyTypes DEF KeyInv, Ok
<1>21. ASSUME LserIrq PROVE KeyInv'
  <2>1. CASE rirq
    <3>1. /\ rirq' = FALSE /\ cs_gotchar' = rx /\ cs_rsem' = cs_rsem + 1 /\ Ok
          /\ fault' = (phase \in {"lser", "attached"}) /\ Fetching' = Fetching
          /\ UNCHANGED <<phase, rx, keys, taken, hurried>>
      BY <1>1, <1>21, <2>1 DEF LserIrq, con_input
    <3>2. Accounted' = Accounted
      BY <2>1, <3>1, KeyTypes DEF Accounted
    <3>3. \A i \in 1 .. Len(taken) : taken[i] \in Nat
      BY LenProperties DEF Types
    <3>4. \A i \in 1 .. Len(taken) : taken[i] <= cs_gotchar'
      BY <3>1, <3>3, KeyTypes DEF KeyInv
    <3>5. Ok' => phase \notin {"lser", "attached"}
      BY <3>1, Zenon DEF Ok
    <3>6. /\ rx' = Len(keys') /\ cs_gotchar' <= rx'
          /\ phase' # "up" => taken' = <<>> /\ Fetching' = {}
          /\ IsFiniteSet(Fetching') /\ Accounted <= Len(keys)
          /\ ~Live' /\ ~hurried' => keys' = <<>>
      BY <3>1, KeyTypes DEF KeyInv, Live
    <3>7. ~hurried' => /\ Accounted = Len(keys)
                       /\ \A i \in 1 .. Len(taken) : taken[i] = i
                       /\ Len(keys) <= Len(taken) + 1
                       /\ cs_gotchar' = Len(keys)
      BY <3>1 DEF KeyInv
    <3>8. \A i, j \in 1 .. Len(taken) : i < j => taken[i] <= taken[j]
      BY DEF KeyInv
    <3> QED BY <3>1, <3>2, <3>4, <3>5, <3>6, <3>7, <3>8 DEF KeyInv
  <2>2. CASE ~rirq
    BY <1>1, <1>21, <2>2, KeyKept DEF LserIrq, input, Ok, Types, Live
  <2> QED BY <2>1, <2>2
<1>22. ASSUME UNCHANGED vars PROVE KeyInv'
  BY <1>1, <1>22, KeyKept DEF vars, input, Live
<1> QED BY <1>3, <1>4, <1>5, <1>6, <1>7, <1>8, <1>9, <1>10, <1>11, <1>12,
           <1>13, <1>14, <1>15, <1>16, <1>17, <1>18, <1>19, <1>20, <1>21, <1>22
        DEF Next, Boot, Step

------------------------------------------------------------------------------
(* Before the console is there. *)
LEMMA BootInit == Init => BootInv
BY DEF Init, BootInv, NoIo

LEMMA BootStep == Types /\ TurnInv /\ BootInv /\ [Next]_vars => BootInv'
<1> SUFFICES ASSUME Types, TurnInv, BootInv, [Next]_vars, phase' # "up",
                    NEW u \in Threads
             PROVE  io'[u].pc \in {"idle", "loop", "putch", "send"}
  BY DEF BootInv
<1> DEFINE Goal == io'[u].pc \in {"idle", "loop", "putch", "send"}
<1>1. phase # "up"
  BY DEF Next, vars, PutchDelayed, Boot, Attach, ConfigSems, ConfigGotchar,
         ConfigConsole, FlushDone, Write, Read, Step, NextChar, Return,
         PutchDone, PutchP, LserWrite, GetchP, GetchTake, LserWritepolled, Sent,
         Key, LserIrq
<1>2. io[u].pc \in {"idle", "loop", "putch", "send"}
  BY <1>1 DEF BootInv
<1>3. CASE io' = io
  BY <1>2, <1>3
<1>4. ASSUME NEW t \in Threads, NEW r, io' = [io EXCEPT ![t] = r],
             r.pc \in {"idle", "loop", "putch", "send"}
      PROVE  Goal
  <2>1. io'[t] = r /\ \A x \in Threads \ {t} : io'[x] = io[x]
    BY <1>4, IoStep
  <2> QED BY <1>2, <1>4, <2>1
<1>5. NoIo.pc = "idle" /\ \A t \in Threads : io[t] \in Io
  BY DEF NoIo, Types
<1>6. ASSUME ConfigConsole PROVE Goal
  <2> DEFINE r == [NoIo EXCEPT !.pc = "putch", !.req = delayed, !.todo = delayed]
  <2>1. io' = [io EXCEPT ![Main] = r] /\ r.pc = "putch"
    BY <1>6 DEF ConfigConsole, NoIo
  <2> HIDE DEF r
  <2> QED BY <1>4, <2>1, ThreadAssumption
<1>7. ASSUME NEW t \in Threads, NextChar(t) PROVE Goal
  <2> DEFINE r == [io[t] EXCEPT !.pc = "putch", !.line = Tail(@),
                                !.todo = Expand(Head(io[t].line))]
  <2>1. io' = [io EXCEPT ![t] = r] /\ r.pc = "putch"
    BY <1>5, <1>7 DEF NextChar, Io
  <2> HIDE DEF r
  <2> QED BY <1>4, <2>1
<1>8. ASSUME NEW t \in Threads, PutchDone(t) PROVE Goal
  <2> DEFINE r == [io[t] EXCEPT !.pc = "loop"]
  <2>1. io' = [io EXCEPT ![t] = r] /\ r.pc = "loop"
    BY <1>5, <1>8 DEF PutchDone, Io
  <2> HIDE DEF r
  <2> QED BY <1>4, <2>1
<1>9. ASSUME NEW t \in Threads, PutchP(t) PROVE Goal
  <2> DEFINE r == [io[t] EXCEPT !.pc = "send"]
  <2>1. io' = [io EXCEPT ![t] = r] /\ r.pc = "send"
    BY <1>5, <1>9 DEF PutchP, Io
  <2> HIDE DEF r
  <2> QED BY <1>4, <2>1
<1>10. ASSUME NEW t \in Threads, LserWrite(t) PROVE Goal
  <2>1. CASE ls_wbusy
    BY <1>3, <1>10, <2>1 DEF LserWrite
  <2>2. CASE ~ls_wbusy
    <3> DEFINE r == [io[t] EXCEPT !.pc = "putch", !.todo = Tail(@)]
    <3>1. io' = [io EXCEPT ![t] = r] /\ r.pc = "putch"
      BY <1>5, <1>10, <2>2 DEF LserWrite, Io
    <3> HIDE DEF r
    <3> QED BY <1>4, <3>1
  <2> QED BY <2>1, <2>2
<1>11. ASSUME NEW t \in Threads, GetchP(t) \/ GetchTake(t) PROVE Goal
  BY <1>1, <1>11 DEF GetchP, GetchTake, At, BootInv
<1>12. ASSUME NEW t \in Threads, Write(t) \/ Read(t) \/ Return(t) PROVE Goal
  BY <1>1, <1>12 DEF Write, Read, Return
<1>13. ASSUME FlushDone PROVE Goal
  BY <1>13 DEF FlushDone
<1>14. ASSUME PutchDelayed \/ Attach \/ ConfigSems \/ ConfigGotchar
                  \/ LserWritepolled \/ Sent \/ Key \/ LserIrq
       PROVE  Goal
  BY <1>3, <1>14 DEF PutchDelayed, Attach, ConfigSems, ConfigGotchar,
         LserWritepolled, Sent, Key, LserIrq
<1>15. ASSUME UNCHANGED vars PROVE Goal
  BY <1>3, <1>15 DEF vars
<1> QED BY <1>6, <1>7, <1>8, <1>9, <1>10, <1>11, <1>12, <1>13, <1>14, <1>15
        DEF Next, Boot, Step

LEMMA FaultStep == Types /\ TurnInv /\ FaultInv /\ [Next]_vars => FaultInv'
<1> SUFFICES ASSUME Types, TurnInv, FaultInv, [Next]_vars, Live' PROVE Ok'
  BY DEF FaultInv
<1>1. ASSUME Boot PROVE Ok'
  BY <1>1 DEF Boot, Attach, ConfigSems, ConfigGotchar, ConfigConsole, FlushDone,
              At, Ok
<1>2. ASSUME NEW t \in Threads, LserWrite(t) PROVE Ok'
  <2>1. t \in Sending /\ Live
    BY <1>2, BusyLive DEF LserWrite, At, Sending
  <2>2. ~ls_wbusy
    BY <2>1 DEF TurnInv, Live
  <2> QED BY <1>2, <2>2 DEF LserWrite, At, Ok
<1>3. ASSUME LserWritepolled PROVE Ok'
  BY <1>3 DEF LserWritepolled, TurnInv, Ok
<1>4. ASSUME LserIrq PROVE Ok'
  BY <1>4 DEF LserIrq, Live, Ok
<1>5. ASSUME NEW t \in Threads,
             \/ Write(t) \/ Read(t) \/ NextChar(t) \/ Return(t) \/ PutchDone(t)
             \/ PutchP(t) \/ GetchP(t) \/ GetchTake(t)
      PROVE  Ok'
  BY <1>5 DEF Write, Read, NextChar, Return, PutchDone, PutchP, GetchP,
              GetchTake, At, Ok
<1>6. ASSUME PutchDelayed \/ Sent \/ Key PROVE Ok'
  BY <1>6 DEF PutchDelayed, Sent, Key, Ok
<1>7. ASSUME UNCHANGED vars PROVE Ok'
  BY <1>7 DEF vars, FaultInv, Live, Ok
<1> QED BY <1>1, <1>2, <1>3, <1>4, <1>5, <1>6, <1>7 DEF Next, Step

------------------------------------------------------------------------------
(* The invariant. *)
LEMMA Invariance == Spec => []IInv
<1>1. Init => IInv
  <2>1. Init => FaultInv
    BY DEF Init, FaultInv, Ok
  <2> QED BY <2>1, TypesInit, TurnInit, LineInit, KeyInit, BootInit DEF IInv
<1>2. IInv /\ [Next]_vars => IInv'
  BY TypesStep, TurnStep, LineStep, KeyStep, BootStep, FaultStep DEF IInv
<1> QED BY <1>1, <1>2, PTL DEF Spec

(***************************************************************************)
(* The turn to write is in exactly one place, and ls_wbusy tells whether a  *)
(* completion is to come: lser_write never finds the device not clear to    *)
(* write, and lser_writepolled never polls for ever.                        *)
(***************************************************************************)
THEOREM TurnInOnePlace == Spec => []OneWriter
<1>1. IInv => OneWriter
  <2> SUFFICES ASSUME TurnInv, Live PROVE OneWriter
    BY DEF IInv, OneWriter
  <2>1. \/ cs_wsem = 1 /\ Sending = {} /\ ~ls_wbusy
        \/ cs_wsem = 0 /\ (\E t \in Threads : Sending = {t}) /\ ~ls_wbusy
        \/ cs_wsem = 0 /\ Sending = {} /\ ls_wbusy
    BY DEF TurnInv, Live
  <2>2. Sending = {} => Cardinality(Sending) = 0
    BY FS_EmptySet
  <2>3. (\E t \in Threads : Sending = {t}) => Cardinality(Sending) = 1
    BY FS_Singleton
  <2>4. (ls_wbusy <=> tx # Nothing \/ wirq) /\ ~(tx # Nothing /\ wirq)
    BY DEF TurnInv
  <2>5. cs_wsem + Cardinality(Sending) + (IF ls_wbusy THEN 1 ELSE 0) = 1
    BY <2>1, <2>2, <2>3
  <2> QED BY <2>4, <2>5, Zenon DEF OneWriter
<1> QED BY <1>1, Invariance, PTL

(***************************************************************************)
(* What con_io is asked to write comes out whole, in order and once, with   *)
(* a carriage return before each newline, whatever other threads and polled *)
(* output do.                                                               *)
(***************************************************************************)
THEOREM LinesComeOutWhole == Spec => []OutputFaithful
<1>1. IInv => OutputFaithful
  BY DEF IInv, LineInv, Line, Whole, OutputFaithful
<1> QED BY <1>1, Invariance, PTL

(***************************************************************************)
(* getch never goes back to an older key and never returns more characters  *)
(* than keys were typed, and keys typed one at a time are read once each    *)
(* and in order.                                                            *)
(***************************************************************************)
THEOREM KeysReadInOrder == Spec => []InputFaithful
<1>1. IInv => InputFaithful
  <2> SUFFICES ASSUME IInv PROVE InputFaithful
    OBVIOUS
  <2>1. DOMAIN taken = 1 .. Len(taken)
    BY LenProperties DEF IInv, Types
  <2> QED BY <2>1 DEF IInv, KeyInv, InputFaithful
<1> QED BY <1>1, Invariance, PTL

(***************************************************************************)
(* Once there is a console, lser_write finds the device clear to write,     *)
(* lser_writepolled has something to wait for, and lser_irq reaches a       *)
(* console that is complete.                                                *)
(***************************************************************************)
THEOREM NoFaultOnceLive == Spec => [](Live => Ok)
<1>1. IInv => (Live => Ok)
  BY DEF IInv, FaultInv
<1> QED BY <1>1, Invariance, PTL
==============================================================================
