------------------------------ MODULE ListFacts ------------------------------
(***************************************************************************)
(* Lemmas about natural numbers and lists that the proofs of several        *)
(* modules use: the least element of a set of numbers, from which inductive *)
(* proofs about recursive functions are made, and the elements and lengths  *)
(* of lists without duplicates.                                             *)
(***************************************************************************)
EXTENDS Integers, Sequences, SequencesExt, SequenceTheorems,
        FiniteSetTheorems, TLAPS

(* A set of natural numbers has a least element. *)
LEMMA Least ==
    ASSUME NEW T \in SUBSET Nat, T # {}
    PROVE  \E m \in T : \A k \in T : m <= k
<1> DEFINE R == OpToRel(<, Nat)
<1>1. R = {ss \in Nat \X Nat : ss[1] < ss[2]}
  BY DEF OpToRel
<1>2. IsWellFoundedOn(R, Nat)
  BY NatLessThanWellFounded
<1> HIDE DEF R
<1>3. PICK m \in T : \A k \in T : <<k, m>> \notin R
  BY <1>2, WFMin
<1>4. ASSUME NEW k \in T PROVE m <= k
  <2> SUFFICES ASSUME k < m PROVE FALSE
    OBVIOUS
  <2> DEFINE p == <<k, m>>
  <2>1. p \in Nat \X Nat /\ p[1] < p[2]
    OBVIOUS
  <2> HIDE DEF p
  <2>2. p \in R
    BY <1>1, <2>1
  <2> QED BY <1>3, <2>2 DEF p
<1> QED BY <1>4

(* Induction over the natural numbers, for a property given as a set. *)
LEMMA Induction ==
    ASSUME NEW S, 0 \in S, \A n \in Nat : n \in S => n + 1 \in S
    PROVE  \A n \in Nat : n \in S
<1> DEFINE T == {n \in Nat : n \notin S}
<1> SUFFICES ASSUME T # {} PROVE FALSE
  OBVIOUS
<1>1. PICK m \in T : \A k \in T : m <= k
  <2>1. T \in SUBSET Nat
    OBVIOUS
  <2> HIDE DEF T
  <2> QED BY <2>1, Least
<1>2. m \in Nat /\ m \notin S /\ m # 0
  OBVIOUS
<1>3. m - 1 \in Nat /\ m - 1 \notin T
  BY <1>1, <1>2
<1>4. m - 1 \in S /\ (m - 1) + 1 = m
  BY <1>2, <1>3
<1> QED BY <1>2, <1>3, <1>4

(* The same up to a bound. *)
LEMMA BoundedInduction ==
    ASSUME NEW S, NEW N \in Nat, 0 \in S,
           \A n \in 0 .. N - 1 : n \in S => n + 1 \in S
    PROVE  \A n \in 0 .. N : n \in S
<1> DEFINE T == S \cup {n \in Nat : n > N}
<1>1. 0 \in T
  OBVIOUS
<1>2. \A n \in Nat : n \in T => n + 1 \in T
  OBVIOUS
<1> HIDE DEF T
<1>3. \A n \in Nat : n \in T
  BY <1>1, <1>2, Induction
<1> QED BY <1>3 DEF T

------------------------------------------------------------------------------
(* Elements of lists. *)
LEMMA ToSetEmpty == ToSet(<<>>) = {}
BY DEF ToSet

LEMMA ToSetIs ==
    ASSUME NEW S, NEW s \in Seq(S)
    PROVE  /\ ToSet(s) = {s[i] : i \in 1 .. Len(s)}
           /\ ToSet(s) \in SUBSET S
           /\ s # <<>> => Head(s) \in ToSet(s)
           /\ s = <<>> <=> ToSet(s) = {}
<1>1. /\ Len(s) \in Nat /\ DOMAIN s = 1 .. Len(s)
      /\ \A i \in 1 .. Len(s) : s[i] \in S
      /\ s # <<>> => Len(s) # 0 /\ Head(s) = s[1]
  BY LenProperties, EmptySeq
<1>2. ToSet(s) = {s[i] : i \in 1 .. Len(s)}
  BY <1>1 DEF ToSet
<1>3. s # <<>> => Head(s) \in ToSet(s)
  BY <1>1, <1>2
<1>4. s = <<>> => ToSet(s) = {}
  BY ToSetEmpty
<1> QED BY <1>1, <1>2, <1>3, <1>4

LEMMA ToSetConcat ==
    ASSUME NEW S, NEW s \in Seq(S), NEW t \in Seq(S)
    PROVE  ToSet(s \o t) = ToSet(s) \cup ToSet(t)
<1>1. /\ s \o t \in Seq(S) /\ Len(s \o t) = Len(s) + Len(t)
      /\ Len(s) \in Nat /\ Len(t) \in Nat
      /\ \A i \in 1 .. Len(s) + Len(t) :
            (s \o t)[i] = IF i <= Len(s) THEN s[i] ELSE t[i - Len(s)]
  BY ConcatProperties, LenProperties
<1>2. /\ ToSet(s \o t) = {(s \o t)[i] : i \in 1 .. Len(s) + Len(t)}
      /\ ToSet(s) = {s[i] : i \in 1 .. Len(s)}
      /\ ToSet(t) = {t[i] : i \in 1 .. Len(t)}
  BY <1>1, ToSetIs
<1>3. ASSUME NEW i \in 1 .. Len(s) + Len(t)
      PROVE  (s \o t)[i] \in ToSet(s) \cup ToSet(t)
  <2>1. CASE i <= Len(s)
    BY <1>1, <1>2, <2>1
  <2>2. CASE ~(i <= Len(s))
    <3>1. i - Len(s) \in 1 .. Len(t)
      BY <1>1, <2>2
    <3> QED BY <1>1, <1>2, <2>2, <3>1
  <2> QED BY <2>1, <2>2
<1>4. ASSUME NEW i \in 1 .. Len(s) PROVE s[i] \in ToSet(s \o t)
  BY <1>1, <1>2
<1>5. ASSUME NEW i \in 1 .. Len(t) PROVE t[i] \in ToSet(s \o t)
  <2>1. /\ i + Len(s) \in 1 .. Len(s) + Len(t) /\ ~(i + Len(s) <= Len(s))
        /\ (i + Len(s)) - Len(s) = i
    BY <1>1
  <2>2. (s \o t)[i + Len(s)] = t[i]
    BY <1>1, <2>1
  <2> QED BY <1>2, <2>1, <2>2
<1> QED BY <1>2, <1>3, <1>4, <1>5

LEMMA ToSetAppend ==
    ASSUME NEW S, NEW s \in Seq(S), NEW e \in S
    PROVE  ToSet(Append(s, e)) = ToSet(s) \cup {e}
<1>1. Append(s, e) = s \o <<e>> /\ <<e>> \in Seq(S)
  BY AppendIsConcat
<1>2. ToSet(<<e>>) = {e}
  BY DEF ToSet
<1>3. ToSet(s \o <<e>>) = ToSet(s) \cup ToSet(<<e>>)
  BY <1>1, ToSetConcat
<1> QED BY <1>1, <1>2, <1>3

LEMMA ToSetTail ==
    ASSUME NEW S, NEW s \in Seq(S), s # <<>>
    PROVE  /\ Head(s) \in ToSet(s) /\ Tail(s) \in Seq(S)
           /\ ToSet(s) = {Head(s)} \cup ToSet(Tail(s))
           /\ IsInjective(s) => /\ IsInjective(Tail(s))
                                /\ ToSet(Tail(s)) = ToSet(s) \ {Head(s)}
<1>1. /\ Tail(s) \in Seq(S) /\ Len(s) \in Nat \ {0} /\ Len(Tail(s)) = Len(s) - 1
      /\ \A i \in 1 .. Len(Tail(s)) : Tail(s)[i] = s[i + 1]
      /\ Head(s) = s[1] /\ DOMAIN s = 1 .. Len(s)
      /\ DOMAIN Tail(s) = 1 .. Len(s) - 1
  BY HeadTailProperties, EmptySeq, LenProperties
<1>2. /\ ToSet(s) = {s[i] : i \in 1 .. Len(s)}
      /\ ToSet(Tail(s)) = {Tail(s)[i] : i \in 1 .. Len(s) - 1}
  BY <1>1 DEF ToSet
<1>3. ToSet(s) = {Head(s)} \cup ToSet(Tail(s))
  <2>1. ASSUME NEW i \in 1 .. Len(s) PROVE s[i] \in {Head(s)} \cup ToSet(Tail(s))
    <3>1. CASE i = 1
      BY <1>1, <3>1
    <3>2. CASE i # 1
      <4>1. i - 1 \in 1 .. Len(s) - 1 /\ (i - 1) + 1 = i
        BY <1>1, <3>2
      <4>2. Tail(s)[i - 1] = s[i]
        BY <1>1, <4>1
      <4> QED BY <1>2, <4>1, <4>2
    <3> QED BY <3>1, <3>2
  <2>2. ASSUME NEW i \in 1 .. Len(s) - 1 PROVE Tail(s)[i] \in ToSet(s)
    BY <1>1, <1>2
  <2>3. Head(s) \in ToSet(s)
    BY <1>1, <1>2
  <2> QED BY <1>2, <2>1, <2>2, <2>3
<1>4. ASSUME IsInjective(s)
      PROVE  IsInjective(Tail(s)) /\ Head(s) \notin ToSet(Tail(s))
  <2>1. \A i, j \in 1 .. Len(s) : s[i] = s[j] => i = j
    BY <1>1, <1>4 DEF IsInjective
  <2>2. IsInjective(Tail(s))
    BY <1>1, <2>1 DEF IsInjective
  <2>3. ASSUME NEW i \in 1 .. Len(s) - 1, Tail(s)[i] = Head(s) PROVE FALSE
    <3>1. i + 1 \in 1 .. Len(s) /\ 1 \in 1 .. Len(s) /\ i + 1 # 1
      BY <1>1
    <3> QED BY <1>1, <2>1, <2>3, <3>1
  <2> QED BY <1>2, <2>2, <2>3
<1> QED BY <1>1, <1>3, <1>4

(* Lists without duplicates. *)
LEMMA InjConcat ==
    ASSUME NEW S, NEW s \in Seq(S), NEW t \in Seq(S),
           IsInjective(s), IsInjective(t), ToSet(s) \cap ToSet(t) = {}
    PROVE  IsInjective(s \o t)
<1>1. /\ s \o t \in Seq(S) /\ Len(s \o t) = Len(s) + Len(t)
      /\ Len(s) \in Nat /\ Len(t) \in Nat
      /\ DOMAIN s = 1 .. Len(s) /\ DOMAIN t = 1 .. Len(t)
      /\ DOMAIN (s \o t) = 1 .. Len(s) + Len(t)
      /\ \A i \in 1 .. Len(s) + Len(t) :
            (s \o t)[i] = IF i <= Len(s) THEN s[i] ELSE t[i - Len(s)]
  BY ConcatProperties, LenProperties
<1>2. /\ \A i \in 1 .. Len(s) : s[i] \in ToSet(s)
      /\ \A i \in 1 .. Len(t) : t[i] \in ToSet(t)
  BY <1>1 DEF ToSet
<1>3. ASSUME NEW i \in 1 .. Len(s) + Len(t), NEW j \in 1 .. Len(s) + Len(t),
             (s \o t)[i] = (s \o t)[j]
      PROVE  i = j
  <2>1. CASE i <= Len(s) /\ j <= Len(s)
    BY <1>1, <1>3, <2>1 DEF IsInjective
  <2>2. CASE i > Len(s) /\ j > Len(s)
    <3>1. i - Len(s) \in 1 .. Len(t) /\ j - Len(s) \in 1 .. Len(t)
      BY <1>1, <2>2
    <3>2. t[i - Len(s)] = t[j - Len(s)]
      BY <1>1, <1>3, <2>2
    <3>3. i - Len(s) = j - Len(s)
      BY <1>1, <3>1, <3>2 DEF IsInjective
    <3> QED BY <1>1, <3>3
  <2>3. CASE i <= Len(s) /\ j > Len(s)
    <3>1. j - Len(s) \in 1 .. Len(t) /\ i \in 1 .. Len(s)
      BY <1>1, <2>3
    <3>2. s[i] = t[j - Len(s)]
      BY <1>1, <1>3, <2>3
    <3> QED BY <1>2, <3>1, <3>2
  <2>4. CASE i > Len(s) /\ j <= Len(s)
    <3>1. i - Len(s) \in 1 .. Len(t) /\ j \in 1 .. Len(s)
      BY <1>1, <2>4
    <3>2. s[j] = t[i - Len(s)]
      BY <1>1, <1>3, <2>4
    <3> QED BY <1>2, <3>1, <3>2
  <2> QED BY <1>1, <2>1, <2>2, <2>3, <2>4
<1> QED BY <1>1, <1>3 DEF IsInjective

LEMMA InjAppend ==
    ASSUME NEW S, NEW s \in Seq(S), NEW e \in S, IsInjective(s), e \notin ToSet(s)
    PROVE  IsInjective(Append(s, e))
<1>1. Append(s, e) = s \o <<e>> /\ <<e>> \in Seq(S)
  BY AppendIsConcat
<1>2. ToSet(<<e>>) = {e} /\ IsInjective(<<e>>)
  BY DEF ToSet, IsInjective
<1> QED BY <1>1, <1>2, InjConcat

(* A list without duplicates is as long as its set of elements is large. *)
LEMMA InjLength ==
    ASSUME NEW S, NEW s \in Seq(S), IsInjective(s)
    PROVE  IsFiniteSet(ToSet(s)) /\ Cardinality(ToSet(s)) = Len(s)
<1>1. Len(s) \in Nat /\ DOMAIN s = 1 .. Len(s) /\ s \in [1 .. Len(s) -> S]
  BY LenProperties
<1>2. s \in [1 .. Len(s) -> ToSet(s)]
  BY <1>1 DEF ToSet
<1>3. s \in Bijection(1 .. Len(s), ToSet(s))
  BY <1>1, <1>2 DEF Bijection, Injection, Surjection, ToSet, IsInjective
<1>4. ExistsBijection(1 .. Len(s), ToSet(s))
  BY <1>3 DEF ExistsBijection
<1>5. IsFiniteSet(ToSet(s))
  BY <1>1, <1>4, FS_NatBijection
<1> QED BY <1>1, <1>4, <1>5, FS_CountingElements

------------------------------------------------------------------------------
(* The lists put one after the other, up to each of them. *)
LEMMA RunningConcat ==
    ASSUME NEW S, NEW ss \in Seq(Seq(S))
    PROVE  \E h \in [0 .. Len(ss) -> Seq(S)] :
               /\ h[0] = <<>>
               /\ \A i \in 1 .. Len(ss) : h[i] = h[i - 1] \o ss[i]
<1> DEFINE X == Seq(S)
           n == Len(ss)
           Upto(f, k) ==
               f[0] = <<>> /\ \A i \in 1 .. k : f[i] = f[i - 1] \o ss[i]
           T == {k \in 0 .. n : \E f \in [0 .. n -> X] : Upto(f, k)}
<1>1. n \in Nat /\ \A i \in 1 .. n : ss[i] \in X
  BY LenProperties
<1>2. <<>> \in X /\ \A u, v \in X : u \o v \in X
  BY EmptySeq, ConcatProperties
<1>3. SUFFICES n \in T
  OBVIOUS
<1> HIDE DEF X, n
<1>4. 0 \in T
  <2> DEFINE g == [j \in 0 .. n |-> <<>>]
  <2>1. g \in [0 .. n -> X] /\ g[0] = <<>>
    BY <1>1, <1>2
  <2> HIDE DEF g
  <2>2. Upto(g, 0)
    BY <2>1
  <2> HIDE DEF Upto
  <2> QED BY <1>1, <2>1, <2>2
<1>5. ASSUME NEW k \in 0 .. n - 1, k \in T PROVE k + 1 \in T
  <2>1. PICK f \in [0 .. n -> X] : Upto(f, k)
    BY <1>5
  <2>2. /\ k + 1 \in 1 .. n /\ (k + 1) - 1 = k /\ k \in 0 .. n
        /\ k + 1 \in 0 .. n
    BY <1>1
  <2> DEFINE v == f[k] \o ss[k + 1]
             g == [f EXCEPT ![k + 1] = v]
  <2>3. v \in X
    BY <1>1, <1>2, <2>2
  <2> HIDE DEF v
  <2>4. /\ g \in [0 .. n -> X] /\ g[k + 1] = v
        /\ \A i \in 0 .. k : g[i] = f[i]
    BY <1>1, <2>2, <2>3
  <2> HIDE DEF g
  <2>5. ASSUME NEW i \in 1 .. k + 1 PROVE g[i] = g[i - 1] \o ss[i]
    <3>1. CASE i = k + 1
      <4>1. g[k] = f[k]
        BY <2>2, <2>4
      <4> QED BY <2>2, <2>4, <3>1, <4>1 DEF v
    <3>2. CASE i # k + 1
      <4>1. i \in 1 .. k /\ i \in 0 .. k /\ i - 1 \in 0 .. k
        BY <2>2, <3>2
      <4> QED BY <2>1, <2>4, <4>1
    <3> QED BY <3>1, <3>2
  <2>6. Upto(g, k + 1)
    <3>1. 0 \in 0 .. k /\ f[0] = <<>>
      BY <2>1
    <3>2. g[0] = <<>>
      BY <2>4, <3>1
    <3> QED BY <2>5, <3>2
  <2> HIDE DEF Upto
  <2> QED BY <2>2, <2>4, <2>6
<1> HIDE DEF T
<1>6. \A k \in 0 .. n : k \in T
  BY <1>1, <1>4, <1>5, BoundedInduction
<1> QED BY <1>1, <1>6

(* FlattenSeq puts the lists one after the other. *)
LEMMA FlattenIs ==
    ASSUME NEW S, NEW ss \in Seq(Seq(S)), ss # <<>>
    PROVE  \E f \in [1 .. Len(ss) -> Seq(S)] :
               /\ f[1] = ss[1]
               /\ \A i \in 2 .. Len(ss) : f[i] = f[i - 1] \o ss[i]
               /\ FlattenSeq(ss) = f[Len(ss)]
<1> DEFINE X == Seq(S)
           n == Len(ss)
           flatten[i \in 1 .. Len(ss)] ==
               IF i = 1 THEN ss[i] ELSE flatten[i - 1] \o ss[i]
           E(f, i) == IF i = 1 THEN ss[i] ELSE f[i - 1] \o ss[i]
<1>1. n \in Nat \ {0} /\ \A i \in 1 .. n : ss[i] \in X
  BY EmptySeq, LenProperties
<1>2. /\ <<>> \in X /\ \A u \in X : <<>> \o u = u
      /\ \A u, v \in X : u \o v \in X
  BY EmptySeq, ConcatEmptySeq, ConcatProperties
<1>3. FlattenSeq(ss) = flatten[n]
  BY <1>1 DEF FlattenSeq
<1>4. (\E f : f = [i \in 1 .. n |-> E(f, i)])
      => flatten = [i \in 1 .. n |-> E(flatten, i)]
  OBVIOUS
<1> HIDE DEF X, n, flatten
<1>6. PICK h \in [0 .. n -> X] :
          h[0] = <<>> /\ \A i \in 1 .. n : h[i] = h[i - 1] \o ss[i]
  BY RunningConcat DEF X, n
<1> DEFINE g == [i \in 1 .. n |-> h[i]]
<1>7. g \in [1 .. n -> X] /\ \A i \in 1 .. n : g[i] = h[i]
  BY <1>1, <1>6
<1>8. g = [i \in 1 .. n |-> g[i]]
  OBVIOUS
<1> HIDE DEF g
<1>9. ASSUME NEW i \in 1 .. n PROVE g[i] = E(g, i)
  <2>1. i - 1 \in 0 .. n /\ h[i - 1] \in X
    BY <1>1, <1>6
  <2>2. h[i] = h[i - 1] \o ss[i]
    BY <1>6
  <2>3. CASE i = 1
    <3>1. i - 1 = 0 /\ ss[i] \in X
      BY <1>1, <2>3
    <3>2. h[i] = <<>> \o ss[i]
      BY <1>6, <2>2, <3>1
    <3>3. h[i] = ss[i]
      BY <1>2, <3>1, <3>2
    <3> QED BY <1>7, <2>3, <3>3
  <2>4. CASE i # 1
    <3>1. i - 1 \in 1 .. n
      BY <1>1, <2>4
    <3> QED BY <1>7, <2>2, <2>4, <3>1
  <2> QED BY <2>3, <2>4
<1>10. g = [i \in 1 .. n |-> E(g, i)]
  <2> HIDE DEF E
  <2> QED BY <1>8, <1>9
<1>11. flatten = [i \in 1 .. n |-> E(flatten, i)]
  <2> HIDE DEF E
  <2> QED BY <1>4, <1>10
<1>12. \A i \in 1 .. n : flatten[i] = E(flatten, i)
  <2> HIDE DEF E
  <2> QED BY <1>11
<1> DEFINE T == {k \in 0 .. n : \A i \in 1 .. k : flatten[i] \in X}
<1>13. n \in T
  <2>1. 0 \in T
    BY <1>1
  <2>2. ASSUME NEW k \in 0 .. n - 1, k \in T PROVE k + 1 \in T
    <3>1. k + 1 \in 1 .. n /\ ss[k + 1] \in X /\ (k + 1) - 1 = k /\ k + 1 \in 0 .. n
      BY <1>1
    <3>2. flatten[k + 1] = E(flatten, k + 1)
      BY <1>12, <3>1
    <3>3. flatten[k + 1] \in X
      <4>1. CASE k = 0
        BY <3>1, <3>2, <4>1
      <4>2. CASE k # 0
        <5>1. k \in 1 .. k
          BY <4>2
        <5>2. flatten[k] \in X
          BY <2>2, <5>1
        <5>3. flatten[k] \o ss[k + 1] \in X
          BY <1>2, <3>1, <5>2
        <5> QED BY <3>1, <3>2, <4>2, <5>3
      <4> QED BY <4>1, <4>2
    <3>4. \A i \in 1 .. k + 1 : i = k + 1 \/ i \in 1 .. k
      BY <3>1
    <3>5. \A i \in 1 .. k + 1 : flatten[i] \in X
      BY <2>2, <3>3, <3>4
    <3> QED BY <3>1, <3>5
  <2>3. \A k \in 0 .. n - 1 : k \in T => k + 1 \in T
    BY <2>2
  <2> HIDE DEF T
  <2>4. \A k \in 0 .. n : k \in T
    BY <1>1, <2>1, <2>3, BoundedInduction
  <2> QED BY <1>1, <2>4
<1>14. flatten \in [1 .. n -> X]
  <2>1. \A i \in 1 .. n : flatten[i] \in X
    BY <1>13
  <2> HIDE DEF E
  <2> QED BY <1>11, <2>1
<1>15. flatten[1] = ss[1]
  <2>1. 1 \in 1 .. n
    BY <1>1
  <2> QED BY <1>12, <2>1
<1>16. ASSUME NEW i \in 2 .. n PROVE flatten[i] = flatten[i - 1] \o ss[i]
  <2>1. i \in 1 .. n /\ i # 1
    BY <1>1
  <2> QED BY <1>12, <2>1
<1>17. \E f \in [1 .. n -> X] :
           /\ f[1] = ss[1] /\ \A i \in 2 .. n : f[i] = f[i - 1] \o ss[i]
           /\ FlattenSeq(ss) = f[n]
  BY <1>3, <1>14, <1>15, <1>16
<1> QED BY <1>17 DEF X, n

(* It puts the first list in front of the others. *)
LEMMA FlattenHead ==
    ASSUME NEW S, NEW ss \in Seq(Seq(S)), ss # <<>>
    PROVE  /\ FlattenSeq(ss) \in Seq(S) /\ FlattenSeq(Tail(ss)) \in Seq(S)
           /\ FlattenSeq(ss) = Head(ss) \o FlattenSeq(Tail(ss))
<1> DEFINE X == Seq(S)
           n == Len(ss)
           tt == Tail(ss)
<1>1. /\ n \in Nat \ {0} /\ \A i \in 1 .. n : ss[i] \in X
      /\ tt \in Seq(X) /\ Len(tt) = n - 1
      /\ \A i \in 1 .. n - 1 : tt[i] = ss[i + 1]
      /\ Head(ss) = ss[1]
  BY EmptySeq, LenProperties, HeadTailProperties
<1>2. /\ <<>> \in X /\ \A u \in X : u \o <<>> = u
      /\ \A u, v, w \in X : (u \o v) \o w = u \o (v \o w)
  <2>1. <<>> \in X /\ \A u \in X : u \o <<>> = u
    BY EmptySeq, ConcatEmptySeq
  <2>2. \A u, v, w \in X : (u \o v) \o w = u \o (v \o w)
    BY SMT
  <2> HIDE DEF X
  <2> QED BY <2>1, <2>2
<1>3. \E f \in [1 .. n -> X] :
          /\ f[1] = ss[1] /\ \A i \in 2 .. n : f[i] = f[i - 1] \o ss[i]
          /\ FlattenSeq(ss) = f[n]
  BY FlattenIs
<1>4. tt = <<>> => FlattenSeq(tt) = <<>> /\ Len(tt) = 0
  BY EmptySeq DEF FlattenSeq
<1>5. tt # <<>> => Len(tt) # 0
  BY <1>1, EmptySeq
<1>6. tt # <<>> => \E f \in [1 .. Len(tt) -> X] :
                       /\ f[1] = tt[1]
                       /\ \A i \in 2 .. Len(tt) : f[i] = f[i - 1] \o tt[i]
                       /\ FlattenSeq(tt) = f[Len(tt)]
  <2> HIDE DEF tt
  <2> QED BY <1>1, FlattenIs
<1>7. SUFFICES /\ FlattenSeq(ss) \in X /\ FlattenSeq(tt) \in X
               /\ FlattenSeq(ss) = ss[1] \o FlattenSeq(tt)
  BY <1>1
<1> HIDE DEF X, n, tt
<1>8. PICK f \in [1 .. n -> X] :
          /\ f[1] = ss[1] /\ \A i \in 2 .. n : f[i] = f[i - 1] \o ss[i]
          /\ FlattenSeq(ss) = f[n]
  BY <1>3
<1>9. n \in 1 .. n /\ 1 \in 1 .. n
  BY <1>1
<1>10. FlattenSeq(ss) \in X /\ ss[1] \in X
  BY <1>1, <1>8, <1>9
<1>11. CASE tt = <<>>
  <2>1. n = 1
    BY <1>1, <1>4, <1>11
  <2> QED BY <1>2, <1>4, <1>8, <1>10, <1>11, <2>1
<1>12. CASE tt # <<>>
  <2>1. n \in Nat /\ n - 1 \in Nat \ {0}
    BY <1>1, <1>5, <1>12
  <2>2. PICK g \in [1 .. n - 1 -> X] :
            /\ g[1] = tt[1]
            /\ \A i \in 2 .. n - 1 : g[i] = g[i - 1] \o tt[i]
            /\ FlattenSeq(tt) = g[n - 1]
    BY <1>1, <1>6, <1>12
  <2> DEFINE T == {k \in 0 .. n - 2 : f[k + 2] = ss[1] \o g[k + 1]}
  <2>3. 0 \in T
    <3>1. 2 \in 2 .. n /\ 1 \in 1 .. n - 1 /\ 0 \in 0 .. n - 2
      BY <2>1
    <3>2. f[2] = f[1] \o ss[2] /\ tt[1] = ss[2]
      <4>1. 2 - 1 = 1 /\ 1 + 1 = 2
        OBVIOUS
      <4> QED BY <1>1, <1>8, <3>1, <4>1
    <3>3. f[2] = ss[1] \o g[1]
      BY <1>8, <2>2, <3>2
    <3> QED BY <3>1, <3>3
  <2>4. ASSUME NEW k \in 0 .. (n - 2) - 1, k \in T PROVE k + 1 \in T
    <3>1. /\ k + 3 \in 2 .. n /\ (k + 3) - 1 = k + 2
          /\ k + 2 \in 2 .. n - 1 /\ (k + 2) - 1 = k + 1
          /\ k + 1 \in 0 .. n - 2 /\ (k + 1) + 2 = k + 3
          /\ (k + 1) + 1 = k + 2 /\ k + 1 \in 1 .. n - 1
          /\ k + 3 \in 1 .. n /\ k + 2 \in 1 .. n - 1 /\ (k + 2) + 1 = k + 3
      BY <2>1
    <3>2. f[k + 3] = f[k + 2] \o ss[k + 3]
      BY <1>8, <3>1
    <3>3. tt[k + 2] = ss[k + 3]
      BY <1>1, <3>1
    <3>4. g[k + 2] = g[k + 1] \o ss[k + 3]
      BY <2>2, <3>1, <3>3
    <3>5. f[k + 2] = ss[1] \o g[k + 1]
      BY <2>4
    <3>6. g[k + 1] \in X /\ ss[k + 3] \in X
      BY <1>1, <2>2, <3>1
    <3>7. (ss[1] \o g[k + 1]) \o ss[k + 3] = ss[1] \o (g[k + 1] \o ss[k + 3])
      BY <1>2, <1>10, <3>6
    <3>8. f[(k + 1) + 2] = ss[1] \o g[(k + 1) + 1]
      BY <3>1, <3>2, <3>4, <3>5, <3>7
    <3> QED BY <3>1, <3>8
  <2>5. n - 2 \in T
    <3>1. \A k \in 0 .. (n - 2) - 1 : k \in T => k + 1 \in T
      BY <2>4
    <3>2. n - 2 \in Nat
      BY <2>1
    <3> HIDE DEF T
    <3>3. \A k \in 0 .. n - 2 : k \in T
      BY <2>3, <3>1, <3>2, BoundedInduction
    <3> QED BY <3>2, <3>3
  <2>6. f[n] = ss[1] \o g[n - 1]
    <3>1. (n - 2) + 2 = n /\ (n - 2) + 1 = n - 1
      BY <2>1
    <3> QED BY <2>5, <3>1
  <2>7. FlattenSeq(tt) \in X
    <3>1. n - 1 \in 1 .. n - 1
      BY <2>1
    <3> QED BY <2>2, <3>1
  <2> QED BY <1>8, <1>10, <2>2, <2>6, <2>7
<1> QED BY <1>11, <1>12

------------------------------------------------------------------------------
(* Taking an element off a list without duplicates. *)
LEMMA RemoveFirstIs ==
    ASSUME NEW S, NEW s \in Seq(S), NEW e, IsInjective(s), e \in ToSet(s)
    PROVE  /\ RemoveFirst(s, e) \in Seq(S) /\ IsInjective(RemoveFirst(s, e))
           /\ ToSet(RemoveFirst(s, e)) = ToSet(s) \ {e}
<1>1. /\ Len(s) \in Nat /\ s \in [1 .. Len(s) -> S] /\ DOMAIN s = 1 .. Len(s)
      /\ ToSet(s) = {s[i] : i \in 1 .. Len(s)}
      /\ \A i, j \in 1 .. Len(s) : s[i] = s[j] => i = j
  BY LenProperties, ToSetIs DEF IsInjective
<1>2. PICK i \in 1 .. Len(s) : s[i] = e
  BY <1>1
<1>3. SelectInSeq(s, LAMBDA v : v = e) = i
  <2>1. {j \in 1 .. Len(s) : s[j] = e} = {i}
    BY <1>1, <1>2
  <2>2. Min({i}) = i
    <3>1. i \in Int
      BY <1>1
    <3> QED BY <3>1 DEF Min
  <2> QED BY <2>1, <2>2 DEF SelectInSeq
<1> DEFINE t == SubSeq(s, 1, i - 1) \o SubSeq(s, i + 1, Len(s))
<1>4. RemoveFirst(s, e) = t
  BY <1>2, <1>3 DEF RemoveFirst, RemoveAt
<1>5. /\ t \in Seq(S) /\ Len(t) = Len(s) - 1
      /\ \A j \in 1 .. Len(s) - 1 : t[j] = IF j < i THEN s[j] ELSE s[j + 1]
  <2> DEFINE a == SubSeq(s, 1, i - 1)
             b == SubSeq(s, i + 1, Len(s))
             n == Len(s)
  <2>1. n \in Nat /\ i \in Nat /\ i <= n /\ 1 <= i
    BY <1>1
  <2>2. /\ a \in Seq(S) /\ Len(a) = i - 1
        /\ \A j \in 1 .. i - 1 : a[j] = s[j]
    BY <2>1, SMT
  <2>3. /\ b \in Seq(S) /\ Len(b) = n - i
        /\ \A j \in 1 .. n - i : b[j] = s[i + j]
    BY <2>1, SMT
  <2> HIDE DEF a, b, n
  <2>4. /\ a \o b \in Seq(S) /\ Len(a \o b) = n - 1
        /\ \A j \in 1 .. n - 1 :
              (a \o b)[j] = IF j <= i - 1 THEN a[j] ELSE b[j - (i - 1)]
    <3>1. Len(a) + Len(b) = n - 1
      BY <2>1, <2>2, <2>3
    <3> QED BY <2>2, <2>3, <3>1, ConcatProperties
  <2>5. ASSUME NEW j \in 1 .. n - 1
        PROVE  (a \o b)[j] = IF j < i THEN s[j] ELSE s[j + 1]
    <3>1. CASE j < i
      <4>1. j \in 1 .. i - 1 /\ j <= i - 1
        BY <2>1, <3>1
      <4> QED BY <2>2, <2>4, <3>1, <4>1
    <3>2. CASE ~(j < i)
      <4>1. /\ j - (i - 1) \in 1 .. n - i /\ i + (j - (i - 1)) = j + 1
            /\ ~(j <= i - 1)
        BY <2>1, <3>2
      <4>2. b[j - (i - 1)] = s[j + 1]
        BY <2>3, <4>1
      <4> QED BY <2>4, <3>2, <4>1, <4>2
    <3> QED BY <3>1, <3>2
  <2> QED BY <2>4, <2>5 DEF a, b, n
<1> HIDE DEF t
<1>6. DOMAIN t = 1 .. Len(s) - 1 /\ ToSet(t) = {t[j] : j \in 1 .. Len(s) - 1}
  BY <1>5, LenProperties, ToSetIs
<1>7. IsInjective(t)
  <2> SUFFICES ASSUME NEW j \in 1 .. Len(s) - 1, NEW k \in 1 .. Len(s) - 1,
                      t[j] = t[k]
               PROVE  j = k
    BY <1>6 DEF IsInjective
  <2> DEFINE at(x) == IF x < i THEN x ELSE x + 1
  <2>1. /\ at(j) \in 1 .. Len(s) /\ at(k) \in 1 .. Len(s)
        /\ t[j] = s[at(j)] /\ t[k] = s[at(k)]
    BY <1>1, <1>5
  <2>2. at(j) = at(k)
    BY <1>1, <2>1
  <2> QED BY <1>1, <2>2
<1>8. ASSUME NEW j \in 1 .. Len(s) - 1 PROVE t[j] \in ToSet(s) \ {e}
  <2> DEFINE k == IF j < i THEN j ELSE j + 1
  <2>1. k \in 1 .. Len(s) /\ k # i /\ t[j] = s[k]
    BY <1>1, <1>5
  <2> QED BY <1>1, <1>2, <2>1
<1>9. ASSUME NEW k \in 1 .. Len(s), s[k] # e PROVE s[k] \in ToSet(t)
  <2> DEFINE j == IF k < i THEN k ELSE k - 1
  <2>1. k # i
    BY <1>2, <1>9
  <2>2. j \in 1 .. Len(s) - 1 /\ t[j] = s[k]
    <3>1. CASE k < i
      BY <1>1, <1>5, <3>1
    <3>2. CASE ~(k < i)
      <4>1. k - 1 \in 1 .. Len(s) - 1 /\ ~(k - 1 < i) /\ (k - 1) + 1 = k
        BY <1>1, <2>1, <3>2
      <4> QED BY <1>5, <3>2, <4>1
    <3> QED BY <3>1, <3>2
  <2> QED BY <1>6, <2>2
<1> QED BY <1>1, <1>4, <1>5, <1>6, <1>7, <1>8, <1>9

(* Putting an element in front of such a list. *)
LEMMA InjPush ==
    ASSUME NEW S, NEW s \in Seq(S), NEW e \in S, IsInjective(s), e \notin ToSet(s)
    PROVE  /\ <<e>> \o s \in Seq(S) /\ IsInjective(<<e>> \o s)
           /\ ToSet(<<e>> \o s) = ToSet(s) \cup {e}
           /\ Len(<<e>> \o s) = Len(s) + 1
<1> DEFINE h == <<e>>
<1>1. h \in Seq(S) /\ IsInjective(h) /\ ToSet(h) = {e} /\ Len(h) = 1
  BY DEF ToSet, IsInjective
<1> HIDE DEF h
<1>2. h \o s \in Seq(S) /\ Len(h \o s) = Len(s) + 1
  BY SMT DEF h
<1>3. ToSet(h \o s) = ToSet(s) \cup {e}
  BY <1>1, ToSetConcat
<1>4. IsInjective(h \o s)
  BY <1>1, InjConcat
<1> QED BY <1>2, <1>3, <1>4 DEF h
==============================================================================
