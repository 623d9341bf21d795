--------------------------- MODULE InductionFacts ---------------------------
(* Facts about numbers, functions and sequences that the theorems of the     *)
(* other modules rest on: induction over the naturals, from the first order  *)
(* theorems of the library on well-founded relations, and that a function    *)
(* defined by recursion over an interval exists.                             *)
EXTENDS Selection, SequenceTheorems, FunctionTheorems, FiniteSetTheorems, WellFoundedInduction, TLAPS

LEMMA Smallest ==
  ASSUME NEW T \in SUBSET Nat, T # {}
  PROVE  \E n \in T : \A m \in T : n <= m
<1> DEFINE Less == {p \in Nat \X Nat : p[1] < p[2]}
<1>1. IsWellFoundedOn(Less, Nat)
  BY NatLessThanWellFounded DEF OpToRel
<1>2. PICK x \in T : \A y \in T : ~ (<<y, x>> \in Less)
  <2> HIDE DEF Less
  <2> QED
    BY <1>1, WFMin
<1>3. ASSUME NEW y \in T PROVE x <= y
  <2>1. x \in Nat /\ y \in Nat
    OBVIOUS
  <2>2. ~ (<<y, x>> \in Less)
    BY <1>2
  <2>3. ~ (y < x)
    BY <2>1, <2>2
  <2> QED
    BY <2>1, <2>3
<1> QED
  BY <1>3

(* The set of the numbers with a property stands for the property.           *)
LEMMA Induction ==
  ASSUME NEW n \in Nat, NEW S \in SUBSET Nat, 0 \in S,
         \A i \in S : i < n => i + 1 \in S
  PROVE  0 .. n \subseteq S
<1> DEFINE Rest == {i \in 0 .. n : i \notin S}
<1> SUFFICES ASSUME Rest # {} PROVE FALSE
  OBVIOUS
<1>1. PICK i \in Rest : \A j \in Rest : i <= j
  <2>1. Rest \in SUBSET Nat
    OBVIOUS
  <2> HIDE DEF Rest
  <2> QED
    BY <2>1, Smallest
<1>2. i # 0 /\ i - 1 \in 0 .. n /\ i - 1 \notin Rest /\ i - 1 < n
  BY <1>1
<1>3. i - 1 \in S
  BY <1>2
<1> QED
  BY <1>1, <1>2, <1>3

(* A function over an interval can be defined by its first value and the     *)
(* step from each value to the next.                                         *)
Recursion(f, n, x, step) == f[0] = x /\ \A i \in 1 .. n : f[i] = step[<<f[i - 1], i>>]

LEMMA RecursionOverInterval ==
  ASSUME NEW n \in Nat, NEW X, NEW x \in X, NEW step \in [X \X (1 .. n) -> X]
  PROVE  \E f \in [0 .. n -> X] : Recursion(f, n, x, step)
<1> DEFINE Solves(f, k) == Recursion(f, k, x, step)
<1> USE DEF Recursion
<1> DEFINE S == {k \in Nat : \E f \in [0 .. k -> X] : Solves(f, k)}
<1>1. 0 \in S
  <2>1. [i \in 0 .. 0 |-> x] \in [0 .. 0 -> X]
    OBVIOUS
  <2>2. Solves([i \in 0 .. 0 |-> x], 0)
    OBVIOUS
  <2> QED
    BY <2>1, <2>2
<1>2. ASSUME NEW k \in S, k < n PROVE k + 1 \in S
  <2>0. k \in Nat /\ \E f \in [0 .. k -> X] : Solves(f, k)
    <3> HIDE DEF Solves
    <3> QED
      OBVIOUS
  <2>1. PICK f \in [0 .. k -> X] : Solves(f, k)
    BY <2>0
  <2> DEFINE g == [i \in 0 .. k + 1 |-> IF i = k + 1 THEN step[<<f[k], k + 1>>] ELSE f[i]]
  <2>2. k \in Nat /\ k + 1 \in 1 .. n /\ f[k] \in X
    <3> HIDE DEF S, Solves
    <3> QED
      BY <1>2, <2>0
  <2>3. step[<<f[k], k + 1>>] \in X
    BY <2>2
  <2>4. g \in [0 .. k + 1 -> X]
    BY <2>2, <2>3
  <2>5. Solves(g, k + 1)
    <3>1. g[0] = x
      BY <2>1, <2>2
    <3>2. ASSUME NEW i \in 1 .. k PROVE g[i] = step[<<g[i - 1], i>>]
      <4>1. g[i] = f[i] /\ g[i - 1] = f[i - 1]
        BY <2>2
      <4> QED
        BY <2>1, <4>1
    <3>3. g[k + 1] = step[<<g[(k + 1) - 1], k + 1>>]
      <4>1. g[k + 1] = step[<<f[k], k + 1>>] /\ g[k] = f[k] /\ (k + 1) - 1 = k
        BY <2>2
      <4> QED
        BY <4>1
    <3>4. \A i \in 1 .. k + 1 : i \in 1 .. k \/ i = k + 1
      BY <2>2
    <3> HIDE DEF g
    <3> QED
      BY <3>1, <3>2, <3>3, <3>4
  <2>6. k + 1 \in Nat /\ \E h \in [0 .. k + 1 -> X] : Solves(h, k + 1)
    <3> HIDE DEF g, Solves, S
    <3> QED
      BY <2>2, <2>4, <2>5
  <2> HIDE DEF Solves
  <2> QED
    BY <2>6
<1>3. n \in S
  <2>1. S \in SUBSET Nat
    OBVIOUS
  <2> HIDE DEF S
  <2>2. 0 .. n \subseteq S
    BY <1>1, <1>2, <2>1, Induction
  <2> QED
    BY <2>2
<1> QED
  BY <1>3

(* What agrees at the first number and goes on in the same way agrees.       *)
GoOnAlike(f, g, n) == f[0] = g[0] /\ \A i \in 1 .. n : f[i - 1] = g[i - 1] => f[i] = g[i]

LEMMA SameRecursion ==
  ASSUME NEW n \in Nat, NEW f, NEW g, GoOnAlike(f, g, n)
  PROVE  \A i \in 0 .. n : f[i] = g[i]
<1> USE DEF GoOnAlike
<1> DEFINE S == {i \in Nat : i <= n => f[i] = g[i]}
<1>1. S \in SUBSET Nat /\ 0 \in S
  OBVIOUS
<1>2. ASSUME NEW i \in S, i < n PROVE i + 1 \in S
  <2>1. i \in Nat /\ i + 1 \in 1 .. n /\ (i + 1) - 1 = i
    BY <1>2
  <2>2. f[i] = g[i]
    BY <1>2, <2>1
  <2> QED
    BY <2>1, <2>2
<1> HIDE DEF S
<1>3. 0 .. n \subseteq S
  BY <1>1, <1>2, Induction
<1> QED
  BY <1>3 DEF S

-----------------------------------------------------------------------------
(* Sequences, by their last element.                                         *)

LEMMA SequenceInduction ==
  ASSUME NEW X, NEW S \in SUBSET Seq(X), << >> \in S,
         \A s \in S, x \in X : Append(s, x) \in S
  PROVE  S = Seq(X)
<1> SUFFICES ASSUME NEW w \in Seq(X), w \notin S PROVE FALSE
  OBVIOUS
<1> DEFINE Lengths == {Len(t) : t \in Seq(X) \ S}
<1>1. Lengths \in SUBSET Nat /\ Lengths # {}
  <2>1. \A t \in Seq(X) : Len(t) \in Nat
    BY LenProperties
  <2>2. Len(w) \in Lengths
    OBVIOUS
  <2> QED
    BY <2>1, <2>2
<1>2. PICK n \in Lengths : \A m \in Lengths : n <= m
  <2> HIDE DEF Lengths
  <2> QED
    BY <1>1, Smallest
<1>3. PICK s \in Seq(X) \ S : Len(s) = n
  OBVIOUS
<1>4. PICK t \in Seq(X), x \in X : s = Append(t, x)
  <2>1. s # << >>
    OBVIOUS
  <2> QED
    BY <2>1, SequenceEmptyOrAppend
<1>5. Len(t) \in Nat /\ Len(s) = Len(t) + 1
  BY <1>4, AppendProperties, LenProperties
<1>6. Len(t) \in Lengths
  BY <1>4
<1>7. Len(s) <= Len(t)
  BY <1>2, <1>3, <1>6
<1> QED
  BY <1>5, <1>7

(* FlattenSeq, as what it joins step by step.                                *)
LEMMA FlattenSteps ==
  ASSUME NEW X, NEW ss \in Seq(Seq(X))
  PROVE  \E f \in [0 .. Len(ss) -> Seq(X)] :
           /\ f[0] = << >>
           /\ \A i \in 1 .. Len(ss) : f[i] = f[i - 1] \o ss[i]
           /\ FlattenSeq(ss) = f[Len(ss)]
<1> DEFINE n == Len(ss)
<1> DEFINE Body(h) == [i \in 1 .. n |-> IF i = 1 THEN ss[i] ELSE h[i - 1] \o ss[i]]
<1> DEFINE step == [q \in Seq(X) \X (1 .. n) |-> q[1] \o ss[q[2]]]
<1>0. n \in Nat /\ \A i \in 1 .. n : ss[i] \in Seq(X)
  BY LenProperties, ElementOfSeq
<1>s. step \in [Seq(X) \X (1 .. n) -> Seq(X)]
  <2>1. \A q \in Seq(X) \X (1 .. n) : q[1] \o ss[q[2]] \in Seq(X)
    BY <1>0, ConcatProperties
  <2> QED
    BY <2>1
<1>1. \A t \in Seq(X), i \in 1 .. n : step[<<t, i>>] = t \o ss[i]
  <2>1. ASSUME NEW t \in Seq(X), NEW i \in 1 .. n PROVE step[<<t, i>>] = t \o ss[i]
    <3>1. <<t, i>> \in Seq(X) \X (1 .. n)
      OBVIOUS
    <3> HIDE DEF n
    <3> QED
      BY <3>1
  <2> QED
    BY <2>1
<1> HIDE DEF step, n
<1>2. PICK f \in [0 .. n -> Seq(X)] : Recursion(f, n, << >>, step)
  <2>1. << >> \in Seq(X)
    BY EmptySeq
  <2> QED
    BY <1>0, <1>s, <2>1, RecursionOverInterval, Zenon
<1>3. f[0] = << >> /\ \A i \in 1 .. n : f[i] = f[i - 1] \o ss[i]
  <2>1. ASSUME NEW i \in 1 .. n PROVE f[i] = f[i - 1] \o ss[i]
    <3>1. f[i - 1] \in Seq(X)
      BY <1>0
    <3>2. f[i] = step[<<f[i - 1], i>>]
      BY <1>2 DEF Recursion
    <3> QED
      BY <1>1, <3>1, <3>2
  <2> QED
    BY <1>2, <2>1 DEF Recursion
<1>4. CASE n = 0
  <2>1. ss = << >> /\ FlattenSeq(ss) = ss
    BY <1>4, EmptySeq DEF FlattenSeq, n
  <2> QED
    BY <1>3, <1>4, <2>1 DEF n
<1>5. CASE n # 0
  <2>0. 1 \in 1 .. n /\ n \in 1 .. n /\ 1 - 1 = 0 /\ \A i \in 1 .. n : i # 1 => i - 1 \in 1 .. n
    BY <1>0, <1>5
  <2>1. f[1] = ss[1]
    <3>1. f[1] = << >> \o ss[1]
      BY <1>3, <2>0
    <3> QED
      BY <1>0, <2>0, <3>1, ConcatEmptySeq
  <2> DEFINE h0 == [i \in 1 .. n |-> f[i]]
  <2>2. \A i \in 1 .. n : h0[i] = f[i]
    OBVIOUS
  <2>3. \A i \in 1 .. n : h0[i] = IF i = 1 THEN ss[i] ELSE h0[i - 1] \o ss[i]
    <3> HIDE DEF h0
    <3> QED
      BY <1>3, <2>0, <2>1, <2>2
  <2>4. h0 = Body(h0)
    <3>1. h0 = [i \in 1 .. n |-> h0[i]]
      OBVIOUS
    <3> HIDE DEF h0
    <3> QED
      BY <2>3, <3>1
  <2> DEFINE flatten == CHOOSE h : h = Body(h)
  <2>5. flatten = Body(flatten)
    <3> HIDE DEF h0, Body
    <3> QED
      BY <2>4
  <2>6. FlattenSeq(ss) = flatten[n]
    BY <1>5 DEF FlattenSeq, n
  <2> HIDE DEF flatten
  <2>7. \A i \in 1 .. n : flatten[i] = IF i = 1 THEN ss[i] ELSE flatten[i - 1] \o ss[i]
    BY <2>5
  <2> DEFINE g == [i \in 0 .. n |-> IF i = 0 THEN << >> ELSE flatten[i]]
  <2>8. g[0] = << >> /\ \A i \in 1 .. n : g[i] = flatten[i]
    BY <1>0
  <2> HIDE DEF g
  <2>9. ASSUME NEW i \in 1 .. n, f[i - 1] = g[i - 1] PROVE f[i] = g[i]
    <3>1. CASE i = 1
      BY <2>0, <2>1, <2>7, <2>8, <3>1
    <3>2. CASE i # 1
      <4>1. g[i - 1] = flatten[i - 1] /\ flatten[i] = flatten[i - 1] \o ss[i]
        BY <2>0, <2>7, <2>8, <3>2
      <4>2. f[i] = f[i - 1] \o ss[i]
        BY <1>3
      <4> QED
        BY <2>8, <2>9, <4>1, <4>2
    <3> QED
      BY <3>1, <3>2
  <2>10. \A i \in 0 .. n : f[i] = g[i]
    <3>1. f[0] = g[0]
      BY <1>3, <2>8
    <3>2. GoOnAlike(f, g, n)
      BY <2>9, <3>1 DEF GoOnAlike
    <3> QED
      BY <1>0, <3>2, SameRecursion, Zenon
  <2>11. n \in 0 .. n
    BY <1>0
  <2>12. f[n] = flatten[n]
    BY <2>0, <2>8, <2>10, <2>11
  <2> QED
    BY <1>3, <2>6, <2>12 DEF n
<1> QED
  BY <1>4, <1>5

LEMMA FlattenType ==
  ASSUME NEW X, NEW ss \in Seq(Seq(X))
  PROVE  FlattenSeq(ss) \in Seq(X)
<1>1. PICK f \in [0 .. Len(ss) -> Seq(X)] : FlattenSeq(ss) = f[Len(ss)]
  BY FlattenSteps
<1>2. Len(ss) \in 0 .. Len(ss)
  BY LenProperties
<1> QED
  BY <1>1, <1>2

LEMMA FlattenEmpty == FlattenSeq(<< >>) = << >>
BY DEF FlattenSeq

LEMMA FlattenAppend ==
  ASSUME NEW X, NEW ss \in Seq(Seq(X)), NEW s \in Seq(X)
  PROVE  FlattenSeq(Append(ss, s)) = FlattenSeq(ss) \o s
<1> DEFINE n == Len(ss)
           tt == Append(ss, s)
<1>1. n \in Nat /\ tt \in Seq(Seq(X)) /\ Len(tt) = n + 1 /\ tt[n + 1] = s
      /\ \A i \in 1 .. n : tt[i] = ss[i]
  BY AppendProperties, LenProperties
<1> HIDE DEF n, tt
<1>2. PICK f \in [0 .. n -> Seq(X)] :
        /\ f[0] = << >>
        /\ \A i \in 1 .. n : f[i] = f[i - 1] \o ss[i]
        /\ FlattenSeq(ss) = f[n]
  BY FlattenSteps DEF n
<1>3. PICK g \in [0 .. Len(tt) -> Seq(X)] :
        /\ g[0] = << >>
        /\ \A i \in 1 .. Len(tt) : g[i] = g[i - 1] \o tt[i]
        /\ FlattenSeq(tt) = g[Len(tt)]
  BY <1>1, FlattenSteps
<1>4. GoOnAlike(f, g, n)
  <2>1. ASSUME NEW i \in 1 .. n, f[i - 1] = g[i - 1] PROVE f[i] = g[i]
    <3>1. i \in 1 .. Len(tt)
      BY <1>1
    <3> QED
      BY <1>1, <1>2, <1>3, <2>1, <3>1
  <2> QED
    BY <1>2, <1>3, <2>1 DEF GoOnAlike
<1>5. f[n] = g[n]
  <2>1. n \in 0 .. n
    BY <1>1
  <2>2. \A i \in 0 .. n : f[i] = g[i]
    <3>1. n \in Nat
      BY <1>1
    <3> QED
      BY <1>4, <3>1, SameRecursion, Zenon
  <2> QED
    BY <2>1, <2>2
<1>6. g[n + 1] = g[n] \o s
  <2>1. n + 1 \in 1 .. Len(tt) /\ (n + 1) - 1 = n
    BY <1>1
  <2> QED
    BY <1>1, <1>3, <2>1
<1> QED
  BY <1>1, <1>2, <1>3, <1>5, <1>6 DEF tt

LEMMA FlattenConcat ==
  ASSUME NEW X, NEW ss \in Seq(Seq(X)), NEW tt \in Seq(Seq(X))
  PROVE  FlattenSeq(ss \o tt) = FlattenSeq(ss) \o FlattenSeq(tt)
<1> DEFINE S == {uu \in Seq(Seq(X)) : FlattenSeq(ss \o uu) = FlattenSeq(ss) \o FlattenSeq(uu)}
<1>1. << >> \in S
  <2>1. ss \o << >> = ss /\ FlattenSeq(ss) \o << >> = FlattenSeq(ss)
    BY ConcatEmptySeq, FlattenType
  <2> QED
    BY <2>1, FlattenEmpty, EmptySeq
<1>2. ASSUME NEW uu \in S, NEW s \in Seq(X) PROVE Append(uu, s) \in S
  <2>1. uu \in Seq(Seq(X)) /\ Append(uu, s) \in Seq(Seq(X)) /\ ss \o uu \in Seq(Seq(X))
    BY AppendProperties, ConcatProperties
  <2>2. ss \o Append(uu, s) = Append(ss \o uu, s)
    <3>1. Append(uu, s) = uu \o <<s>> /\ Append(ss \o uu, s) = (ss \o uu) \o <<s>>
      BY <2>1, AppendIsConcat
    <3>2. <<s>> \in Seq(Seq(X))
      OBVIOUS
    <3> QED
      BY <2>1, <3>1, <3>2, ConcatAssociative
  <2>3. /\ FlattenSeq(Append(ss \o uu, s)) = FlattenSeq(ss \o uu) \o s
        /\ FlattenSeq(Append(uu, s)) = FlattenSeq(uu) \o s
    BY <2>1, FlattenAppend
  <2>4. (FlattenSeq(ss) \o FlattenSeq(uu)) \o s = FlattenSeq(ss) \o (FlattenSeq(uu) \o s)
    <3>1. FlattenSeq(ss) \in Seq(X) /\ FlattenSeq(uu) \in Seq(X)
      BY <2>1, FlattenType
    <3> HIDE DEF S
    <3> QED
      BY <3>1, ConcatAssociative, SMTT(30)
  <2> QED
    BY <2>1, <2>2, <2>3, <2>4
<1>3. S = Seq(Seq(X))
  <2>1. S \in SUBSET Seq(Seq(X))
    OBVIOUS
  <2> HIDE DEF S
  <2> QED
    BY <1>1, <1>2, <2>1, SequenceInduction
<1> QED
  BY <1>3

LEMMA FlattenOne == ASSUME NEW X, NEW s \in Seq(X) PROVE FlattenSeq(<<s>>) = s
<1>1. <<s>> = Append(<< >>, s) /\ << >> \in Seq(Seq(X))
  BY EmptySeq
<1>2. FlattenSeq(Append(<< >>, s)) = FlattenSeq(<< >>) \o s
  BY <1>1, FlattenAppend
<1>3. << >> \o s = s
  BY ConcatEmptySeq
<1> QED
  BY <1>1, <1>2, <1>3, FlattenEmpty, Zenon

(* The elements of the whole are those of the parts.                         *)
LEMMA RangeOfAppend ==
  ASSUME NEW X, NEW s \in Seq(X), NEW x \in X
  PROVE  Range(Append(s, x)) = Range(s) \cup {x}
<1>1. Append(s, x) = s \o <<x>> /\ <<x>> \in Seq(X)
  BY AppendIsConcat
<1>2. Range(<<x>>) = {x}
  <2>1. Range(<<x>>) = {<<x>>[i] : i \in 1 .. Len(<<x>>)}
    BY <1>1, RangeEquality
  <2> QED
    BY <2>1
<1>3. Range(s \o <<x>>) = Range(s) \cup Range(<<x>>)
  BY <1>1, RangeConcatenation, ZenonT(30)
<1> QED
  BY <1>1, <1>2, <1>3, Zenon

LEMMA RangeOfEmpty == Range(<< >>) = {}
BY DEF Range

LEMMA FlattenRange ==
  ASSUME NEW X, NEW ss \in Seq(Seq(X))
  PROVE  Range(FlattenSeq(ss)) = UNION {Range(s) : s \in Range(ss)}
<1> DEFINE S == {uu \in Seq(Seq(X)) : Range(FlattenSeq(uu)) = UNION {Range(s) : s \in Range(uu)}}
<1>1. << >> \in S
  BY FlattenEmpty, RangeOfEmpty, EmptySeq
<1>2. ASSUME NEW uu \in S, NEW s \in Seq(X) PROVE Append(uu, s) \in S
  <2>1. uu \in Seq(Seq(X)) /\ Append(uu, s) \in Seq(Seq(X)) /\ FlattenSeq(uu) \in Seq(X)
    BY AppendProperties, FlattenType
  <2>2. Range(FlattenSeq(Append(uu, s))) = Range(FlattenSeq(uu)) \cup Range(s)
    <3>1. FlattenSeq(Append(uu, s)) = FlattenSeq(uu) \o s
      BY <2>1, FlattenAppend
    <3>2. Range(FlattenSeq(uu) \o s) = Range(FlattenSeq(uu)) \cup Range(s)
      BY <2>1, RangeConcatenation
    <3> QED
      BY <3>1, <3>2, Zenon
  <2>3. Range(Append(uu, s)) = Range(uu) \cup {s}
    BY <2>1, RangeOfAppend
  <2>4. Range(FlattenSeq(uu)) = UNION {Range(t) : t \in Range(uu)}
    BY <1>2
  <2>5. Range(FlattenSeq(Append(uu, s))) = UNION {Range(t) : t \in Range(Append(uu, s))}
    BY <2>2, <2>3, <2>4
  <2> QED
    BY <2>1, <2>5
<1>3. S = Seq(Seq(X))
  <2>1. S \in SUBSET Seq(Seq(X))
    OBVIOUS
  <2> HIDE DEF S
  <2> QED
    BY <1>1, <1>2, <2>1, SequenceInduction
<1> QED
  BY <1>3

(* What a function makes of the elements of a sequence, joined.              *)
FlatMap(s, f) == FlattenSeq([i \in DOMAIN s |-> f[s[i]]])

LEMMA MappedSequence ==
  ASSUME NEW X, NEW Y, NEW f \in [X -> Y], NEW s \in Seq(X)
  PROVE  [i \in DOMAIN s |-> f[s[i]]] \in Seq(Y)
<1>1. Len(s) \in Nat /\ DOMAIN s = 1 .. Len(s) /\ \A i \in 1 .. Len(s) : f[s[i]] \in Y
  BY LenProperties, ElementOfSeq
<1>2. [i \in 1 .. Len(s) |-> f[s[i]]] \in [1 .. Len(s) -> Y]
  BY <1>1
<1> QED
  BY <1>1, <1>2, SeqDef

LEMMA MappedAppend ==
  ASSUME NEW X, NEW Y, NEW f \in [X -> Y], NEW s \in Seq(X), NEW x \in X
  PROVE  [i \in DOMAIN Append(s, x) |-> f[Append(s, x)[i]]] = Append([i \in DOMAIN s |-> f[s[i]]], f[x])
<1> DEFINE t == Append(s, x)
           u == [i \in DOMAIN s |-> f[s[i]]]
           v == [i \in DOMAIN t |-> f[t[i]]]
<1>1. t \in Seq(X) /\ Len(t) = Len(s) + 1 /\ t[Len(s) + 1] = x /\ \A i \in 1 .. Len(s) : t[i] = s[i]
  BY AppendProperties
<1>2. /\ Len(s) \in Nat /\ DOMAIN s = 1 .. Len(s)
      /\ DOMAIN t = 1 .. Len(s) + 1
  <2> HIDE DEF t
  <2> QED
    BY <1>1, LenProperties
<1>3. u \in Seq(Y) /\ v \in Seq(Y)
  <2> HIDE DEF t
  <2> QED
    BY <1>1, MappedSequence
<1>4. Len(u) = Len(s) /\ Len(v) = Len(s) + 1
  <2>1. DOMAIN u = 1 .. Len(s) /\ DOMAIN v = 1 .. Len(s) + 1
    BY <1>2
  <2>2. DOMAIN u = 1 .. Len(u) /\ DOMAIN v = 1 .. Len(v) /\ Len(u) \in Nat /\ Len(v) \in Nat
    <3> HIDE DEF u, v
    <3> QED
      BY <1>3, LenProperties
  <2> HIDE DEF u, v, t
  <2> QED
    BY <1>2, <2>1, <2>2
<1>5. f[x] \in Y
  OBVIOUS
<1>6. /\ Append(u, f[x]) \in Seq(Y) /\ Len(Append(u, f[x])) = Len(s) + 1
      /\ Append(u, f[x])[Len(s) + 1] = f[x]
      /\ \A i \in 1 .. Len(s) : Append(u, f[x])[i] = u[i]
  <2> HIDE DEF u, v, t
  <2> QED
    BY <1>3, <1>4, <1>5, AppendProperties
<1>7. ASSUME NEW i \in 1 .. Len(v) PROVE v[i] = Append(u, f[x])[i]
  <2>1. CASE i = Len(s) + 1
    <3>1. v[i] = f[x]
      <4> HIDE DEF t
      <4> QED
        BY <1>1, <1>2, <2>1
    <3> QED
      BY <1>6, <2>1, <3>1
  <2>2. CASE i \in 1 .. Len(s)
    <3>1. v[i] = f[s[i]] /\ u[i] = f[s[i]]
      <4> HIDE DEF t
      <4> QED
        BY <1>1, <1>2, <2>2
    <3> QED
      BY <1>6, <2>2, <3>1
  <2> QED
    BY <1>2, <1>4, <2>1, <2>2
<1> HIDE DEF u, v, t
<1>8. v = Append(u, f[x])
  BY <1>3, <1>4, <1>6, <1>7, SeqEqual
<1> QED
  BY <1>8 DEF u, v, t

LEMMA FlatMapType ==
  ASSUME NEW X, NEW Y, NEW f \in [X -> Seq(Y)], NEW s \in Seq(X)
  PROVE  FlatMap(s, f) \in Seq(Y)
<1> DEFINE u == [i \in DOMAIN s |-> f[s[i]]]
<1>1. u \in Seq(Seq(Y))
  BY MappedSequence
<1> HIDE DEF u
<1>2. FlattenSeq(u) \in Seq(Y)
  BY <1>1, FlattenType
<1> QED
  BY <1>2 DEF FlatMap, u

LEMMA FlatMapEmpty == ASSUME NEW f PROVE FlatMap(<< >>, f) = << >>
<1>1. [i \in DOMAIN << >> |-> f[<< >>[i]]] = << >>
  OBVIOUS
<1> QED
  BY <1>1, FlattenEmpty DEF FlatMap

LEMMA FlatMapAppend ==
  ASSUME NEW X, NEW Y, NEW f \in [X -> Seq(Y)], NEW s \in Seq(X), NEW x \in X
  PROVE  FlatMap(Append(s, x), f) = FlatMap(s, f) \o f[x]
<1> DEFINE u == [i \in DOMAIN s |-> f[s[i]]]
<1>1. u \in Seq(Seq(Y))
  BY MappedSequence
<1>2. [i \in DOMAIN Append(s, x) |-> f[Append(s, x)[i]]] = Append(u, f[x])
  BY MappedAppend
<1>3. f[x] \in Seq(Y)
  OBVIOUS
<1> HIDE DEF u
<1>4. FlattenSeq(Append(u, f[x])) = FlattenSeq(u) \o f[x]
  BY <1>1, <1>3, FlattenAppend
<1> QED
  BY <1>2, <1>4, Zenon DEF FlatMap, u

LEMMA FlatMapConcat ==
  ASSUME NEW X, NEW Y, NEW f \in [X -> Seq(Y)], NEW s \in Seq(X), NEW t \in Seq(X)
  PROVE  FlatMap(s \o t, f) = FlatMap(s, f) \o FlatMap(t, f)
<1> DEFINE S == {u \in Seq(X) : FlatMap(s \o u, f) = FlatMap(s, f) \o FlatMap(u, f)}
<1>1. << >> \in S
  <2>1. FlatMap(s, f) \in Seq(Y) /\ << >> \in Seq(X)
    BY FlatMapType, EmptySeq
  <2>2. s \o << >> = s /\ FlatMap(s, f) \o << >> = FlatMap(s, f)
    BY <2>1, ConcatEmptySeq
  <2> QED
    BY <2>1, <2>2, FlatMapEmpty
<1>2. ASSUME NEW u \in S, NEW x \in X PROVE Append(u, x) \in S
  <2>1. u \in Seq(X) /\ s \o u \in Seq(X) /\ Append(u, x) \in Seq(X) /\ f[x] \in Seq(Y) /\ <<x>> \in Seq(X)
    BY AppendProperties, ConcatProperties
  <2>2. s \o Append(u, x) = Append(s \o u, x)
    <3>1. Append(u, x) = u \o <<x>> /\ Append(s \o u, x) = (s \o u) \o <<x>>
      BY <2>1, AppendIsConcat
    <3> QED
      BY <2>1, <3>1, ConcatAssociative
  <2>3. FlatMap(Append(s \o u, x), f) = FlatMap(s \o u, f) \o f[x]
    BY <2>1, FlatMapAppend
  <2>4. FlatMap(Append(u, x), f) = FlatMap(u, f) \o f[x]
    BY <2>1, FlatMapAppend
  <2>5. FlatMap(s, f) \in Seq(Y) /\ FlatMap(u, f) \in Seq(Y)
    BY <2>1, FlatMapType
  <2>6. (FlatMap(s, f) \o FlatMap(u, f)) \o f[x] = FlatMap(s, f) \o (FlatMap(u, f) \o f[x])
    BY <2>1, <2>5, ConcatAssociative, SMTT(30)
  <2>7. FlatMap(s \o u, f) = FlatMap(s, f) \o FlatMap(u, f)
    BY <1>2
  <2>8. FlatMap(s \o Append(u, x), f) = FlatMap(s, f) \o FlatMap(Append(u, x), f)
    BY <2>2, <2>3, <2>4, <2>6, <2>7, Zenon
  <2> QED
    BY <2>1, <2>8
<1>3. S = Seq(X)
  <2>1. S \in SUBSET Seq(X)
    OBVIOUS
  <2> HIDE DEF S
  <2> QED
    BY <1>1, <1>2, <2>1, SequenceInduction
<1> QED
  BY <1>3

LEMMA FlatMapOne ==
  ASSUME NEW X, NEW Y, NEW f \in [X -> Seq(Y)], NEW x \in X
  PROVE  FlatMap(<<x>>, f) = f[x]
<1>1. <<x>> = Append(<< >>, x) /\ << >> \in Seq(X) /\ f[x] \in Seq(Y)
  BY EmptySeq
<1>2. FlatMap(Append(<< >>, x), f) = FlatMap(<< >>, f) \o f[x]
  BY <1>1, FlatMapAppend
<1>3. << >> \o f[x] = f[x]
  BY <1>1, ConcatEmptySeq
<1> QED
  BY <1>1, <1>2, <1>3, FlatMapEmpty, Zenon

(* Where it makes each element of itself alone, nothing changes.             *)
LEMMA FlatMapSame ==
  ASSUME NEW X, NEW f \in [X -> Seq(X)], \A x \in X : f[x] = <<x>>, NEW s \in Seq(X)
  PROVE  FlatMap(s, f) = s
<1> DEFINE S == {u \in Seq(X) : FlatMap(u, f) = u}
<1>1. << >> \in S
  BY FlatMapEmpty, EmptySeq
<1>2. ASSUME NEW u \in S, NEW x \in X PROVE Append(u, x) \in S
  <2>1. u \in Seq(X) /\ FlatMap(u, f) = u /\ Append(u, x) \in Seq(X)
    BY AppendProperties
  <2>2. FlatMap(Append(u, x), f) = FlatMap(u, f) \o f[x]
    BY <2>1, FlatMapAppend
  <2>3. Append(u, x) = u \o <<x>>
    BY <2>1, AppendIsConcat
  <2>4. FlatMap(Append(u, x), f) = Append(u, x)
    BY <2>1, <2>2, <2>3, Zenon
  <2> QED
    BY <2>1, <2>4
<1>3. S = Seq(X)
  <2>1. S \in SUBSET Seq(X)
    OBVIOUS
  <2> HIDE DEF S
  <2> QED
    BY <1>1, <1>2, <2>1, SequenceInduction
<1> QED
  BY <1>3

(* Its elements are those of what the elements are made of.                  *)
LEMMA FlatMapRange ==
  ASSUME NEW X, NEW Y, NEW f \in [X -> Seq(Y)], NEW s \in Seq(X)
  PROVE  Range(FlatMap(s, f)) = UNION {Range(f[x]) : x \in Range(s)}
<1> DEFINE u == [i \in DOMAIN s |-> f[s[i]]]
<1>1. u \in Seq(Seq(Y))
  BY MappedSequence
<1>2. Range(u) = {f[x] : x \in Range(s)}
  BY DEF Range
<1> HIDE DEF u
<1>3. Range(FlattenSeq(u)) = UNION {Range(t) : t \in Range(u)}
  BY <1>1, FlattenRange
<1>4. UNION {Range(t) : t \in Range(u)} = UNION {Range(f[x]) : x \in Range(s)}
  BY <1>2
<1> QED
  BY <1>3, <1>4 DEF FlatMap, u

(* A sequence of numbers has a bound.                                        *)
LEMMA NumbersAreBounded ==
  ASSUME NEW s \in Seq(Nat)
  PROVE  \E m \in Nat : \A n \in Range(s) : n <= m
<1> DEFINE S == {u \in Seq(Nat) : \E m \in Nat : \A n \in Range(u) : n <= m}
<1>1. << >> \in S
  BY RangeOfEmpty, EmptySeq
<1>2. ASSUME NEW u \in S, NEW x \in Nat PROVE Append(u, x) \in S
  <2>1. u \in Seq(Nat) /\ Append(u, x) \in Seq(Nat) /\ Range(Append(u, x)) = Range(u) \cup {x}
    BY AppendProperties, RangeOfAppend
  <2>2. PICK m \in Nat : \A n \in Range(u) : n <= m
    BY <1>2
  <2>3. Range(u) \subseteq Nat
    BY <2>1, RangeEquality, ElementOfSeq
  <2>4. PICK k \in Nat : m <= k /\ x <= k
    <3>1. CASE m <= x
      BY <3>1
    <3>2. CASE ~ (m <= x)
      BY <3>2
    <3> QED
      BY <3>1, <3>2
  <2>5. \A n \in Range(Append(u, x)) : n <= k
    BY <2>1, <2>2, <2>3, <2>4
  <2> QED
    BY <2>1, <2>5
<1>3. S = Seq(Nat)
  <2>1. S \in SUBSET Seq(Nat)
    OBVIOUS
  <2> HIDE DEF S
  <2> QED
    BY <1>1, <1>2, <2>1, SequenceInduction
<1> QED
  BY <1>3

LEMMA Largest ==
  ASSUME NEW T \in SUBSET Nat, T # {}, NEW m \in Nat, \A n \in T : n <= m
  PROVE  Max(T) \in T
<1> DEFINE Bounds == {k \in Nat : \A n \in T : n <= k}
<1>1. PICK k \in Bounds : \A i \in Bounds : k <= i
  <2>1. Bounds \in SUBSET Nat /\ Bounds # {}
    OBVIOUS
  <2> HIDE DEF Bounds
  <2> QED
    BY <2>1, Smallest
<1>2. k \in T
  <2> SUFFICES ASSUME k \notin T PROVE FALSE
    OBVIOUS
  <2>1. \A n \in T : n <= k - 1
    BY <1>1
  <2>2. k - 1 \in Bounds
    <3>1. PICK n \in T : n <= k - 1
      BY <2>1
    <3>2. k - 1 \in Nat
      BY <1>1, <3>1
    <3> QED
      BY <2>1, <3>2
  <2> QED
    BY <1>1, <2>2
<1>3. \A n \in T : k >= n
  BY <1>1
<1> QED
  BY <1>2, <1>3 DEF Max

-----------------------------------------------------------------------------
(* Choosing among the elements of a sequence.                                *)

Chosen(X, S) == [x \in X |-> IF x \in S THEN <<x>> ELSE << >>]

LEMMA ChosenType == ASSUME NEW X, NEW S PROVE Chosen(X, S) \in [X -> Seq(X \cap S)]
<1>1. \A x \in X : (IF x \in S THEN <<x>> ELSE << >>) \in Seq(X \cap S)
  <2>1. << >> \in Seq(X \cap S)
    BY EmptySeq
  <2>2. ASSUME NEW x \in X, x \in S PROVE <<x>> \in Seq(X \cap S)
    BY <2>2
  <2> QED
    BY <2>1, <2>2
<1> QED
  BY <1>1 DEF Chosen

LEMMA AmongMap ==
  ASSUME NEW X, NEW S, NEW s \in Seq(X)
  PROVE  Among(s, S) = FlatMap(s, Chosen(X, S))
<1>1. \A i \in DOMAIN s : Chosen(X, S)[s[i]] = IF s[i] \in S THEN <<s[i]>> ELSE << >>
  BY LenProperties, ElementOfSeq DEF Chosen
<1>2. [i \in DOMAIN s |-> Chosen(X, S)[s[i]]] = [i \in DOMAIN s |-> IF s[i] \in S THEN <<s[i]>> ELSE << >>]
  BY <1>1
<1> QED
  BY <1>2 DEF FlatMap, Among

LEMMA AmongType ==
  ASSUME NEW X, NEW S, NEW s \in Seq(X)
  PROVE  Among(s, S) \in Seq(X \cap S) /\ Among(s, S) \in Seq(X)
<1>1. FlatMap(s, Chosen(X, S)) \in Seq(X \cap S)
  BY ChosenType, FlatMapType
<1>2. Among(s, S) \in Seq(X \cap S)
  BY <1>1, AmongMap
<1> QED
  BY <1>2, SeqMonotonic

LEMMA AmongRange ==
  ASSUME NEW X, NEW S, NEW s \in Seq(X)
  PROVE  Range(Among(s, S)) = Range(s) \cap S
<1>1. Range(FlatMap(s, Chosen(X, S))) = UNION {Range(Chosen(X, S)[x]) : x \in Range(s)}
  <2>1. Chosen(X, S) \in [X -> Seq(X \cap S)]
    BY ChosenType
  <2> QED
    BY <2>1, FlatMapRange
<1>2. Range(s) \subseteq X
  BY LenProperties, ElementOfSeq DEF Range
<1>3. \A x \in X : Range(Chosen(X, S)[x]) = {x} \cap S
  <2>1. ASSUME NEW x \in X, x \in S PROVE Range(Chosen(X, S)[x]) = {x}
    <3>1. Chosen(X, S)[x] = <<x>>
      BY <2>1 DEF Chosen
    <3>2. Range(<<x>>) = {x}
      BY DEF Range
    <3> QED
      BY <3>1, <3>2
  <2>2. ASSUME NEW x \in X, x \notin S PROVE Range(Chosen(X, S)[x]) = {}
    <3>1. Chosen(X, S)[x] = << >>
      BY <2>2 DEF Chosen
    <3> QED
      BY <3>1, RangeOfEmpty
  <2> QED
    BY <2>1, <2>2
<1> QED
  BY <1>1, <1>2, <1>3, AmongMap

LEMMA AmongAll ==
  ASSUME NEW X, NEW S, NEW s \in Seq(X), Range(s) \subseteq S
  PROVE  Among(s, S) = s
<1> DEFINE Y == X \cap S
           f == Chosen(Y, S)
<1>1. s \in Seq(Y)
  <2>1. Len(s) \in Nat /\ s \in [1 .. Len(s) -> X] /\ DOMAIN s = 1 .. Len(s)
    BY LenProperties
  <2>2. \A i \in 1 .. Len(s) : s[i] \in Y
    BY <2>1 DEF Range
  <2>3. s \in [1 .. Len(s) -> Y]
    BY <2>1, <2>2
  <2> HIDE DEF Y
  <2> QED
    BY <2>1, <2>3, SeqDef
<1>2. f \in [Y -> Seq(Y)] /\ \A x \in Y : f[x] = <<x>>
  BY DEF Chosen
<1>3. Among(s, S) = FlatMap(s, f)
  <2> HIDE DEF Y
  <2> QED
    BY <1>1, AmongMap
<1> HIDE DEF f, Y
<1> QED
  BY <1>1, <1>2, <1>3, FlatMapSame

LEMMA AmongConcat ==
  ASSUME NEW X, NEW S, NEW s \in Seq(X), NEW t \in Seq(X)
  PROVE  Among(s \o t, S) = Among(s, S) \o Among(t, S)
<1>1. s \o t \in Seq(X)
  BY ConcatProperties
<1>2. FlatMap(s \o t, Chosen(X, S)) = FlatMap(s, Chosen(X, S)) \o FlatMap(t, Chosen(X, S))
  <2>1. Chosen(X, S) \in [X -> Seq(X \cap S)]
    BY ChosenType
  <2> QED
    BY <2>1, FlatMapConcat, ZenonT(30)
<1> QED
  BY <1>1, <1>2, AmongMap

LEMMA AmongOne ==
  ASSUME NEW x, NEW S PROVE Among(<<x>>, S) = IF x \in S THEN <<x>> ELSE << >>
<1>1. <<x>> \in Seq({x}) /\ x \in {x}
  OBVIOUS
<1>2. FlatMap(<<x>>, Chosen({x}, S)) = Chosen({x}, S)[x]
  BY <1>1, ChosenType, FlatMapOne, ZenonT(30)
<1>3. Chosen({x}, S)[x] = IF x \in S THEN <<x>> ELSE << >>
  BY DEF Chosen
<1> QED
  BY <1>1, <1>2, <1>3, AmongMap

LEMMA AmongSame ==
  ASSUME NEW X, NEW S, NEW T, NEW s \in Seq(X), Range(s) \cap S = Range(s) \cap T
  PROVE  Among(s, S) = Among(s, T)
<1>1. \A i \in DOMAIN s : s[i] \in S <=> s[i] \in T
  BY DEF Range
<1>2. [i \in DOMAIN s |-> IF s[i] \in S THEN <<s[i]>> ELSE << >>]
        = [i \in DOMAIN s |-> IF s[i] \in T THEN <<s[i]>> ELSE << >>]
  BY <1>1
<1> QED
  BY <1>2 DEF Among

LEMMA AmongEmpty == ASSUME NEW S PROVE Among(<< >>, S) = << >>
<1>1. << >> \in Seq({})
  BY EmptySeq
<1>2. Among(<< >>, S) = FlatMap(<< >>, Chosen({}, S))
  BY <1>1, AmongMap
<1>3. FlatMap(<< >>, Chosen({}, S)) = << >>
  BY FlatMapEmpty
<1> QED
  BY <1>2, <1>3

(* What occurs once is chosen once.                                          *)
LEMMA AmongOnce ==
  ASSUME NEW X, NEW s \in Seq(X), IsInjective(s), NEW S
  PROVE  /\ Range(s) \cap S = {} => Among(s, S) = << >>
         /\ \A x : Range(s) \cap S = {x} => Among(s, S) = <<x>>
<1> DEFINE Once(u) == \A T : /\ Range(u) \cap T = {} => Among(u, T) = << >>
                            /\ \A x : Range(u) \cap T = {x} => Among(u, T) = <<x>>
           I == {u \in Seq(X) : IsInjective(u) => Once(u)}
<1>1. << >> \in I
  BY EmptySeq, AmongEmpty, RangeOfEmpty
<1>2. ASSUME NEW u \in I, NEW y \in X PROVE Append(u, y) \in I
  <2>1. u \in Seq(X) /\ Append(u, y) \in Seq(X) /\ Append(u, y) = u \o <<y>> /\ <<y>> \in Seq(X)
    BY AppendProperties, AppendIsConcat
  <2> SUFFICES ASSUME IsInjective(Append(u, y)) PROVE Once(Append(u, y))
    BY <2>1
  <2>2. /\ Len(u) \in Nat /\ DOMAIN u = 1 .. Len(u)
        /\ Len(Append(u, y)) = Len(u) + 1 /\ DOMAIN Append(u, y) = 1 .. Len(u) + 1
        /\ Append(u, y)[Len(u) + 1] = y /\ \A i \in 1 .. Len(u) : Append(u, y)[i] = u[i]
    BY <2>1, AppendProperties, LenProperties
  <2>3. IsInjective(u) /\ y \notin Range(u)
    BY <2>2 DEF IsInjective, Range
  <2>4. Once(u)
    BY <2>3
  <2> HIDE DEF Once
  <2> SUFFICES ASSUME NEW T
               PROVE  /\ Range(Append(u, y)) \cap T = {} => Among(Append(u, y), T) = << >>
                      /\ \A x : Range(Append(u, y)) \cap T = {x} => Among(Append(u, y), T) = <<x>>
    BY DEF Once
  <2> HIDE DEF I
  <2>5. Range(Append(u, y)) = Range(u) \cup {y}
    <3>1. u \in Seq(X) /\ y \in X
      BY <2>1
    <3> QED
      BY ONLY <3>1, RangeOfAppend
  <2>6. Among(Append(u, y), T) = Among(u, T) \o Among(<<y>>, T)
    BY <2>1, AmongConcat
  <2>7. Among(<<y>>, T) = IF y \in T THEN <<y>> ELSE << >>
    BY AmongOne
  <2>8. /\ Range(u) \cap T = {} => Among(u, T) = << >>
        /\ \A x : Range(u) \cap T = {x} => Among(u, T) = <<x>>
    BY <2>4 DEF Once
  <2>9. CASE y \in T
    <3>1. Among(<<y>>, T) = <<y>> /\ Range(u) \cap T = {} => Among(Append(u, y), T) = <<y>>
      BY <2>1, <2>6, <2>8, ConcatEmptySeq
    <3>2. ASSUME NEW x, Range(Append(u, y)) \cap T = {x} PROVE x = y /\ Range(u) \cap T = {}
      BY <2>3, <2>5, <2>9, <3>2
    <3> QED
      BY <2>5, <2>7, <2>9, <3>1, <3>2
  <2>10. CASE y \notin T
    <3>1. Among(u, T) \in Seq(X)
      BY <2>1, AmongType
    <3>2. Among(Append(u, y), T) = Among(u, T)
      BY <2>6, <2>7, <2>10, <3>1, ConcatEmptySeq
    <3> QED
      BY <2>5, <2>8, <2>10, <3>2
  <2> QED
    BY <2>9, <2>10
<1>3. I = Seq(X)
  <2>1. I \in SUBSET Seq(X)
    OBVIOUS
  <2> HIDE DEF I
  <2> QED
    BY <1>1, <1>2, <2>1, SequenceInduction
<1>4. Once(s)
  BY <1>3
<1> QED
  BY <1>4

-----------------------------------------------------------------------------
(* A finite set of numbers, in order.                                        *)

Rising(s) == \A i \in DOMAIN s : \A j \in 1 .. i - 1 : s[j] < s[i]

LEMMA AscendingExists ==
  ASSUME NEW n \in Nat, NEW S \in SUBSET Nat, IsFiniteSet(S), Cardinality(S) = n
  PROVE  \E s \in [1 .. n -> S] : Rising(s)
<1> DEFINE All(k) == \A T \in SUBSET Nat : IsFiniteSet(T) /\ Cardinality(T) = k =>
                        \E s \in [1 .. k -> T] : Rising(s)
           I == {k \in Nat : All(k)}
<1>1. 0 \in I
  <2> SUFFICES ASSUME NEW T \in SUBSET Nat, IsFiniteSet(T), Cardinality(T) = 0
               PROVE  \E s \in [1 .. 0 -> T] : Rising(s)
    OBVIOUS
  <2>1. [i \in 1 .. 0 |-> 0] \in [1 .. 0 -> T] /\ Rising([i \in 1 .. 0 |-> 0])
    BY DEF Rising
  <2> QED
    BY <2>1
<1>2. ASSUME NEW k \in I PROVE k + 1 \in I
  <2> SUFFICES ASSUME NEW T \in SUBSET Nat, IsFiniteSet(T), Cardinality(T) = k + 1
               PROVE  \E s \in [1 .. k + 1 -> T] : Rising(s)
    OBVIOUS
  <2>1. T # {}
    BY FS_EmptySet
  <2>2. PICK m \in T : \A t \in T : m <= t
    BY <2>1, Smallest
  <2>3. IsFiniteSet(T \ {m}) /\ Cardinality(T \ {m}) = k
    BY FS_RemoveElement
  <2>4. PICK s \in [1 .. k -> T \ {m}] : Rising(s)
    BY <2>3
  <2> DEFINE r == [i \in 1 .. k + 1 |-> IF i = 1 THEN m ELSE s[i - 1]]
  <2>5. \A i \in 2 .. k + 1 : i - 1 \in 1 .. k /\ s[i - 1] \in T /\ s[i - 1] # m
    BY <2>4
  <2>6. r \in [1 .. k + 1 -> T]
    BY <2>5
  <2>7. ASSUME NEW i \in 1 .. k + 1, NEW j \in 1 .. i - 1 PROVE r[j] < r[i]
    <3>1. i \in 2 .. k + 1 /\ j \in 1 .. k + 1 /\ r[i] = s[i - 1]
      OBVIOUS
    <3>2. CASE j = 1
      <4>1. r[j] = m /\ r[i] # m /\ r[i] \in T
        BY <2>5, <3>1, <3>2
      <4>2. m \in Nat /\ r[i] \in Nat
        BY <4>1
      <4> HIDE DEF r
      <4>3. m <= r[i]
        BY <2>2, <4>1
      <4> QED
        BY <4>1, <4>2, <4>3
    <3>3. CASE j # 1
      <4>1. r[j] = s[j - 1] /\ j - 1 \in 1 .. (i - 1) - 1 /\ i - 1 \in 1 .. k
        BY <3>1, <3>3
      <4>2. s[j - 1] < s[i - 1]
        BY <2>4, <4>1 DEF Rising
      <4> QED
        BY <3>1, <4>1, <4>2
    <3> QED
      BY <3>2, <3>3
  <2>8. Rising(r)
    <3> HIDE DEF r
    <3> QED
      BY <2>6, <2>7 DEF Rising
  <2> QED
    BY <2>6, <2>8
<1>3. n \in I
  <2>1. I \in SUBSET Nat
    OBVIOUS
  <2> HIDE DEF I
  <2>2. 0 .. n \subseteq I
    BY <1>1, <1>2, <2>1, Induction
  <2> QED
    BY <2>2
<1> QED
  BY <1>3

LEMMA AscendingOrder ==
  ASSUME NEW S \in SUBSET Nat, IsFiniteSet(S)
  PROVE  /\ Ascending(S) \in Seq(Nat) /\ Ascending(S) \in Seq(S)
         /\ IsInjective(Ascending(S))
         /\ Range(Ascending(S)) = S
<1> DEFINE n == Cardinality(S)
           s == Ascending(S)
<1>1. n \in Nat
  BY FS_CardinalityType
<1>2. \E t \in [1 .. n -> S] : Rising(t)
  BY <1>1, AscendingExists
<1>3. s \in [1 .. n -> S] /\ Rising(s)
  BY <1>2 DEF Ascending, Rising
<1> HIDE DEF s
<1>4. s \in Seq(S) /\ s \in Seq(Nat)
  <2>1. s \in [1 .. n -> Nat]
    BY <1>3
  <2> HIDE DEF n
  <2> QED
    BY <1>1, <1>3, <2>1, SeqDef
<1>5. ASSUME NEW i \in 1 .. n, NEW j \in 1 .. n, s[i] = s[j] PROVE i = j
  <2>1. s[i] \in Nat /\ s[j] \in Nat
    BY <1>3
  <2>2. i < j => s[i] < s[j]
    BY <1>1, <1>3 DEF Rising
  <2>3. j < i => s[j] < s[i]
    BY <1>1, <1>3 DEF Rising
  <2> QED
    BY <1>1, <1>5, <2>1, <2>2, <2>3
<1>6. IsInjective(s)
  BY <1>3, <1>5 DEF IsInjective
<1>7. s \in Injection(1 .. n, S)
  BY <1>3, <1>6 DEF Injection
<1>8. s \in Surjection(1 .. n, S)
  <2>1. Cardinality(1 .. n) = n
    BY <1>1, FS_Interval
  <2> QED
    BY <1>7, <2>1, FS_Injection
<1>9. Range(s) = S
  BY <1>3, <1>8 DEF Surjection, Range
<1> QED
  BY <1>4, <1>6, <1>9 DEF s
=============================================================================
