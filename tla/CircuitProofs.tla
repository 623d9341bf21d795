---------------------------- MODULE CircuitProofs ----------------------------
(* Theorems about the circuits of X gates, for registers of every length and *)
(* every input: additions, subtractions (with an ancilla and without),       *)
(* multiplications, comparisons, swaps, equality checks and, of the decoder, *)
(* InitRepeatFlag, QPrime and UPrime, with controls and without, leave what  *)
(* they are named for and every other qubit as it was, by gates that are     *)
(* legal; and adders and comparators that are passed registers they cannot   *)
(* use append nothing.                                                       *)
(*                                                                           *)
(* A circuit of X gates takes the set of the qubits that are 1 along a path  *)
(* (Act, Path, After). A ripple adder is followed wire by wire               *)
(* (RippleWorks); a number is what is left of it digit by digit (IsTail,     *)
(* IsHalved), and the carries are what relates the digits of a sum to those  *)
(* of its parts (SumHalved), the borrows those of a difference               *)
(* (DifferenceHalved). Two registers hold the same number if and only if     *)
(* they hold the same digits (SameDigits), which is what a ladder of         *)
(* ancillas finds out (MultiControlledRuns).                                 *)
EXTENDS CircuitContracts, InductionFacts

Qubits == Int

(* X gates on the qubits of T, with controls in U.                           *)
GatesOn(T, U) ==
  {g \in [name : {"X"}, target : T, controls : SUBSET U] : g.target \notin g.controls}

(* What gates make of the set of the qubits that are 1.                      *)
Act(g, S) == IF g.controls \subseteq S THEN Toggle(S, g.target) ELSE S
IsPath(f, c, S) == f = [i \in 0 .. Len(c) |-> IF i = 0 THEN S ELSE Act(c[i], f[i - 1])]
Path(c, S) == CHOOSE f : IsPath(f, c, S)
After(c, S) == Path(c, S)[Len(c)]

LEMMA ActType ==
  ASSUME NEW S \in SUBSET Qubits, NEW g \in GatesOn(Qubits, Qubits)
  PROVE  Act(g, S) \in SUBSET Qubits
BY DEF Act, Toggle, GatesOn

LEMMA PathSteps ==
  ASSUME NEW c \in Seq(GatesOn(Qubits, Qubits)), NEW S \in SUBSET Qubits
  PROVE  /\ Path(c, S) \in [0 .. Len(c) -> SUBSET Qubits]
         /\ Path(c, S)[0] = S
         /\ \A i \in 1 .. Len(c) : Path(c, S)[i] = Act(c[i], Path(c, S)[i - 1])
<1> DEFINE n == Len(c)
<1> DEFINE step == [q \in (SUBSET Qubits) \X (1 .. n) |-> Act(c[q[2]], q[1])]
<1>1. n \in Nat /\ \A i \in 1 .. n : c[i] \in GatesOn(Qubits, Qubits)
  BY LenProperties, ElementOfSeq
<1>2. step \in [(SUBSET Qubits) \X (1 .. n) -> SUBSET Qubits]
  <2>1. \A q \in (SUBSET Qubits) \X (1 .. n) : Act(c[q[2]], q[1]) \in SUBSET Qubits
    BY <1>1, ActType
  <2> QED BY <2>1
<1>3. PICK f \in [0 .. n -> SUBSET Qubits] : Recursion(f, n, S, step)
  <2> HIDE DEF step, n
  <2> QED BY <1>1, <1>2, RecursionOverInterval
<1>4. f[0] = S /\ \A i \in 1 .. n : f[i] = Act(c[i], f[i - 1])
  <2>1. \A i \in 1 .. n : f[i - 1] \in SUBSET Qubits
    BY <1>1
  <2>2. \A i \in 1 .. n : step[<<f[i - 1], i>>] = Act(c[i], f[i - 1])
    BY <2>1
  <2> HIDE DEF step
  <2> QED BY <1>3, <2>2 DEF Recursion
<1>5. IsPath(f, c, S)
  <2>1. \A i \in 0 .. n : f[i] = IF i = 0 THEN S ELSE Act(c[i], f[i - 1])
    BY <1>1, <1>4
  <2> QED BY <2>1 DEF IsPath
<1>6. IsPath(Path(c, S), c, S)
  BY <1>5 DEF Path
<1> DEFINE p == Path(c, S)
<1>7. p = [i \in 0 .. n |-> IF i = 0 THEN S ELSE Act(c[i], p[i - 1])]
  BY <1>6 DEF IsPath
<1> HIDE DEF p
<1>8. p[0] = S /\ \A i \in 1 .. n : p[i] = Act(c[i], p[i - 1])
  BY <1>1, <1>7
<1>9. GoOnAlike(p, f, n)
  BY <1>4, <1>8 DEF GoOnAlike
<1>10. \A i \in 0 .. n : p[i] = f[i]
  BY <1>1, <1>9, SameRecursion
<1>11. p \in [0 .. n -> SUBSET Qubits]
  <2>1. p = [i \in 0 .. n |-> p[i]]
    BY <1>7
  <2> QED BY <2>1, <1>10
<1> QED BY <1>8, <1>11 DEF p

LEMMA AfterType ==
  ASSUME NEW c \in Seq(GatesOn(Qubits, Qubits)), NEW S \in SUBSET Qubits
  PROVE  After(c, S) \in SUBSET Qubits
<1>1. Len(c) \in 0 .. Len(c)
  BY LenProperties
<1> QED BY <1>1, PathSteps DEF After

LEMMA AfterEmpty == ASSUME NEW S \in SUBSET Qubits PROVE After(<<>>, S) = S
<1>1. <<>> \in Seq(GatesOn(Qubits, Qubits)) /\ Len(<<>>) = 0
  BY EmptySeq
<1> QED BY <1>1, PathSteps DEF After

LEMMA AfterAppend ==
  ASSUME NEW c \in Seq(GatesOn(Qubits, Qubits)), NEW g \in GatesOn(Qubits, Qubits), NEW S \in SUBSET Qubits
  PROVE  After(Append(c, g), S) = Act(g, After(c, S))
<1> DEFINE n == Len(c)
           d == Append(c, g)
           p == Path(c, S)
           q == Path(d, S)
<1>1. n \in Nat /\ d \in Seq(GatesOn(Qubits, Qubits)) /\ Len(d) = n + 1 /\ d[n + 1] = g
      /\ \A i \in 1 .. n : d[i] = c[i]
  BY AppendProperties, LenProperties
<1> HIDE DEF d
<1>2. p[0] = S /\ \A i \in 1 .. n : p[i] = Act(c[i], p[i - 1])
  BY PathSteps
<1>3. q[0] = S /\ \A i \in 1 .. n + 1 : q[i] = Act(d[i], q[i - 1])
  BY <1>1, PathSteps
<1> HIDE DEF p, q, n
<1>4. GoOnAlike(p, q, n)
  BY <1>1, <1>2, <1>3 DEF GoOnAlike
<1>5. p[n] = q[n]
  BY <1>1, <1>4, SameRecursion
<1>6. q[n + 1] = Act(g, q[n])
  BY <1>1, <1>3
<1> QED BY <1>1, <1>5, <1>6 DEF After, p, q, n, d

LEMMA AfterOne ==
  ASSUME NEW g \in GatesOn(Qubits, Qubits), NEW S \in SUBSET Qubits
  PROVE  After(<<g>>, S) = Act(g, S)
<1>1. <<>> \in Seq(GatesOn(Qubits, Qubits)) /\ Append(<<>>, g) = <<g>>
  BY EmptySeq
<1>2. After(Append(<<>>, g), S) = Act(g, After(<<>>, S))
  BY <1>1, AfterAppend
<1> QED BY <1>1, <1>2, AfterEmpty

LEMMA AfterConcat ==
  ASSUME NEW c \in Seq(GatesOn(Qubits, Qubits)), NEW d \in Seq(GatesOn(Qubits, Qubits)), NEW S \in SUBSET Qubits
  PROVE  After(c \o d, S) = After(d, After(c, S))
<1> DEFINE G == GatesOn(Qubits, Qubits)
<1> DEFINE T == {e \in Seq(G) : After(c \o e, S) = After(e, After(c, S))}
<1>1. <<>> \in T
  BY ConcatEmptySeq, EmptySeq, AfterType, AfterEmpty
<1>2. ASSUME NEW e \in T, NEW g \in G PROVE Append(e, g) \in T
  <2>1. e \in Seq(G) /\ c \o e \in Seq(G) /\ Append(e, g) \in Seq(G)
    BY AppendProperties, ConcatProperties
  <2>2. c \o Append(e, g) = Append(c \o e, g)
    <3>1. Append(e, g) = e \o <<g>> /\ Append(c \o e, g) = (c \o e) \o <<g>> /\ <<g>> \in Seq(G)
      BY <2>1, AppendIsConcat
    <3> HIDE DEF G
    <3> QED BY <2>1, <3>1, ConcatAssociative
  <2>3. After(Append(c \o e, g), S) = Act(g, After(c \o e, S))
    BY <2>1, AfterAppend
  <2>4. After(Append(e, g), After(c, S)) = Act(g, After(e, After(c, S)))
    BY <2>1, AfterType, AfterAppend
  <2> QED BY <2>1, <2>2, <2>3, <2>4
<1>3. T = Seq(G)
  <2>1. T \in SUBSET Seq(G)
    OBVIOUS
  <2> HIDE DEF T, G
  <2> QED BY <1>1, <1>2, <2>1, SequenceInduction
<1> QED BY <1>3

(* A register holds no qubit twice.                                          *)
Unrepeated(r) == \A i, j \in DOMAIN r : r[i] = r[j] => i = j

LEMMA DistinctRegister ==
  ASSUME NEW r \in Seq(Qubits), Distinct(r)
  PROVE  Unrepeated(r)
<1> DEFINE n == Len(r)
<1>1. n \in Nat /\ DOMAIN r = 1 .. n /\ r \in [1 .. n -> AsSet(r)]
  <2>1. n \in Nat /\ DOMAIN r = 1 .. n /\ r \in [1 .. n -> Qubits]
    BY LenProperties
  <2> QED BY <2>1 DEF AsSet
<1>2. r \in Surjection(1 .. n, AsSet(r))
  BY <1>1 DEF Surjection, AsSet
<1>3. IsFiniteSet(1 .. n) /\ Cardinality(1 .. n) = n
  <2>1. n = 0 \/ 1 <= n
    BY <1>1
  <2>2. Cardinality(1 .. n) = IF 1 > n THEN 0 ELSE n - 1 + 1
    BY <1>1, FS_Interval
  <2> QED BY <1>1, <2>1, <2>2, FS_Interval
<1>4. Cardinality(AsSet(r)) = Cardinality(1 .. n)
  BY <1>3 DEF Distinct
<1>5. r \in Injection(1 .. n, AsSet(r))
  <2> HIDE DEF n
  <2> QED BY <1>2, <1>3, <1>4, FS_Surjection
<1>6. \A i, j \in 1 .. n : r[i] = r[j] => i = j
  BY <1>5 DEF Injection, IsInjective
<1> QED BY <1>1, <1>6 DEF Unrepeated

LEMMA RegisterType ==
  ASSUME NEW r \in Seq(Qubits)
  PROVE  /\ Len(r) \in Nat /\ DOMAIN r = 1 .. Len(r)
         /\ \A i \in 1 .. Len(r) : r[i] \in Qubits /\ r[i] \in AsSet(r)
         /\ AsSet(r) \in SUBSET Qubits
<1>1. Len(r) \in Nat /\ DOMAIN r = 1 .. Len(r) /\ \A i \in 1 .. Len(r) : r[i] \in Qubits
  BY LenProperties, ElementOfSeq
<1> QED BY <1>1 DEF AsSet

-----------------------------------------------------------------------------
(* Kinds of circuits. *)

LEMMA WiderGates ==
  ASSUME NEW T, NEW U, NEW V, NEW W, T \subseteq V, U \subseteq W
  PROVE  Seq(GatesOn(T, U)) \subseteq Seq(GatesOn(V, W))
<1>1. GatesOn(T, U) \subseteq GatesOn(V, W)
  BY DEF GatesOn
<1> QED BY <1>1, SeqMonotonic

LEMMA AnyGates ==
  ASSUME NEW T \in SUBSET Qubits, NEW U \in SUBSET Qubits
  PROVE  /\ GatesOn(T, U) \subseteq GatesOn(Qubits, Qubits)
         /\ Seq(GatesOn(T, U)) \subseteq Seq(GatesOn(Qubits, Qubits))
<1>1. GatesOn(T, U) \subseteq GatesOn(Qubits, Qubits)
  BY DEF GatesOn
<1> QED BY <1>1, SeqMonotonic

(* What holds of the circuit without gates, and of one gate more whenever it *)
(* holds, holds of every circuit.                                            *)
LEMMA CircuitInduction ==
  ASSUME NEW T, NEW U, NEW S \in SUBSET Seq(GatesOn(T, U)), <<>> \in S,
         \A c \in S, g \in GatesOn(T, U) : Append(c, g) \in S
  PROVE  S = Seq(GatesOn(T, U))
<1> DEFINE G == GatesOn(T, U)
<1>1. S \in SUBSET Seq(G) /\ <<>> \in S /\ \A c \in S, g \in G : Append(c, g) \in S
  OBVIOUS
<1> HIDE DEF G
<1>2. S = Seq(G)
  BY <1>1, SequenceInduction
<1> QED BY <1>2 DEF G

(* Qubits no gate is aimed at keep their value.                              *)
LEMMA Untouched ==
  ASSUME NEW T \in SUBSET Qubits, NEW U \in SUBSET Qubits,
         NEW c \in Seq(GatesOn(T, U)), NEW S \in SUBSET Qubits
  PROVE  After(c, S) \ T = S \ T
<1> DEFINE G == GatesOn(T, U)
           R == {d \in Seq(G) : After(d, S) \ T = S \ T}
<1>1. <<>> \in R
  BY AfterEmpty, EmptySeq
<1>2. ASSUME NEW d \in R, NEW g \in G PROVE Append(d, g) \in R
  <2>1. d \in Seq(GatesOn(Qubits, Qubits)) /\ g \in GatesOn(Qubits, Qubits) /\ Append(d, g) \in Seq(G)
    BY AnyGates, AppendProperties
  <2>2. After(Append(d, g), S) = Act(g, After(d, S))
    BY <2>1, AfterAppend
  <2>3. g.target \in T
    BY DEF GatesOn
  <2>4. Act(g, After(d, S)) \ T = After(d, S) \ T
    BY <2>3 DEF Act, Toggle
  <2> QED BY <2>1, <2>2, <2>4
<1>3. R = Seq(G)
  <2>1. R \in SUBSET Seq(G)
    OBVIOUS
  <2> HIDE DEF R
  <2> QED BY <1>1, <1>2, <2>1, CircuitInduction
<1> QED BY <1>3

(* Changing qubits a circuit does not use and running the circuit can be     *)
(* done in either order.                                                     *)
Complemented(S, D) == (S \ D) \cup (D \ S)

LEMMA Elsewhere ==
  ASSUME NEW T \in SUBSET Qubits, NEW U \in SUBSET Qubits, NEW D \in SUBSET Qubits, D \cap (T \cup U) = {},
         NEW c \in Seq(GatesOn(T, U)), NEW S \in SUBSET Qubits
  PROVE  After(c, Complemented(S, D)) = Complemented(After(c, S), D)
<1> DEFINE G == GatesOn(T, U)
           Z == Complemented(S, D)
           R == {d \in Seq(G) : After(d, Z) = Complemented(After(d, S), D)}
<1>0. Z \in SUBSET Qubits
  BY DEF Complemented
<1>1. <<>> \in R
  BY <1>0, AfterEmpty, EmptySeq
<1>2. ASSUME NEW d \in R, NEW g \in G PROVE Append(d, g) \in R
  <2> DEFINE Y == After(d, S)
  <2>1. d \in Seq(GatesOn(Qubits, Qubits)) /\ g \in GatesOn(Qubits, Qubits) /\ Append(d, g) \in Seq(G)
    BY AnyGates, AppendProperties
  <2>2. After(Append(d, g), S) = Act(g, Y) /\ After(Append(d, g), Z) = Act(g, After(d, Z))
    BY <1>0, <2>1, AfterAppend
  <2>3. g.target \in T /\ g.controls \subseteq U
    BY DEF GatesOn
  <2>4. After(d, Z) = Complemented(Y, D)
    OBVIOUS
  <2> HIDE DEF Y, Z, R
  <2>5. g.controls \subseteq Complemented(Y, D) <=> g.controls \subseteq Y
    BY <2>3 DEF Complemented
  <2>6. Toggle(Complemented(Y, D), g.target) = Complemented(Toggle(Y, g.target), D)
    BY <2>3 DEF Complemented, Toggle
  <2>7. Act(g, Complemented(Y, D)) = Complemented(Act(g, Y), D)
    BY <2>5, <2>6 DEF Act
  <2> QED BY <2>1, <2>2, <2>4, <2>7 DEF R, Z, Y
<1>3. R = Seq(G)
  <2>1. R \in SUBSET Seq(G)
    OBVIOUS
  <2> HIDE DEF R
  <2> QED BY <1>1, <1>2, <2>1, CircuitInduction
<1> QED BY <1>3

-----------------------------------------------------------------------------
(* Single gates. *)

NotGate(q, K) == [name |-> "X", target |-> q, controls |-> K]

LEMMA GateType ==
  ASSUME NEW T, NEW U, NEW q \in T, NEW K \in SUBSET U, q \notin K
  PROVE  NotGate(q, K) \in GatesOn(T, U)
BY DEF NotGate, GatesOn

LEMMA OneX ==
  ASSUME NEW q
  PROVE  X(q) = <<NotGate(q, {})>>
BY DEF X, Instruction, NotGate

LEMMA OneControlled ==
  ASSUME NEW q, NEW K
  PROVE  CU(X(q), K) = <<NotGate(q, K)>>
<1>1. X(q) = <<NotGate(q, {})>>
  BY OneX
<1>2. CU(X(q), K) = [i \in 1 .. 1 |-> [NotGate(q, {}) EXCEPT !.controls = NotGate(q, {}).controls \cup K]]
  BY <1>1 DEF CU
<1>3. [NotGate(q, {}) EXCEPT !.controls = NotGate(q, {}).controls \cup K] = NotGate(q, K)
  BY DEF NotGate
<1> QED BY <1>2, <1>3

LEMMA OneCX ==
  ASSUME NEW p, NEW q
  PROVE  CX(p, q) = <<NotGate(q, {p})>>
BY OneControlled DEF CX

LEMMA AfterNot ==
  ASSUME NEW q \in Qubits, NEW K \in SUBSET Qubits, q \notin K, NEW S \in SUBSET Qubits
  PROVE  /\ <<NotGate(q, K)>> \in Seq(GatesOn({q}, K))
         /\ <<NotGate(q, K)>> \in Seq(GatesOn(Qubits, Qubits))
         /\ After(<<NotGate(q, K)>>, S) = IF K \subseteq S THEN Toggle(S, q) ELSE S
<1>1. NotGate(q, K) \in GatesOn({q}, K) /\ NotGate(q, K) \in GatesOn(Qubits, Qubits)
  BY GateType
<1>2. <<NotGate(q, K)>> \in Seq(GatesOn({q}, K)) /\ <<NotGate(q, K)>> \in Seq(GatesOn(Qubits, Qubits))
  BY <1>1
<1>3. After(<<NotGate(q, K)>>, S) = Act(NotGate(q, K), S)
  BY <1>1, AfterOne
<1>4. Act(NotGate(q, K), S) = IF K \subseteq S THEN Toggle(S, q) ELSE S
  BY DEF Act, NotGate
<1> QED BY <1>2, <1>3, <1>4

-----------------------------------------------------------------------------
(* Controls added to every gate. *)

ControlledBy(d, K, c) ==
  \A S \in SUBSET Qubits : IF K \subseteq S THEN After(d, S) = After(c, S) ELSE After(d, S) = S

LEMMA ControlsAdded ==
  ASSUME NEW T \in SUBSET Qubits, NEW U \in SUBSET Qubits, NEW K \in SUBSET Qubits, K \cap T = {},
         NEW c \in Seq(GatesOn(T, U))
  PROVE  /\ CU(c, K) \in Seq(GatesOn(T, U \cup K))
         /\ ControlledBy(CU(c, K), K, c)
<1> DEFINE G == GatesOn(T, U)
           F == GatesOn(T, U \cup K)
           with(g) == [g EXCEPT !.controls = @ \cup K]
           R == {d \in Seq(G) : /\ CU(d, K) \in Seq(F)
                                /\ \A S \in SUBSET Qubits : After(CU(d, K), S) = IF K \subseteq S THEN After(d, S) ELSE S}
<1>1. <<>> \in R
  <2>1. CU(<<>>, K) = <<>>
    BY DEF CU
  <2> QED BY <2>1, AfterEmpty, EmptySeq
<1>2. ASSUME NEW d \in R, NEW g \in G PROVE Append(d, g) \in R
  <2>1. d \in Seq(G) /\ Append(d, g) \in Seq(G) /\ Len(d) \in Nat /\ DOMAIN d = 1 .. Len(d)
        /\ Len(Append(d, g)) = Len(d) + 1 /\ DOMAIN Append(d, g) = 1 .. Len(d) + 1
        /\ Append(d, g)[Len(d) + 1] = g /\ \A i \in 1 .. Len(d) : Append(d, g)[i] = d[i]
    BY AppendProperties, LenProperties
  <2>2. with(g) \in F /\ with(g).target = g.target /\ with(g).controls = g.controls \cup K
    BY DEF GatesOn
  <2>3. CU(d, K) \in Seq(F) /\ Len(CU(d, K)) = Len(d) /\ \A i \in 1 .. Len(d) : CU(d, K)[i] = with(d[i])
    <3>1. CU(d, K) \in Seq(F)
      OBVIOUS
    <3>2. DOMAIN CU(d, K) = 1 .. Len(d) /\ \A i \in 1 .. Len(d) : CU(d, K)[i] = with(d[i])
      BY <2>1 DEF CU
    <3> QED BY <2>1, <3>1, <3>2, LenProperties
  <2>4. CU(Append(d, g), K) = Append(CU(d, K), with(g))
    <3> DEFINE e == Append(CU(d, K), with(g))
    <3>1. e \in Seq(F) /\ Len(e) = Len(d) + 1 /\ e[Len(d) + 1] = with(g)
          /\ \A i \in 1 .. Len(d) : e[i] = with(d[i])
      BY <2>2, <2>3, AppendProperties
    <3>2. DOMAIN e = 1 .. Len(d) + 1 /\ e = [i \in 1 .. Len(d) + 1 |-> e[i]]
      BY <3>1, LenProperties, ElementOfSeq
    <3>3. CU(Append(d, g), K) = [i \in 1 .. Len(d) + 1 |-> with(Append(d, g)[i])]
      BY <2>1 DEF CU
    <3>4. \A i \in 1 .. Len(d) + 1 : with(Append(d, g)[i]) = e[i]
      <4>1. \A i \in 1 .. Len(d) + 1 : i \in 1 .. Len(d) \/ i = Len(d) + 1
        BY <2>1
      <4> HIDE DEF e, with
      <4> QED BY <2>1, <3>1, <4>1
    <3> HIDE DEF e, with
    <3>5. [i \in 1 .. Len(d) + 1 |-> with(Append(d, g)[i])] = [i \in 1 .. Len(d) + 1 |-> e[i]]
      BY <3>4
    <3>6. CU(Append(d, g), K) = e
      BY ONLY <3>2, <3>3, <3>5
    <3> QED BY <3>6 DEF e
  <2>5. Append(CU(d, K), with(g)) \in Seq(F)
    BY <2>2, <2>3, AppendProperties
  <2>6. ASSUME NEW S \in SUBSET Qubits
        PROVE  After(CU(Append(d, g), K), S) = IF K \subseteq S THEN After(Append(d, g), S) ELSE S
    <3>1. with(g) \in GatesOn(Qubits, Qubits) /\ CU(d, K) \in Seq(GatesOn(Qubits, Qubits))
          /\ g \in GatesOn(Qubits, Qubits) /\ d \in Seq(GatesOn(Qubits, Qubits))
      <4>1. U \cup K \in SUBSET Qubits
        OBVIOUS
      <4> HIDE DEF with
      <4> QED BY <2>1, <2>2, <2>3, <4>1, AnyGates
    <3>2. After(Append(CU(d, K), with(g)), S) = Act(with(g), After(CU(d, K), S))
      BY <3>1, AfterAppend
    <3>3. After(Append(d, g), S) = Act(g, After(d, S))
      BY <3>1, AfterAppend
    <3>4. After(CU(d, K), S) = IF K \subseteq S THEN After(d, S) ELSE S
      OBVIOUS
    <3>5. After(d, S) \ T = S \ T
      BY <2>1, Untouched
    <3> DEFINE Y == After(d, S)
               Z == After(CU(d, K), S)
    <3>6. ASSUME K \subseteq S PROVE Act(with(g), Z) = Act(g, Y)
      <4>1. Z = Y /\ K \subseteq Y
        BY <3>4, <3>5, <3>6
      <4> HIDE DEF Z, Y, with
      <4> QED BY <2>2, <4>1 DEF Act
    <3>7. ASSUME ~ K \subseteq S PROVE Act(with(g), Z) = S
      <4>1. Z = S
        BY <3>4, <3>7
      <4> HIDE DEF Z, Y, with
      <4> QED BY <2>2, <3>7, <4>1 DEF Act
    <3> HIDE DEF with
    <3> QED BY <2>4, <3>2, <3>3, <3>6, <3>7
  <2> HIDE DEF with
  <2> QED BY <2>1, <2>4, <2>5, <2>6
<1>3. R = Seq(G)
  <2>1. R \in SUBSET Seq(G)
    OBVIOUS
  <2> HIDE DEF R
  <2> QED BY <1>1, <1>2, <2>1, CircuitInduction
<1> QED BY <1>3 DEF ControlledBy

(* Circuits one after the other.                                             *)
LEMMA AfterEach ==
  ASSUME NEW ss \in Seq(Seq(GatesOn(Qubits, Qubits))), NEW S \in SUBSET Qubits
  PROVE  \E t \in [0 .. Len(ss) -> SUBSET Qubits] :
           /\ t[0] = S
           /\ \A i \in 1 .. Len(ss) : t[i] = After(ss[i], t[i - 1])
           /\ After(FlattenSeq(ss), S) = t[Len(ss)]
<1> DEFINE G == GatesOn(Qubits, Qubits)
           n == Len(ss)
<1>1. n \in Nat /\ \A i \in 1 .. n : ss[i] \in Seq(G)
  BY LenProperties, ElementOfSeq
<1>2. PICK f \in [0 .. n -> Seq(G)] :
        /\ f[0] = <<>>
        /\ \A i \in 1 .. n : f[i] = f[i - 1] \o ss[i]
        /\ FlattenSeq(ss) = f[n]
  BY FlattenSteps
<1> HIDE DEF n, G
<1> DEFINE t == [i \in 0 .. n |-> After(f[i], S)]
<1>3. \A i \in 0 .. n : After(f[i], S) \in SUBSET Qubits
  BY AfterType DEF G
<1>4. t \in [0 .. n -> SUBSET Qubits]
  BY <1>3
<1>5. t[0] = S
  <2>1. t[0] = After(<<>>, S)
    BY <1>1, <1>2
  <2> QED BY <2>1, AfterEmpty
<1>6. ASSUME NEW i \in 1 .. n PROVE t[i] = After(ss[i], t[i - 1])
  <2>1. i - 1 \in 0 .. n /\ i \in 0 .. n /\ f[i - 1] \in Seq(G) /\ ss[i] \in Seq(G) /\ f[i] = f[i - 1] \o ss[i]
    <3>1. i - 1 \in 0 .. n /\ i \in 0 .. n
      BY <1>1
    <3> QED BY <1>1, <1>2, <3>1
  <2>2. After(f[i - 1] \o ss[i], S) = After(ss[i], After(f[i - 1], S))
    BY <2>1, AfterConcat DEF G
  <2> QED BY <2>1, <2>2
<1>7. After(FlattenSeq(ss), S) = t[n]
  BY <1>1, <1>2
<1> HIDE DEF t
<1> QED BY <1>4, <1>5, <1>6, <1>7 DEF n

LEMMA PartsAreASequence ==
  ASSUME NEW n \in Nat, NEW Parts, NEW part \in [1 .. n -> Parts]
  PROVE  part \in Seq(Parts) /\ Len(part) = n
<1>1. part \in Seq(Parts)
  BY SeqDef
<1> QED BY <1>1, LenProperties

LEMMA NotsOnRegister ==
  ASSUME NEW r \in Seq(Qubits), Unrepeated(r), NEW S \in SUBSET Qubits
  PROVE  /\ Xs(r) \in Seq(GatesOn(AsSet(r), {}))
         /\ After(Xs(r), S) = Complemented(S, AsSet(r))
<1> DEFINE n == Len(r)
           G == GatesOn(AsSet(r), {})
           ss == [i \in 1 .. n |-> <<NotGate(r[i], {})>>]
<1>1. n \in Nat /\ DOMAIN r = 1 .. n /\ AsSet(r) \in SUBSET Qubits
      /\ \A i \in 1 .. n : r[i] \in Qubits /\ r[i] \in AsSet(r)
  BY RegisterType
<1>2. \A i \in 1 .. n : <<NotGate(r[i], {})>> \in Seq(G)
  <2>1. \A i \in 1 .. n : NotGate(r[i], {}) \in G
    BY <1>1, GateType
  <2> QED BY <2>1
<1>3. ss \in Seq(Seq(G)) /\ Len(ss) = n /\ \A i \in 1 .. n : ss[i] = <<NotGate(r[i], {})>>
  <2>1. ss \in [1 .. n -> Seq(G)]
    BY <1>2
  <2> HIDE DEF ss, n, G
  <2>2. ss \in Seq(Seq(G)) /\ Len(ss) = n
    BY <1>1, <2>1, PartsAreASequence
  <2> QED BY <2>2 DEF ss
<1>4. Xs(r) = FlattenSeq(ss)
  <2>1. n - 1 + 1 = n
    BY <1>1
  <2>2. Xs(r) = FlattenSeq([i \in 1 .. n - 1 + 1 |-> X(r[1 + i - 1])])
    BY DEF Xs, Each
  <2>3. \A i \in 1 .. n : X(r[1 + i - 1]) = <<NotGate(r[i], {})>>
    <3>1. \A i \in 1 .. n : 1 + i - 1 = i
      BY <1>1
    <3> QED BY <3>1, OneX
  <2>4. [i \in 1 .. n |-> X(r[1 + i - 1])] = ss
    BY <2>3
  <2> HIDE DEF ss, n
  <2> QED BY <2>1, <2>2, <2>4
<1>5. ss \in Seq(Seq(GatesOn(Qubits, Qubits)))
  <2>1. Seq(G) \subseteq Seq(GatesOn(Qubits, Qubits))
    BY <1>1, AnyGates
  <2> HIDE DEF G, ss
  <2> QED BY <1>3, <2>1, SeqMonotonic
<1> HIDE DEF ss, n
<1>6. PICK t \in [0 .. n -> SUBSET Qubits] :
           /\ t[0] = S
           /\ \A i \in 1 .. n : t[i] = After(ss[i], t[i - 1])
           /\ After(FlattenSeq(ss), S) = t[n]
  BY <1>3, <1>5, AfterEach
<1> DEFINE first(i) == {r[j] : j \in 1 .. i}
           I == {i \in Nat : i <= n => t[i] = Complemented(S, first(i))}
<1>7. 0 \in I
  BY <1>6 DEF Complemented
<1>8. ASSUME NEW i \in I, i < n PROVE i + 1 \in I
  <2>1. i \in 0 .. n /\ i + 1 \in 1 .. n /\ (i + 1) - 1 = i /\ r[i + 1] \in Qubits
    BY <1>1, <1>8
  <2>2. t[i] = Complemented(S, first(i)) /\ t[i] \in SUBSET Qubits
    <3>1. i <= n
      BY <2>1
    <3> HIDE DEF first
    <3> QED BY <1>6, <2>1, <3>1
  <2>3. t[i + 1] = After(<<NotGate(r[i + 1], {})>>, t[i])
    BY <1>3, <1>6, <2>1
  <2>4. t[i + 1] = Toggle(t[i], r[i + 1])
    <3>1. r[i + 1] \notin {} /\ {} \in SUBSET Qubits /\ {} \subseteq t[i]
      OBVIOUS
    <3>2. After(<<NotGate(r[i + 1], {})>>, t[i]) = IF {} \subseteq t[i] THEN Toggle(t[i], r[i + 1]) ELSE t[i]
      <4> DEFINE q == r[i + 1]
                 K == {}
                 Y == t[i]
      <4>1. q \in Qubits /\ K \in SUBSET Qubits /\ q \notin K /\ Y \in SUBSET Qubits
        BY <2>1, <2>2
      <4> HIDE DEF q, K, Y
      <4>2. After(<<NotGate(q, K)>>, Y) = IF K \subseteq Y THEN Toggle(Y, q) ELSE Y
        BY ONLY <4>1, AfterNot
      <4> QED BY <4>2 DEF q, K, Y
    <3> QED BY <2>3, <3>1, <3>2
  <2>5. first(i + 1) = first(i) \cup {r[i + 1]}
    <3>1. \A j \in 1 .. i + 1 : j \in 1 .. i \/ j = i + 1
      BY <2>1
    <3>2. \A j \in 1 .. i : j \in 1 .. i + 1
      BY <2>1
    <3>3. i + 1 \in 1 .. i + 1
      BY <2>1
    <3> QED BY <3>1, <3>2, <3>3
  <2>6. r[i + 1] \notin first(i)
    <3>1. \A j \in 1 .. i : j \in 1 .. n /\ j # i + 1
      BY <1>1, <2>1
    <3> QED BY <1>1, <2>1, <3>1 DEF Unrepeated
  <2> HIDE DEF first
  <2>7. Toggle(Complemented(S, first(i)), r[i + 1]) = Complemented(S, first(i) \cup {r[i + 1]})
    BY <2>6 DEF Toggle, Complemented
  <2>8. t[i + 1] = Complemented(S, first(i + 1))
    BY <2>2, <2>4, <2>5, <2>7
  <2>9. i + 1 \in Nat
    BY <2>1
  <2> QED BY <2>8, <2>9
<1>9. t[n] = Complemented(S, first(n))
  <2>1. I \in SUBSET Nat
    OBVIOUS
  <2> HIDE DEF I
  <2>2. 0 .. n \subseteq I
    BY <1>1, <1>7, <1>8, <2>1, Induction
  <2> QED BY <1>1, <2>2 DEF I
<1>10. first(n) = AsSet(r)
  BY <1>1 DEF AsSet
<1>11. Xs(r) \in Seq(G)
  BY <1>3, <1>4, FlattenType
<1> QED BY <1>4, <1>6, <1>9, <1>10, <1>11

LEMMA BetweenType ==
  ASSUME NEW T \in SUBSET Qubits, NEW U \in SUBSET Qubits, NEW c \in Seq(GatesOn(T, U)),
         NEW r \in Seq(Qubits), Unrepeated(r)
  PROVE  Between(r, c) \in Seq(GatesOn(T \cup AsSet(r), U))
<1> DEFINE G == GatesOn(T \cup AsSet(r), U)
<1>1. AsSet(r) \in SUBSET Qubits
  BY RegisterType
<1>2. Xs(r) \in Seq(GatesOn(AsSet(r), {}))
  BY NotsOnRegister
<1>3. Xs(r) \in Seq(G) /\ c \in Seq(G)
  BY <1>1, <1>2, WiderGates
<1>4. Xs(r) \o c \in Seq(G)
  BY <1>3, ConcatProperties
<1> QED BY <1>3, <1>4, ConcatProperties DEF Between

LEMMA AfterBetween ==
  ASSUME NEW c \in Seq(GatesOn(Qubits, Qubits)), NEW r \in Seq(Qubits), Unrepeated(r), NEW S \in SUBSET Qubits
  PROVE  /\ Complemented(S, AsSet(r)) \in SUBSET Qubits
         /\ After(Between(r, c), S) = Complemented(After(c, Complemented(S, AsSet(r))), AsSet(r))
<1> DEFINE Q == GatesOn(Qubits, Qubits)
           Z == Complemented(S, AsSet(r))
<1>1. AsSet(r) \in SUBSET Qubits
  BY RegisterType
<1>2. Z \in SUBSET Qubits
  BY <1>1 DEF Complemented
<1>3. Xs(r) \in Seq(GatesOn(AsSet(r), {})) /\ After(Xs(r), S) = Z
  BY NotsOnRegister
<1>5. Xs(r) \in Seq(Q)
  BY <1>1, <1>3, AnyGates
<1>6. Xs(r) \o c \in Seq(Q)
  BY <1>5, ConcatProperties
<1>8. After(Xs(r) \o c, S) = After(c, Z)
  BY <1>3, <1>5, AfterConcat
<1>9. After(Between(r, c), S) = After(Xs(r), After(c, Z))
  <2>1. After((Xs(r) \o c) \o Xs(r), S) = After(Xs(r), After(Xs(r) \o c, S))
    BY <1>5, <1>6, AfterConcat
  <2>2. Between(r, c) = (Xs(r) \o c) \o Xs(r)
    BY DEF Between
  <2> QED BY <1>8, <2>1, <2>2
<1>10. After(c, Z) \in SUBSET Qubits
  BY <1>2, AfterType
<1>11. After(Xs(r), After(c, Z)) = Complemented(After(c, Z), AsSet(r))
  BY <1>10, NotsOnRegister
<1> QED BY <1>2, <1>9, <1>11

(* A circuit that is run only where all of on are 1 and all of off are 0.    *)
RunsWhere(d, c, on, off) ==
  \A S \in SUBSET Qubits : After(d, S) = IF Holds(S, on, off) THEN After(c, S) ELSE S

LEMMA AfterConditioned ==
  ASSUME NEW T \in SUBSET Qubits, NEW U \in SUBSET Qubits, NEW c \in Seq(GatesOn(T, U)),
         NEW on \in Seq(Qubits), NEW off \in Seq(Qubits), Unrepeated(off), Disjoint(on, off),
         (AsSet(on) \cup AsSet(off)) \cap (T \cup U) = {}
  PROVE  /\ Conditioned(c, on, off) \in Seq(GatesOn(T \cup AsSet(off), U \cup AsSet(on) \cup AsSet(off)))
         /\ RunsWhere(Conditioned(c, on, off), c, on, off)
<1> DEFINE K == AsSet(on) \cup AsSet(off)
           N == AsSet(off)
           V == U \cup K
           d == CU(c, K)
<1>1. K \in SUBSET Qubits /\ N \in SUBSET Qubits /\ K \cap T = {} /\ N \cap (T \cup U) = {} /\ V \in SUBSET Qubits
  BY RegisterType
<1>2. /\ d \in Seq(GatesOn(T, V))
      /\ ControlledBy(d, K, c)
  <2> HIDE DEF K, N
  <2>0. T \in SUBSET Qubits /\ U \in SUBSET Qubits /\ K \in SUBSET Qubits /\ K \cap T = {} /\ c \in Seq(GatesOn(T, U))
    BY <1>1
  <2>1. CU(c, K) \in Seq(GatesOn(T, U \cup K))
    BY <2>0, ControlsAdded
  <2>2. ControlledBy(CU(c, K), K, c)
    BY <2>0, <2>1, ControlsAdded
  <2> QED BY <2>1, <2>2
<1>3. d \in Seq(GatesOn(Qubits, Qubits)) /\ c \in Seq(GatesOn(Qubits, Qubits))
  <2> HIDE DEF V, K, N, d
  <2> QED BY <1>1, <1>2, AnyGates
<1>4. Between(off, d) \in Seq(GatesOn(T \cup N, V))
  <2> HIDE DEF V, K, d
  <2> QED BY <1>1, <1>2, BetweenType
<1>5. Conditioned(c, on, off) = Between(off, d)
  BY DEF Conditioned
<1>6. ASSUME NEW S \in SUBSET Qubits
      PROVE  /\ Holds(S, on, off) => After(Between(off, d), S) = After(c, S)
             /\ ~ Holds(S, on, off) => After(Between(off, d), S) = S
  <2> DEFINE Z == Complemented(S, N)
  <2> HIDE DEF d, V
  <2>1. Z \in SUBSET Qubits /\ After(Between(off, d), S) = Complemented(After(d, Z), N)
    BY <1>3, AfterBetween
  <2>2. K \subseteq Z <=> Holds(S, on, off)
    BY DEF Complemented, Holds, Disjoint
  <2>3. After(c, Z) = Complemented(After(c, S), N)
    <3> HIDE DEF K, N
    <3> QED BY <1>1, Elsewhere
  <2>4. \A Y : Complemented(Complemented(Y, N), N) = Y
    BY DEF Complemented
  <2> HIDE DEF Z, K, N
  <2>5. CASE Holds(S, on, off)
    <3>0. K \subseteq Z
      BY <2>2, <2>5
    <3>1. After(d, Z) = After(c, Z)
      BY <1>2, <2>1, <3>0 DEF ControlledBy
    <3> QED BY <2>1, <2>3, <2>4, <2>5, <3>1
  <2>6. CASE ~ Holds(S, on, off)
    <3>1. After(d, Z) = Z
      BY <1>2, <2>1, <2>2, <2>6 DEF ControlledBy
    <3> QED BY <2>1, <2>4, <2>6, <3>1 DEF Z
  <2> QED BY <2>5, <2>6
<1>7. GatesOn(T \cup N, V) = GatesOn(T \cup AsSet(off), U \cup AsSet(on) \cup AsSet(off))
  <2>1. V = U \cup AsSet(on) \cup AsSet(off)
    OBVIOUS
  <2> QED BY <2>1
<1> HIDE DEF V, d, K
<1>8. RunsWhere(Between(off, d), c, on, off)
  BY <1>6 DEF RunsWhere
<1> QED BY <1>4, <1>5, <1>7, <1>8

(* Two of three; one or three of three.                                      *)
Most(x, y, z) == (x /\ y) \/ (x /\ z) \/ (y /\ z)
Odd(x, y, z) == ((x <=> y) <=> z)

LEMMA Toggled ==
  ASSUME NEW S, NEW t, NEW q
  PROVE  q \in Toggle(S, t) <=> IF q = t THEN q \notin S ELSE q \in S
BY DEF Toggle

(* One controlled not, qubit by qubit.                                       *)
Negates(q, K, S, T) ==
  /\ q \in T <=> ~ (q \in S <=> K \subseteq S)
  /\ \A p \in Qubits : p # q => (p \in T <=> p \in S)

LEMMA NotNegates ==
  ASSUME NEW q \in Qubits, NEW K \in SUBSET Qubits, q \notin K, NEW S \in SUBSET Qubits
  PROVE  /\ After(<<NotGate(q, K)>>, S) \in SUBSET Qubits
         /\ Negates(q, K, S, After(<<NotGate(q, K)>>, S))
<1>1. After(<<NotGate(q, K)>>, S) = IF K \subseteq S THEN Toggle(S, q) ELSE S
  BY AfterNot
<1>2. After(<<NotGate(q, K)>>, S) \in SUBSET Qubits
  BY <1>1 DEF Toggle
<1>3. CASE K \subseteq S
  BY <1>1, <1>3, Toggled DEF Negates
<1>4. CASE ~ K \subseteq S
  BY <1>1, <1>4 DEF Negates
<1> QED BY <1>2, <1>3, <1>4

Triple(a, b, c) ==
  a \in Qubits /\ b \in Qubits /\ c \in Qubits /\ a # b /\ a # c /\ b # c

Three(p, K, q, L, r, M) == <<NotGate(p, K)>> \o <<NotGate(q, L)>> \o <<NotGate(r, M)>>
NegatesThree(p, K, q, L, r, M, S, T) ==
  \E T1 \in SUBSET Qubits, T2 \in SUBSET Qubits :
     Negates(p, K, S, T1) /\ Negates(q, L, T1, T2) /\ Negates(r, M, T2, T)

LEMMA ThreeNots ==
  ASSUME NEW p \in Qubits, NEW K \in SUBSET Qubits, p \notin K,
         NEW q \in Qubits, NEW L \in SUBSET Qubits, q \notin L,
         NEW r \in Qubits, NEW M \in SUBSET Qubits, r \notin M,
         NEW S \in SUBSET Qubits
  PROVE  /\ Three(p, K, q, L, r, M) \in Seq(GatesOn({p, q, r}, K \cup L \cup M))
         /\ NegatesThree(p, K, q, L, r, M, S, After(Three(p, K, q, L, r, M), S))
<1> DEFINE x == <<NotGate(p, K)>>
           y == <<NotGate(q, L)>>
           z == <<NotGate(r, M)>>
           G == GatesOn({p, q, r}, K \cup L \cup M)
           Q == GatesOn(Qubits, Qubits)
<1>1. x \in Seq(G) /\ y \in Seq(G) /\ z \in Seq(G)
  <2>1. NotGate(p, K) \in G /\ NotGate(q, L) \in G /\ NotGate(r, M) \in G
    BY DEF NotGate, GatesOn
  <2> QED BY <2>1
<1>2. x \in Seq(Q) /\ y \in Seq(Q) /\ z \in Seq(Q)
  <2>1. NotGate(p, K) \in Q /\ NotGate(q, L) \in Q /\ NotGate(r, M) \in Q
    BY DEF NotGate, GatesOn
  <2> QED BY <2>1
<1> DEFINE T1 == After(x, S)
           T2 == After(y, T1)
<1>3. T1 \in SUBSET Qubits /\ Negates(p, K, S, T1)
  BY NotNegates
<1>4. T2 \in SUBSET Qubits /\ Negates(q, L, T1, T2)
  <2> HIDE DEF T1
  <2> QED BY <1>3, NotNegates
<1>5. Negates(r, M, T2, After(z, T2))
  <2> HIDE DEF T2
  <2> QED BY <1>4, NotNegates
<1> HIDE DEF x, y, z, G, Q
<1>6. x \o y \in Seq(Q) /\ After(x \o y, S) = T2
  BY <1>2, AfterConcat, ConcatProperties DEF Q
<1>7. After(x \o y \o z, S) = After(z, T2)
  <2> HIDE DEF T2
  <2>1. After((x \o y) \o z, S) = After(z, After(x \o y, S))
    BY <1>2, <1>6, AfterConcat DEF Q
  <2> QED BY <1>6, <2>1
<1>8. x \o y \o z \in Seq(G)
  <2>1. x \o y \in Seq(G)
    BY <1>1, ConcatProperties
  <2> QED BY <1>1, <2>1, ConcatProperties
<1> HIDE DEF T1, T2
<1>9. Three(p, K, q, L, r, M) = x \o y \o z
  BY DEF Three, x, y, z
<1>10. NegatesThree(p, K, q, L, r, M, S, After(x \o y \o z, S))
  BY <1>3, <1>4, <1>5, <1>7 DEF NegatesThree
<1> QED BY <1>8, <1>9, <1>10 DEF G

IsMajority(a, b, c, S, R) ==
  /\ \A q \in Qubits \ {a, b, c} : q \in R <=> q \in S
  /\ b \in R <=> ~ (b \in S <=> c \in S)
  /\ a \in R <=> ~ (a \in S <=> c \in S)
  /\ c \in R <=> Most(a \in S, b \in S, c \in S)

LEMMA MajorityWorks ==
  ASSUME NEW a, NEW b, NEW c, Triple(a, b, c), NEW S \in SUBSET Qubits
  PROVE  /\ Majority(a, b, c) \in Seq(GatesOn({a, b, c}, {a, b, c}))
         /\ IsMajority(a, b, c, S, After(Majority(a, b, c), S))
<1>0. a \in Qubits /\ b \in Qubits /\ c \in Qubits /\ a # b /\ a # c /\ b # c
  BY DEF Triple
<1> DEFINE K == {c}
           L == {c}
           M == {b, a}
           d == Three(b, K, a, L, c, M)
           T3 == After(d, S)
<1>1. Majority(a, b, c) = d
  BY OneCX, OneControlled DEF Majority, Three
<1>2. K \in SUBSET Qubits /\ L \in SUBSET Qubits /\ M \in SUBSET Qubits /\ b \notin K /\ a \notin L /\ c \notin M
      /\ {b, a, c} = {a, b, c} /\ K \cup L \cup M = {a, b, c}
  BY <1>0
<1> HIDE DEF K, L, M
<1>3. NegatesThree(b, K, a, L, c, M, S, T3)
  BY <1>0, <1>2, ThreeNots
<1>4. d \in Seq(GatesOn({a, b, c}, {a, b, c}))
  <2>1. d \in Seq(GatesOn({b, a, c}, K \cup L \cup M))
    BY <1>0, <1>2, ThreeNots
  <2> QED BY <1>2, <2>1
<1> HIDE DEF d, T3
<1>5. PICK T1 \in SUBSET Qubits, T2 \in SUBSET Qubits :
        Negates(b, {c}, S, T1) /\ Negates(a, {c}, T1, T2) /\ Negates(c, {b, a}, T2, T3)
  BY <1>3 DEF NegatesThree, K, L, M
<1>6. /\ b \in T1 <=> ~ (b \in S <=> c \in S)
      /\ \A q \in Qubits : q # b => (q \in T1 <=> q \in S)
  BY <1>5 DEF Negates
<1>7. /\ a \in T2 <=> ~ (a \in T1 <=> c \in T1)
      /\ \A q \in Qubits : q # a => (q \in T2 <=> q \in T1)
  BY <1>5 DEF Negates
<1>8. /\ c \in T3 <=> ~ (c \in T2 <=> (b \in T2 /\ a \in T2))
      /\ \A q \in Qubits : q # c => (q \in T3 <=> q \in T2)
  BY <1>5 DEF Negates
<1>9. \A q \in Qubits \ {a, b, c} : q \in T3 <=> q \in S
  BY <1>6, <1>7, <1>8
<1>10. b \in T3 <=> ~ (b \in S <=> c \in S)
  BY <1>0, <1>6, <1>7, <1>8
<1>11. a \in T3 <=> ~ (a \in S <=> c \in S)
  BY <1>0, <1>6, <1>7, <1>8
<1>12. c \in T3 <=> Most(a \in S, b \in S, c \in S)
  <2>1. /\ c \in T2 <=> c \in S
        /\ b \in T2 <=> ~ (b \in S <=> c \in S)
        /\ a \in T2 <=> ~ (a \in S <=> c \in S)
    BY <1>0, <1>6, <1>7
  <2> QED BY <1>8, <2>1 DEF Most
<1> QED BY <1>1, <1>4, <1>9, <1>10, <1>11, <1>12 DEF T3, IsMajority

IsUnmajority(a, b, c, S, R) ==
  /\ \A q \in Qubits \ {a, b, c} : q \in R <=> q \in S
  /\ c \in R <=> ~ (c \in S <=> (a \in S /\ b \in S))
  /\ a \in R <=> ~ (a \in S <=> ~ (c \in S <=> (a \in S /\ b \in S)))
  /\ b \in R <=> ~ (b \in S <=> ~ (a \in S <=> ~ (c \in S <=> (a \in S /\ b \in S))))

LEMMA UnmajorityWorks ==
  ASSUME NEW a, NEW b, NEW c, Triple(a, b, c), NEW S \in SUBSET Qubits
  PROVE  /\ Unmajority(a, b, c) \in Seq(GatesOn({a, b, c}, {a, b, c}))
         /\ IsUnmajority(a, b, c, S, After(Unmajority(a, b, c), S))
<1>0. a \in Qubits /\ b \in Qubits /\ c \in Qubits /\ a # b /\ a # c /\ b # c
  BY DEF Triple
<1> DEFINE K == {b, a}
           L == {c}
           M == {a}
           d == Three(c, K, a, L, b, M)
           T3 == After(d, S)
<1>1. Unmajority(a, b, c) = d
  BY OneCX, OneControlled DEF Unmajority, Three
<1>2. K \in SUBSET Qubits /\ L \in SUBSET Qubits /\ M \in SUBSET Qubits /\ c \notin K /\ a \notin L /\ b \notin M
      /\ {c, a, b} = {a, b, c} /\ K \cup L \cup M = {a, b, c}
  BY <1>0
<1> HIDE DEF K, L, M
<1>3. NegatesThree(c, K, a, L, b, M, S, T3)
  BY <1>0, <1>2, ThreeNots
<1>4. d \in Seq(GatesOn({a, b, c}, {a, b, c}))
  <2>1. d \in Seq(GatesOn({c, a, b}, K \cup L \cup M))
    BY <1>0, <1>2, ThreeNots
  <2> QED BY <1>2, <2>1
<1> HIDE DEF d, T3
<1>5. PICK T1 \in SUBSET Qubits, T2 \in SUBSET Qubits :
        Negates(c, {b, a}, S, T1) /\ Negates(a, {c}, T1, T2) /\ Negates(b, {a}, T2, T3)
  BY <1>3 DEF NegatesThree, K, L, M
<1>6. /\ c \in T1 <=> ~ (c \in S <=> (b \in S /\ a \in S))
      /\ \A q \in Qubits : q # c => (q \in T1 <=> q \in S)
  BY <1>5 DEF Negates
<1>7. /\ a \in T2 <=> ~ (a \in T1 <=> c \in T1)
      /\ \A q \in Qubits : q # a => (q \in T2 <=> q \in T1)
  BY <1>5 DEF Negates
<1>8. /\ b \in T3 <=> ~ (b \in T2 <=> a \in T2)
      /\ \A q \in Qubits : q # b => (q \in T3 <=> q \in T2)
  BY <1>5 DEF Negates
<1>9. \A q \in Qubits \ {a, b, c} : q \in T3 <=> q \in S
  BY <1>6, <1>7, <1>8
<1>10. c \in T3 <=> c \in T1
  BY <1>0, <1>7, <1>8
<1>11. a \in T3 <=> ~ (a \in S <=> c \in T1)
  BY <1>0, <1>6, <1>7, <1>8
<1>12. b \in T3 <=> ~ (b \in S <=> ~ (a \in S <=> c \in T1))
  BY <1>0, <1>6, <1>7, <1>8
<1> QED BY <1>1, <1>4, <1>6, <1>9, <1>10, <1>11, <1>12 DEF T3, IsUnmajority

(* The registers of an adder.                                                *)
AdderLayout(A, B, c0) ==
  /\ A \in Seq(Qubits) /\ B \in Seq(Qubits) /\ c0 \in Qubits
  /\ A # <<>> /\ Len(A) <= Len(B)
  /\ Unrepeated(A) /\ Unrepeated(B) /\ Disjoint(A, B)
  /\ c0 \notin AsSet(A) \cup AsSet(B)

(* The qubits the carries go through.                                        *)
Wires(A, c0) == [i \in 0 .. Len(A) |-> IF i = 0 THEN c0 ELSE A[i]]

Wired(w, B, n) ==
  /\ \A i \in 0 .. n : w[i] \in Qubits
  /\ \A j \in 1 .. n : B[j] \in Qubits
  /\ \A i, j \in 0 .. n : w[i] = w[j] => i = j
  /\ \A i, j \in 1 .. n : B[i] = B[j] => i = j
  /\ \A i \in 0 .. n, j \in 1 .. n : w[i] # B[j]

LEMMA Wiring ==
  ASSUME NEW A, NEW B, NEW c0, AdderLayout(A, B, c0)
  PROVE  /\ Len(A) \in Nat /\ Len(A) >= 1
         /\ Wires(A, c0)[0] = c0
         /\ \A i \in 1 .. Len(A) : Wires(A, c0)[i] = A[i]
         /\ Wired(Wires(A, c0), B, Len(A))
<1> DEFINE n == Len(A)
           m == Len(B)
           w == Wires(A, c0)
<1>1. /\ n \in Nat /\ DOMAIN A = 1 .. n /\ n >= 1
      /\ \A i \in 1 .. n : A[i] \in Qubits /\ A[i] \in AsSet(A)
  <2>1. A \in Seq(Qubits) /\ A # <<>>
    BY DEF AdderLayout
  <2>2. n # 0
    BY <2>1, EmptySeq
  <2>3. n \in Nat
    BY <2>1, LenProperties
  <2> QED BY <2>1, <2>2, <2>3, RegisterType
<1>2. /\ m \in Nat /\ DOMAIN B = 1 .. m /\ n <= m
      /\ \A i \in 1 .. m : B[i] \in Qubits /\ B[i] \in AsSet(B)
  BY RegisterType DEF AdderLayout
<1> HIDE DEF n, m
<1>3. w[0] = c0 /\ \A i \in 1 .. n : w[i] = A[i]
  BY <1>1 DEF Wires, n
<1> HIDE DEF w
<1>4. \A i \in 0 .. n : i = 0 \/ i \in 1 .. n
  BY <1>1
<1>5. \A i \in 1 .. n : i \in 1 .. m
  BY <1>1, <1>2
<1>6. \A i \in 0 .. n : w[i] \in Qubits
  BY <1>1, <1>3, <1>4 DEF AdderLayout
<1>7. \A j \in 1 .. n : B[j] \in Qubits
  BY <1>2, <1>5
<1>8. \A i, j \in 0 .. n : w[i] = w[j] => i = j
  <2>1. \A i \in 1 .. n : w[i] # c0
    BY <1>1, <1>3 DEF AdderLayout
  <2>2. \A i, j \in 1 .. n : w[i] = w[j] => i = j
    BY <1>1, <1>3 DEF AdderLayout, Unrepeated
  <2> QED BY <1>3, <1>4, <2>1, <2>2
<1>9. \A i, j \in 1 .. n : B[i] = B[j] => i = j
  BY <1>2, <1>5 DEF AdderLayout, Unrepeated
<1>10. \A i \in 0 .. n, j \in 1 .. n : w[i] # B[j]
  <2>1. \A j \in 1 .. n : B[j] \in AsSet(B)
    BY <1>2, <1>5
  <2>2. \A i \in 0 .. n : w[i] \notin AsSet(B)
    BY <1>1, <1>3, <1>4 DEF AdderLayout, Disjoint
  <2> QED BY <2>1, <2>2
<1> QED BY <1>1, <1>3, <1>6, <1>7, <1>8, <1>9, <1>10 DEF Wired, n, w

(* The carries of the addition of the numbers a state holds.                 *)
AreCarries(f, w, B, S, n) ==
  /\ f \in [0 .. n -> BOOLEAN]
  /\ f[0] = (w[0] \in S)
  /\ \A i \in 1 .. n : f[i] = Most(w[i] \in S, B[i] \in S, f[i - 1])

LEMMA CarriesExist ==
  ASSUME NEW n \in Nat, NEW w, NEW B, NEW S
  PROVE  \E f : AreCarries(f, w, B, S, n)
<1> DEFINE step == [q \in BOOLEAN \X (1 .. n) |-> Most(w[q[2]] \in S, B[q[2]] \in S, q[1])]
           x == w[0] \in S
<1>1. step \in [BOOLEAN \X (1 .. n) -> BOOLEAN] /\ x \in BOOLEAN
  <2>1. \A q \in BOOLEAN \X (1 .. n) : Most(w[q[2]] \in S, B[q[2]] \in S, q[1]) \in BOOLEAN
    BY DEF Most
  <2> QED BY <2>1
<1>2. PICK f \in [0 .. n -> BOOLEAN] : Recursion(f, n, x, step)
  <2> HIDE DEF step, x
  <2> QED BY <1>1, RecursionOverInterval
<1>3. \A i \in 1 .. n : f[i] = Most(w[i] \in S, B[i] \in S, f[i - 1])
  <2>1. \A i \in 1 .. n : f[i - 1] \in BOOLEAN
    BY <1>2
  <2>2. \A i \in 1 .. n : step[<<f[i - 1], i>>] = Most(w[i] \in S, B[i] \in S, f[i - 1])
    BY <2>1
  <2> HIDE DEF step
  <2> QED BY <1>2, <2>2 DEF Recursion
<1>4. f[0] = (w[0] \in S)
  BY <1>2 DEF Recursion
<1> QED BY <1>3, <1>4 DEF AreCarries

(* The state with the carries up to position i: above it the second register *)
(* holds v, and O tells what the other qubits hold.                          *)
Rippled(i, T, w, B, Cy, v, S, O, n) ==
  /\ \A j \in 1 .. i : B[j] \in T <=> ~ (B[j] \in S <=> w[j] \in S)
  /\ \A j \in i + 1 .. n : B[j] \in T <=> v[j]
  /\ \A j \in 0 .. i - 1 : w[j] \in T <=> ~ (Cy[j] <=> w[j + 1] \in S)
  /\ w[i] \in T <=> Cy[i]
  /\ \A j \in i + 1 .. n : w[j] \in T <=> w[j] \in S
  /\ \A q \in Qubits : (\A j \in 0 .. n : q # w[j]) /\ (\A j \in 1 .. n : q # B[j]) => (q \in T <=> q \in O)

LEMMA StepUp ==
  ASSUME NEW n \in Nat, NEW w, NEW B, Wired(w, B, n), NEW S \in SUBSET Qubits, NEW O,
         NEW Cy, AreCarries(Cy, w, B, S, n), NEW v, \A j \in 1 .. n : v[j] <=> B[j] \in S,
         NEW i \in 1 .. n, NEW T \in SUBSET Qubits, Rippled(i - 1, T, w, B, Cy, v, S, O, n)
  PROVE  Rippled(i, After(Majority(w[i - 1], B[i], w[i]), T), w, B, Cy, v, S, O, n)
<1> DEFINE a == w[i - 1]
           b == B[i]
           c == w[i]
           R == After(Majority(a, b, c), T)
<1>1. i \in 0 .. n /\ i - 1 \in 0 .. n /\ i - 1 # i /\ (i - 1) + 1 = i /\ i - 1 \in Nat /\ i \in Nat
  OBVIOUS
<1>2. Triple(a, b, c)
  BY <1>1 DEF Triple, Wired
<1>3. /\ \A q \in Qubits \ {a, b, c} : q \in R <=> q \in T
      /\ b \in R <=> ~ (b \in T <=> c \in T)
      /\ a \in R <=> ~ (a \in T <=> c \in T)
      /\ c \in R <=> Most(a \in T, b \in T, c \in T)
  <2> HIDE DEF a, b, c
  <2>1. IsMajority(a, b, c, T, R)
    BY <1>2, MajorityWorks
  <2> QED BY <2>1 DEF IsMajority
<1> HIDE DEF R
<1>4. /\ \A j \in 1 .. i - 1 : B[j] \in T <=> ~ (B[j] \in S <=> w[j] \in S)
      /\ \A j \in i .. n : B[j] \in T <=> v[j]
      /\ \A j \in 0 .. i - 2 : w[j] \in T <=> ~ (Cy[j] <=> w[j + 1] \in S)
      /\ a \in T <=> Cy[i - 1]
      /\ \A j \in i .. n : w[j] \in T <=> w[j] \in S
      /\ \A q \in Qubits : (\A j \in 0 .. n : q # w[j]) /\ (\A j \in 1 .. n : q # B[j]) => (q \in T <=> q \in O)
  <2>1. (i - 1) - 1 = i - 2
    OBVIOUS
  <2> QED BY <1>1, <2>1 DEF Rippled
<1>5. b \in T <=> b \in S
  BY <1>4
<1>6. c \in T <=> c \in S
  BY <1>4
<1>7. Cy[i] = Most(c \in S, b \in S, Cy[i - 1])
  BY DEF AreCarries
<1>8. \A j \in 1 .. n : j # i => (B[j] \in R <=> B[j] \in T)
  <2>1. \A j \in 1 .. n : j # i => B[j] \in Qubits \ {a, b, c}
    BY <1>1 DEF Wired
  <2> QED BY <1>3, <2>1
<1>9. \A j \in 0 .. n : j # i /\ j # i - 1 => (w[j] \in R <=> w[j] \in T)
  <2>1. \A j \in 0 .. n : j # i /\ j # i - 1 => w[j] \in Qubits \ {a, b, c}
    BY <1>1 DEF Wired
  <2> QED BY <1>3, <2>1
<1>10. \A j \in 1 .. i : B[j] \in R <=> ~ (B[j] \in S <=> w[j] \in S)
  <2>1. \A j \in 1 .. i : j = i \/ (j \in 1 .. i - 1 /\ j \in 1 .. n /\ j # i)
    OBVIOUS
  <2>2. b \in R <=> ~ (b \in S <=> c \in S)
    BY <1>3, <1>5, <1>6
  <2> QED BY <1>4, <1>8, <2>1, <2>2
<1>11. \A j \in i + 1 .. n : B[j] \in R <=> v[j]
  <2>1. \A j \in i + 1 .. n : j \in i .. n /\ j \in 1 .. n /\ j # i
    OBVIOUS
  <2> QED BY <1>4, <1>8, <2>1
<1>12. \A j \in 0 .. i - 1 : w[j] \in R <=> ~ (Cy[j] <=> w[j + 1] \in S)
  <2>1. \A j \in 0 .. i - 1 : j = i - 1 \/ (j \in 0 .. i - 2 /\ j \in 0 .. n /\ j # i /\ j # i - 1)
    OBVIOUS
  <2>2. a \in R <=> ~ (Cy[i - 1] <=> c \in S)
    BY <1>3, <1>4, <1>6
  <2>3. w[i - 1] \in R <=> ~ (Cy[i - 1] <=> w[(i - 1) + 1] \in S)
    BY <1>1, <2>2
  <2> HIDE DEF a, b, c
  <2> QED BY <1>4, <1>9, <2>1, <2>3
<1>13. c \in R <=> Cy[i]
  BY <1>3, <1>4, <1>5, <1>6, <1>7 DEF Most
<1>14. \A j \in i + 1 .. n : w[j] \in R <=> w[j] \in S
  <2>1. \A j \in i + 1 .. n : j \in i .. n /\ j \in 0 .. n /\ j # i /\ j # i - 1
    OBVIOUS
  <2> QED BY <1>4, <1>9, <2>1
<1>15. ASSUME NEW q \in Qubits, \A j \in 0 .. n : q # w[j], \A j \in 1 .. n : q # B[j]
       PROVE  q \in R <=> q \in O
  <2>1. q \notin {a, b, c}
    BY <1>1, <1>15
  <2> QED BY <1>3, <1>4, <1>15, <2>1
<1> QED BY <1>10, <1>11, <1>12, <1>13, <1>14, <1>15 DEF Rippled, R

LEMMA StepDown ==
  ASSUME NEW n \in Nat, NEW w, NEW B, Wired(w, B, n), NEW S \in SUBSET Qubits, NEW O,
         NEW Cy, AreCarries(Cy, w, B, S, n),
         NEW v, \A j \in 1 .. n : v[j] <=> Odd(w[j] \in S, B[j] \in S, Cy[j - 1]),
         NEW i \in 1 .. n, NEW T \in SUBSET Qubits, Rippled(i, T, w, B, Cy, v, S, O, n)
  PROVE  Rippled(i - 1, After(Unmajority(w[i - 1], B[i], w[i]), T), w, B, Cy, v, S, O, n)
<1> DEFINE a == w[i - 1]
           b == B[i]
           c == w[i]
           R == After(Unmajority(a, b, c), T)
<1>1. i \in 0 .. n /\ i - 1 \in 0 .. n /\ i - 1 # i /\ (i - 1) + 1 = i /\ i - 1 \in Nat /\ i \in Nat
  OBVIOUS
<1>2. Triple(a, b, c)
  BY <1>1 DEF Triple, Wired
<1>3. /\ \A q \in Qubits \ {a, b, c} : q \in R <=> q \in T
      /\ c \in R <=> ~ (c \in T <=> (a \in T /\ b \in T))
      /\ a \in R <=> ~ (a \in T <=> ~ (c \in T <=> (a \in T /\ b \in T)))
      /\ b \in R <=> ~ (b \in T <=> ~ (a \in T <=> ~ (c \in T <=> (a \in T /\ b \in T))))
  <2> HIDE DEF a, b, c
  <2>1. IsUnmajority(a, b, c, T, R)
    BY <1>2, UnmajorityWorks
  <2> QED BY <2>1 DEF IsUnmajority
<1> HIDE DEF R
<1>4. /\ \A j \in 1 .. i : B[j] \in T <=> ~ (B[j] \in S <=> w[j] \in S)
      /\ \A j \in i + 1 .. n : B[j] \in T <=> v[j]
      /\ \A j \in 0 .. i - 1 : w[j] \in T <=> ~ (Cy[j] <=> w[j + 1] \in S)
      /\ c \in T <=> Cy[i]
      /\ \A j \in i + 1 .. n : w[j] \in T <=> w[j] \in S
      /\ \A q \in Qubits : (\A j \in 0 .. n : q # w[j]) /\ (\A j \in 1 .. n : q # B[j]) => (q \in T <=> q \in O)
  BY DEF Rippled
<1>5. b \in T <=> ~ (b \in S <=> c \in S)
  BY <1>4
<1>6. a \in T <=> ~ (Cy[i - 1] <=> c \in S)
  <2>1. i - 1 \in 0 .. i - 1
    OBVIOUS
  <2> QED BY <1>1, <1>4, <2>1
<1>7. Cy[i] = Most(c \in S, b \in S, Cy[i - 1]) /\ Cy[i - 1] \in BOOLEAN
  BY <1>1 DEF AreCarries
<1>8. \A j \in 1 .. n : j # i => (B[j] \in R <=> B[j] \in T)
  <2>1. \A j \in 1 .. n : j # i => B[j] \in Qubits \ {a, b, c}
    BY <1>1 DEF Wired
  <2> QED BY <1>3, <2>1
<1>9. \A j \in 0 .. n : j # i /\ j # i - 1 => (w[j] \in R <=> w[j] \in T)
  <2>1. \A j \in 0 .. n : j # i /\ j # i - 1 => w[j] \in Qubits \ {a, b, c}
    BY <1>1 DEF Wired
  <2> QED BY <1>3, <2>1
<1>10. c \in R <=> c \in S
  BY <1>3, <1>4, <1>5, <1>6, <1>7 DEF Most
<1>11. a \in R <=> Cy[i - 1]
  BY <1>3, <1>4, <1>5, <1>6, <1>7 DEF Most
<1>12. b \in R <=> v[i]
  <2>1. v[i] <=> Odd(c \in S, b \in S, Cy[i - 1])
    OBVIOUS
  <2>2. b \in R <=> ~ (b \in T <=> a \in R)
    BY <1>3
  <2> QED BY <1>5, <1>7, <1>11, <2>1, <2>2 DEF Odd
<1>13. \A j \in 1 .. i - 1 : B[j] \in R <=> ~ (B[j] \in S <=> w[j] \in S)
  <2>1. \A j \in 1 .. i - 1 : j \in 1 .. i /\ j \in 1 .. n /\ j # i
    OBVIOUS
  <2> QED BY <1>4, <1>8, <2>1
<1>14. \A j \in (i - 1) + 1 .. n : B[j] \in R <=> v[j]
  <2>1. \A j \in (i - 1) + 1 .. n : j = i \/ (j \in i + 1 .. n /\ j \in 1 .. n /\ j # i)
    OBVIOUS
  <2> QED BY <1>4, <1>8, <1>12, <2>1
<1>15. \A j \in 0 .. (i - 1) - 1 : w[j] \in R <=> ~ (Cy[j] <=> w[j + 1] \in S)
  <2>1. \A j \in 0 .. (i - 1) - 1 : j \in 0 .. i - 1 /\ j \in 0 .. n /\ j # i /\ j # i - 1
    OBVIOUS
  <2> QED BY <1>4, <1>9, <2>1
<1>16. \A j \in (i - 1) + 1 .. n : w[j] \in R <=> w[j] \in S
  <2>1. \A j \in (i - 1) + 1 .. n : j = i \/ (j \in i + 1 .. n /\ j \in 0 .. n /\ j # i /\ j # i - 1)
    OBVIOUS
  <2> QED BY <1>4, <1>9, <1>10, <2>1
<1>17. ASSUME NEW q \in Qubits, \A j \in 0 .. n : q # w[j], \A j \in 1 .. n : q # B[j]
       PROVE  q \in R <=> q \in O
  <2>1. q \notin {a, b, c}
    BY <1>1, <1>17
  <2> QED BY <1>3, <1>4, <1>17, <2>1
<1> QED BY <1>11, <1>13, <1>14, <1>15, <1>16, <1>17 DEF Rippled, R

AdderQubits(A, B, c0) == {c0} \cup AsSet(A) \cup AsSet(B)

(* Circuits of blocks, each on qubits of D.                                  *)
LEMMA BlocksInRow ==
  ASSUME NEW D \in SUBSET Qubits, NEW n \in Nat, NEW part \in [1 .. n -> Seq(GatesOn(D, D))]
  PROVE  /\ part \in Seq(Seq(GatesOn(D, D))) /\ part \in Seq(Seq(GatesOn(Qubits, Qubits))) /\ Len(part) = n
         /\ FlattenSeq(part) \in Seq(GatesOn(D, D)) /\ FlattenSeq(part) \in Seq(GatesOn(Qubits, Qubits))
<1> DEFINE G == GatesOn(D, D)
<1>1. Seq(G) \subseteq Seq(GatesOn(Qubits, Qubits))
  BY AnyGates
<1> HIDE DEF G
<1>2. part \in Seq(Seq(G)) /\ Len(part) = n
  <2>1. part \in [1 .. n -> Seq(G)]
    BY DEF G
  <2> QED BY <2>1, PartsAreASequence
<1>3. part \in Seq(Seq(GatesOn(Qubits, Qubits)))
  BY <1>1, <1>2, SeqMonotonic
<1>4. FlattenSeq(part) \in Seq(G)
  BY <1>2, FlattenType
<1> QED BY <1>1, <1>2, <1>3, <1>4 DEF G

LEMMA AdderQubitsType ==
  ASSUME NEW A, NEW B, NEW c0, AdderLayout(A, B, c0)
  PROVE  /\ AdderQubits(A, B, c0) \in SUBSET Qubits
         /\ \A i \in 0 .. Len(A) : Wires(A, c0)[i] \in AdderQubits(A, B, c0)
         /\ \A i \in 1 .. Len(A) : B[i] \in AdderQubits(A, B, c0)
<1>1. A \in Seq(Qubits) /\ B \in Seq(Qubits) /\ c0 \in Qubits /\ Len(A) <= Len(B)
  BY DEF AdderLayout
<1>2. /\ \A i \in 1 .. Len(A) : A[i] \in AsSet(A)
      /\ \A i \in 1 .. Len(B) : B[i] \in AsSet(B)
      /\ Len(A) \in Nat /\ Len(B) \in Nat /\ AsSet(A) \in SUBSET Qubits /\ AsSet(B) \in SUBSET Qubits
  BY <1>1, RegisterType
<1>3. \A i \in 1 .. Len(A) : i \in 1 .. Len(B)
  BY <1>1, <1>2
<1>4. \A i \in 0 .. Len(A) : i = 0 \/ i \in 1 .. Len(A)
  BY <1>2
<1>5. \A i \in 0 .. Len(A) : Wires(A, c0)[i] \in AdderQubits(A, B, c0)
  BY <1>2, <1>4, Wiring DEF AdderQubits
<1> QED BY <1>1, <1>2, <1>3, <1>5 DEF AdderQubits

(* The two halves of an adder.                                               *)
WayUp(w, B, n) == [i \in 1 .. n |-> Majority(w[i - 1], B[i], w[i])]
WayDown(w, B, n) == [i \in 1 .. n |-> Unmajority(w[n - i], B[n - i + 1], w[n - i + 1])]

LEMMA RippleParts ==
  ASSUME NEW A, NEW B, NEW c0, AdderLayout(A, B, c0), NEW noOverflow, NEW out
  PROVE  Ripple(A, B, c0, noOverflow, out) =
           FlattenSeq(WayUp(Wires(A, c0), B, Len(A)))
             \o (IF noOverflow THEN <<>> ELSE CX(A[Len(A)], out))
             \o FlattenSeq(WayDown(Wires(A, c0), B, Len(A)))
<1> DEFINE n == Len(A)
           w == Wires(A, c0)
           carry(i) == IF i = 1 THEN c0 ELSE A[i - 1]
           up == [i \in 1 .. n - 1 + 1 |-> Majority(carry(1 + i - 1), B[1 + i - 1], A[1 + i - 1])]
           down == [i \in 1 .. n - 1 + 1 |-> Unmajority(carry(n - i + 1), B[n - i + 1], A[n - i + 1])]
<1>1. n \in Nat /\ n >= 1 /\ w[0] = c0 /\ \A i \in 1 .. n : w[i] = A[i]
  BY Wiring
<1> HIDE DEF n, w
<1>2. \A i \in 1 .. n : carry(i) = w[i - 1]
  <2>1. \A i \in 1 .. n : i = 1 \/ i - 1 \in 1 .. n
    BY <1>1
  <2>2. 1 - 1 = 0
    OBVIOUS
  <2> QED BY <1>1, <2>1, <2>2
<1> HIDE DEF carry
<1>3. up = WayUp(w, B, n)
  <2>1. n - 1 + 1 = n /\ \A i \in 1 .. n : 1 + i - 1 = i
    BY <1>1
  <2>2. \A i \in 1 .. n : Majority(carry(1 + i - 1), B[1 + i - 1], A[1 + i - 1]) = Majority(w[i - 1], B[i], w[i])
    BY <1>1, <1>2, <2>1
  <2> QED BY <2>1, <2>2 DEF WayUp
<1>4. down = WayDown(w, B, n)
  <2>1. n - 1 + 1 = n /\ \A i \in 1 .. n : n - i + 1 \in 1 .. n /\ (n - i + 1) - 1 = n - i
    BY <1>1
  <2>2. \A i \in 1 .. n : carry(n - i + 1) = w[n - i] /\ A[n - i + 1] = w[n - i + 1]
    BY <1>1, <1>2, <2>1
  <2>3. \A i \in 1 .. n : Unmajority(carry(n - i + 1), B[n - i + 1], A[n - i + 1])
                            = Unmajority(w[n - i], B[n - i + 1], w[n - i + 1])
    BY <2>2
  <2> QED BY <2>1, <2>3 DEF WayDown
<1>5. Ripple(A, B, c0, noOverflow, out) =
        FlattenSeq(up) \o (IF noOverflow THEN <<>> ELSE CX(A[n], out)) \o FlattenSeq(down)
  BY DEF Ripple, Each, EachDown, carry, n
<1> HIDE DEF up, down
<1> QED BY <1>3, <1>4, <1>5 DEF n, w

LEMMA UpAndDownTypes ==
  ASSUME NEW A, NEW B, NEW c0, AdderLayout(A, B, c0)
  PROVE  LET n == Len(A)
             w == Wires(A, c0)
             D == AdderQubits(A, B, c0)
         IN  /\ WayUp(w, B, n) \in [1 .. n -> Seq(GatesOn(D, D))]
             /\ WayDown(w, B, n) \in [1 .. n -> Seq(GatesOn(D, D))]
<1> DEFINE n == Len(A)
           w == Wires(A, c0)
           D == AdderQubits(A, B, c0)
<1>1. n \in Nat /\ Wired(w, B, n)
  BY Wiring
<1>2. D \in SUBSET Qubits /\ (\A i \in 0 .. n : w[i] \in D) /\ (\A i \in 1 .. n : B[i] \in D)
  BY AdderQubitsType
<1> HIDE DEF n, w, D
<1>3. ASSUME NEW i \in 1 .. n
      PROVE  /\ Majority(w[i - 1], B[i], w[i]) \in Seq(GatesOn(D, D))
             /\ Unmajority(w[i - 1], B[i], w[i]) \in Seq(GatesOn(D, D))
  <2> DEFINE a == w[i - 1]
             b == B[i]
             c == w[i]
  <2>0. i \in 0 .. n /\ i - 1 \in 0 .. n /\ i - 1 # i
    BY <1>1
  <2>1. Triple(a, b, c)
    BY <1>1, <2>0 DEF Triple, Wired
  <2>2. {a, b, c} \subseteq D
    BY <1>2, <2>0
  <2> HIDE DEF a, b, c
  <2>3. Majority(a, b, c) \in Seq(GatesOn({a, b, c}, {a, b, c}))
    BY <2>1, MajorityWorks
  <2>4. Unmajority(a, b, c) \in Seq(GatesOn({a, b, c}, {a, b, c}))
    BY <2>1, UnmajorityWorks
  <2>5. Seq(GatesOn({a, b, c}, {a, b, c})) \subseteq Seq(GatesOn(D, D))
    BY <2>2, WiderGates
  <2>6. Majority(a, b, c) \in Seq(GatesOn(D, D)) /\ Unmajority(a, b, c) \in Seq(GatesOn(D, D))
    BY <2>3, <2>4, <2>5
  <2> QED BY <2>6 DEF a, b, c
<1>4. WayUp(w, B, n) \in [1 .. n -> Seq(GatesOn(D, D))]
  BY <1>3 DEF WayUp
<1>5. WayDown(w, B, n) \in [1 .. n -> Seq(GatesOn(D, D))]
  <2>1. \A i \in 1 .. n : n - i + 1 \in 1 .. n /\ (n - i + 1) - 1 = n - i
    BY <1>1
  <2>2. ASSUME NEW i \in 1 .. n
        PROVE  Unmajority(w[n - i], B[n - i + 1], w[n - i + 1]) \in Seq(GatesOn(D, D))
    BY <1>3, <2>1
  <2> QED BY <2>2 DEF WayDown
<1> QED BY <1>4, <1>5 DEF n, w, D

(* What the way up, the last carry and the way down come to.                 *)
LEMMA UpTheAdder ==
  ASSUME NEW A, NEW B, NEW c0, AdderLayout(A, B, c0), NEW S \in SUBSET Qubits,
         NEW Cy, AreCarries(Cy, Wires(A, c0), B, S, Len(A)),
         NEW v, \A j \in 1 .. Len(A) : v[j] <=> B[j] \in S
  PROVE  LET n == Len(A)
             w == Wires(A, c0)
             R == After(FlattenSeq(WayUp(w, B, n)), S)
         IN  R \in SUBSET Qubits /\ Rippled(n, R, w, B, Cy, v, S, S, n)
<1> DEFINE n == Len(A)
           w == Wires(A, c0)
           D == AdderQubits(A, B, c0)
           ss == WayUp(w, B, n)
<1>1. n \in Nat /\ Wired(w, B, n) /\ D \in SUBSET Qubits
  BY Wiring, AdderQubitsType
<1>2. ss \in [1 .. n -> Seq(GatesOn(D, D))]
  BY UpAndDownTypes
<1>a. AreCarries(Cy, w, B, S, n) /\ \A j \in 1 .. n : v[j] <=> B[j] \in S
  OBVIOUS
<1> HIDE DEF n, w, D
<1>3. ss \in Seq(Seq(GatesOn(Qubits, Qubits))) /\ Len(ss) = n
  <2> HIDE DEF ss
  <2> QED BY <1>1, <1>2, BlocksInRow
<1>4. PICK t \in [0 .. n -> SUBSET Qubits] :
           /\ t[0] = S
           /\ \A i \in 1 .. n : t[i] = After(ss[i], t[i - 1])
           /\ After(FlattenSeq(ss), S) = t[n]
  <2> HIDE DEF ss
  <2> QED BY <1>3, AfterEach
<1> DEFINE I == {i \in Nat : i <= n => Rippled(i, t[i], w, B, Cy, v, S, S, n)}
<1>5. 0 \in I
  <2>1. Cy[0] = (w[0] \in S)
    BY <1>a DEF AreCarries
  <2>2. Rippled(0, t[0], w, B, Cy, v, S, S, n)
    <3>1. 1 .. 0 = {} /\ 0 .. 0 - 1 = {} /\ 0 + 1 = 1
      OBVIOUS
    <3>2. t[0] = S /\ \A j \in 1 .. n : B[j] \in t[0] <=> v[j]
      BY <1>4, <1>a
    <3> QED BY <2>1, <3>1, <3>2 DEF Rippled
  <2> QED BY <2>2
<1>6. ASSUME NEW i \in I, i < n PROVE i + 1 \in I
  <2>1. i \in Nat /\ i \in 0 .. n /\ i + 1 \in 1 .. n /\ (i + 1) - 1 = i /\ i <= n
    BY <1>1, <1>6
  <2>2. t[i] \in SUBSET Qubits /\ Rippled(i, t[i], w, B, Cy, v, S, S, n)
    <3>1. Rippled(i, t[i], w, B, Cy, v, S, S, n)
      BY <2>1
    <3> QED BY <1>4, <2>1, <3>1
  <2>3. t[i + 1] = After(Majority(w[i], B[i + 1], w[i + 1]), t[i])
    BY <1>4, <2>1 DEF WayUp
  <2> DEFINE k == i + 1
             T == t[i]
  <2>4. k \in 1 .. n /\ T \in SUBSET Qubits /\ Rippled(k - 1, T, w, B, Cy, v, S, S, n) /\ w[i] = w[k - 1]
    BY <2>1, <2>2
  <2>5. t[k] = After(Majority(w[k - 1], B[k], w[k]), T)
    BY <2>1, <2>3
  <2> HIDE DEF k, T, I
  <2>6. Rippled(k, After(Majority(w[k - 1], B[k], w[k]), T), w, B, Cy, v, S, S, n)
    BY <1>1, <1>a, <2>4, StepUp
  <2>7. Rippled(k, t[k], w, B, Cy, v, S, S, n)
    BY <2>5, <2>6
  <2> QED BY <2>1, <2>7 DEF k, I
<1>7. Rippled(n, t[n], w, B, Cy, v, S, S, n)
  <2>1. I \in SUBSET Nat
    OBVIOUS
  <2> HIDE DEF I
  <2>2. 0 .. n \subseteq I
    BY <1>1, <1>5, <1>6, <2>1, Induction
  <2> QED BY <1>1, <2>2 DEF I
<1>8. After(FlattenSeq(ss), S) \in SUBSET Qubits /\ Rippled(n, After(FlattenSeq(ss), S), w, B, Cy, v, S, S, n)
  BY <1>1, <1>4, <1>7
<1> QED BY <1>8 DEF n, w

LEMMA DownTheAdder ==
  ASSUME NEW A, NEW B, NEW c0, AdderLayout(A, B, c0), NEW S \in SUBSET Qubits, NEW O,
         NEW Cy, AreCarries(Cy, Wires(A, c0), B, S, Len(A)),
         NEW v, \A j \in 1 .. Len(A) : v[j] <=> Odd(Wires(A, c0)[j] \in S, B[j] \in S, Cy[j - 1]),
         NEW T \in SUBSET Qubits, Rippled(Len(A), T, Wires(A, c0), B, Cy, v, S, O, Len(A))
  PROVE  LET n == Len(A)
             w == Wires(A, c0)
             R == After(FlattenSeq(WayDown(w, B, n)), T)
         IN  R \in SUBSET Qubits /\ Rippled(0, R, w, B, Cy, v, S, O, n)
<1> DEFINE n == Len(A)
           w == Wires(A, c0)
           D == AdderQubits(A, B, c0)
           ss == WayDown(w, B, n)
<1>1. n \in Nat /\ Wired(w, B, n) /\ D \in SUBSET Qubits
  BY Wiring, AdderQubitsType
<1>2. ss \in [1 .. n -> Seq(GatesOn(D, D))]
  BY UpAndDownTypes
<1>a. AreCarries(Cy, w, B, S, n) /\ (\A j \in 1 .. n : v[j] <=> Odd(w[j] \in S, B[j] \in S, Cy[j - 1]))
      /\ Rippled(n, T, w, B, Cy, v, S, O, n)
  OBVIOUS
<1> HIDE DEF n, w, D
<1>3. ss \in Seq(Seq(GatesOn(Qubits, Qubits))) /\ Len(ss) = n
  <2> HIDE DEF ss
  <2> QED BY <1>1, <1>2, BlocksInRow
<1>4. PICK t \in [0 .. n -> SUBSET Qubits] :
           /\ t[0] = T
           /\ \A i \in 1 .. n : t[i] = After(ss[i], t[i - 1])
           /\ After(FlattenSeq(ss), T) = t[n]
  <2> HIDE DEF ss
  <2> QED BY <1>3, AfterEach
<1> DEFINE I == {i \in Nat : i <= n => Rippled(n - i, t[i], w, B, Cy, v, S, O, n)}
<1>5. 0 \in I
  BY <1>1, <1>4, <1>a
<1>6. ASSUME NEW i \in I, i < n PROVE i + 1 \in I
  <2>1. i \in Nat /\ i \in 0 .. n /\ i + 1 \in 1 .. n /\ (i + 1) - 1 = i /\ i <= n
    BY <1>1, <1>6
  <2>2. t[i] \in SUBSET Qubits /\ Rippled(n - i, t[i], w, B, Cy, v, S, O, n)
    <3>1. Rippled(n - i, t[i], w, B, Cy, v, S, O, n)
      BY <2>1
    <3> QED BY <1>4, <2>1, <3>1
  <2> DEFINE k == n - i
             Y == t[i]
  <2>4. k \in 1 .. n /\ Y \in SUBSET Qubits /\ Rippled(k, Y, w, B, Cy, v, S, O, n)
        /\ n - (i + 1) = k - 1 /\ n - (i + 1) + 1 = k
    BY <1>1, <2>1, <2>2
  <2>5. t[i + 1] = After(Unmajority(w[k - 1], B[k], w[k]), Y)
    <3>1. ss[i + 1] = Unmajority(w[n - (i + 1)], B[n - (i + 1) + 1], w[n - (i + 1) + 1])
      BY <2>1 DEF WayDown
    <3>2. ss[i + 1] = Unmajority(w[k - 1], B[k], w[k])
      <4> HIDE DEF k, ss
      <4> QED BY <2>4, <3>1
    <3> HIDE DEF k, ss
    <3> QED BY <1>4, <2>1, <3>2
  <2> HIDE DEF k, Y, I
  <2>6. Rippled(k - 1, After(Unmajority(w[k - 1], B[k], w[k]), Y), w, B, Cy, v, S, O, n)
    BY <1>1, <1>a, <2>4, StepDown
  <2>7. Rippled(n - (i + 1), t[i + 1], w, B, Cy, v, S, O, n)
    BY <2>4, <2>5, <2>6
  <2> QED BY <2>1, <2>7 DEF I
<1>7. Rippled(0, t[n], w, B, Cy, v, S, O, n)
  <2>1. I \in SUBSET Nat /\ n - n = 0
    BY <1>1
  <2> HIDE DEF I
  <2>2. 0 .. n \subseteq I
    BY <1>1, <1>5, <1>6, <2>1, Induction
  <2> QED BY <1>1, <2>1, <2>2 DEF I
<1>8. After(FlattenSeq(ss), T) \in SUBSET Qubits /\ Rippled(0, After(FlattenSeq(ss), T), w, B, Cy, v, S, O, n)
  BY <1>1, <1>4, <1>7
<1> QED BY <1>8 DEF n, w

(* What an addition leaves.                                                  *)
IsSum(A, B, c0, noOverflow, out, Cy, S, R) ==
  /\ \A j \in 1 .. Len(A) : B[j] \in R <=> Odd(A[j] \in S, B[j] \in S, Cy[j - 1])
  /\ ~ noOverflow => (out \in R <=> ~ (out \in S <=> Cy[Len(A)]))
  /\ \A q \in Qubits : (\A j \in 1 .. Len(A) : q # B[j]) /\ (noOverflow \/ q # out) => (q \in R <=> q \in S)

Writes(noOverflow, out) == IF noOverflow THEN {} ELSE {out}

LEMMA RippleType ==
  ASSUME NEW A, NEW B, NEW c0, AdderLayout(A, B, c0), NEW noOverflow \in BOOLEAN, NEW out,
         ~ noOverflow => out \in Qubits /\ out \notin AsSet(A)
  PROVE  /\ AdderQubits(A, B, c0) \cup Writes(noOverflow, out) \in SUBSET Qubits
         /\ Ripple(A, B, c0, noOverflow, out) \in
              Seq(GatesOn(AdderQubits(A, B, c0) \cup Writes(noOverflow, out),
                          AdderQubits(A, B, c0) \cup Writes(noOverflow, out)))
<1> DEFINE n == Len(A)
           w == Wires(A, c0)
           D == AdderQubits(A, B, c0)
           E == D \cup Writes(noOverflow, out)
           up == FlattenSeq(WayUp(w, B, n))
           down == FlattenSeq(WayDown(w, B, n))
           last == IF noOverflow THEN <<>> ELSE CX(A[n], out)
<1>1. n \in Nat /\ n >= 1 /\ D \in SUBSET Qubits /\ E \in SUBSET Qubits
  BY Wiring, AdderQubitsType DEF Writes
<1>2. WayUp(w, B, n) \in [1 .. n -> Seq(GatesOn(D, D))] /\ WayDown(w, B, n) \in [1 .. n -> Seq(GatesOn(D, D))]
  BY UpAndDownTypes
<1>3. Ripple(A, B, c0, noOverflow, out) = up \o last \o down
  BY RippleParts
<1>4. ~ noOverflow => A[n] \in Qubits /\ A[n] \in D /\ A[n] # out /\ out \in E
  <2>1. A[n] \in AsSet(A) /\ A[n] \in Qubits
    BY <1>1, RegisterType DEF AdderLayout
  <2> QED BY <2>1 DEF Writes, AdderQubits
<1> HIDE DEF D, n, w
<1>5. up \in Seq(GatesOn(D, D)) /\ down \in Seq(GatesOn(D, D))
  BY <1>1, <1>2, BlocksInRow
<1>6. D \subseteq E
  OBVIOUS
<1> HIDE DEF up, down, E
<1>7. up \in Seq(GatesOn(E, E)) /\ down \in Seq(GatesOn(E, E))
  BY <1>5, <1>6, WiderGates
<1>8. last \in Seq(GatesOn(E, E))
  <2>1. CASE noOverflow
    BY <2>1, EmptySeq
  <2>2. CASE ~ noOverflow
    <3>1. NotGate(out, {A[n]}) \in GatesOn(E, E)
      BY <1>4, <1>6, <2>2, GateType
    <3>2. last = <<NotGate(out, {A[n]})>>
      BY <2>2, OneCX
    <3>3. <<NotGate(out, {A[n]})>> \in Seq(GatesOn(E, E))
      BY <3>1
    <3> HIDE DEF last
    <3> QED BY <3>2, <3>3
  <2> QED BY <2>1, <2>2
<1> HIDE DEF last
<1>9. up \o last \in Seq(GatesOn(E, E))
  BY <1>7, <1>8, ConcatProperties
<1>10. up \o last \o down \in Seq(GatesOn(E, E))
  BY <1>7, <1>9, ConcatProperties
<1> QED BY <1>1, <1>3, <1>10 DEF E, D

LEMMA RippleWorks ==
  ASSUME NEW A, NEW B, NEW c0, AdderLayout(A, B, c0), NEW noOverflow \in BOOLEAN, NEW out,
         ~ noOverflow => /\ out \in Qubits /\ out # c0 /\ out \notin AsSet(A)
                         /\ \A j \in 1 .. Len(A) : out # B[j],
         NEW S \in SUBSET Qubits, NEW Cy, AreCarries(Cy, Wires(A, c0), B, S, Len(A))
  PROVE  IsSum(A, B, c0, noOverflow, out, Cy, S, After(Ripple(A, B, c0, noOverflow, out), S))
<1> DEFINE n == Len(A)
           w == Wires(A, c0)
           D == AdderQubits(A, B, c0)
           up == FlattenSeq(WayUp(w, B, n))
           down == FlattenSeq(WayDown(w, B, n))
           last == IF noOverflow THEN <<>> ELSE CX(A[n], out)
           v0 == [j \in 1 .. n |-> B[j] \in S]
           v == [j \in 1 .. n |-> Odd(w[j] \in S, B[j] \in S, Cy[j - 1])]
           T1 == After(up, S)
           T2 == After(last, T1)
           R == After(down, T2)
<1>1. /\ n \in Nat /\ n >= 1 /\ w[0] = c0 /\ (\A j \in 1 .. n : w[j] = A[j]) /\ Wired(w, B, n)
      /\ D \in SUBSET Qubits
  BY Wiring, AdderQubitsType
<1>2. WayUp(w, B, n) \in [1 .. n -> Seq(GatesOn(D, D))] /\ WayDown(w, B, n) \in [1 .. n -> Seq(GatesOn(D, D))]
  BY UpAndDownTypes
<1>3. up \in Seq(GatesOn(Qubits, Qubits)) /\ down \in Seq(GatesOn(Qubits, Qubits))
  <2> HIDE DEF n, w, D
  <2> QED BY <1>1, <1>2, BlocksInRow
<1>4. T1 \in SUBSET Qubits /\ Rippled(n, T1, w, B, Cy, v0, S, S, n)
  <2>1. \A j \in 1 .. n : v0[j] <=> B[j] \in S
    OBVIOUS
  <2> HIDE DEF v0
  <2> QED BY <2>1, UpTheAdder
<1>5. AreCarries(Cy, w, B, S, n) /\ n \in 0 .. n /\ n \in 1 .. n
  BY <1>1
<1>6. ~ noOverflow => out \in Qubits /\ A[n] \in Qubits /\ A[n] # out /\ (\A j \in 0 .. n : out # w[j])
                      /\ (\A j \in 1 .. n : out # B[j])
  <2>1. A[n] \in AsSet(A) /\ A[n] \in Qubits /\ \A j \in 1 .. n : A[j] \in AsSet(A)
    BY <1>1, RegisterType DEF AdderLayout
  <2>2. \A j \in 0 .. n : j = 0 \/ j \in 1 .. n
    BY <1>1
  <2> HIDE DEF n, w
  <2> QED BY <1>1, <2>1, <2>2 DEF n
<1>7. last \in Seq(GatesOn(Qubits, Qubits)) /\ T2 \in SUBSET Qubits
      /\ (~ noOverflow => (out \in T2 <=> ~ (out \in T1 <=> A[n] \in T1)))
      /\ (\A q \in Qubits : noOverflow \/ q # out => (q \in T2 <=> q \in T1))
  <2> HIDE DEF T1, n
  <2>1. CASE noOverflow
    <3>1. last = <<>>
      BY <2>1
    <3>2. T2 = T1
      BY <1>4, <3>1, AfterEmpty
    <3> QED BY <1>4, <2>1, <3>1, <3>2, EmptySeq
  <2>2. CASE ~ noOverflow
    <3> DEFINE K == {A[n]}
    <3>1. last = <<NotGate(out, K)>> /\ K \in SUBSET Qubits /\ out \notin K /\ out \in Qubits
      BY <1>6, <2>2, OneCX
    <3> HIDE DEF K
    <3>2. T2 \in SUBSET Qubits /\ Negates(out, K, T1, T2)
      BY <1>4, <3>1, NotNegates
    <3>3. last \in Seq(GatesOn(Qubits, Qubits))
      <4>1. NotGate(out, K) \in GatesOn(Qubits, Qubits)
        BY <3>1, GateType
      <4>2. <<NotGate(out, K)>> \in Seq(GatesOn(Qubits, Qubits))
        BY <4>1
      <4> HIDE DEF last
      <4> QED BY <3>1, <4>2
    <3>4. (out \in T2 <=> ~ (out \in T1 <=> A[n] \in T1)) /\ \A q \in Qubits : q # out => (q \in T2 <=> q \in T1)
      BY <3>2 DEF Negates, K
    <3> HIDE DEF T2, last
    <3> QED BY <2>2, <3>2, <3>3, <3>4
  <2> QED BY <2>1, <2>2
<1>8. Rippled(n, T2, w, B, Cy, v, S, T2, n)
  <2> HIDE DEF T1, T2, n, w, D, up, down, last, v, v0
  <2>1. (\A j \in 0 .. n : w[j] \in T2 <=> w[j] \in T1) /\ (\A j \in 1 .. n : B[j] \in T2 <=> B[j] \in T1)
    BY <1>1, <1>6, <1>7 DEF Wired
  <2>2. n + 1 .. n = {} /\ \A j \in 0 .. n - 1 : j \in 0 .. n
    BY <1>1
  <2> QED BY <1>1, <1>4, <1>5, <2>1, <2>2 DEF Rippled
<1>9. R \in SUBSET Qubits /\ Rippled(0, R, w, B, Cy, v, S, T2, n)
  <2>1. \A j \in 1 .. n : v[j] <=> Odd(w[j] \in S, B[j] \in S, Cy[j - 1])
    OBVIOUS
  <2>2. T2 \in SUBSET Qubits
    BY <1>7
  <2> HIDE DEF T2, v
  <2> QED BY <1>8, <2>1, <2>2, DownTheAdder
<1>10. Ripple(A, B, c0, noOverflow, out) = up \o last \o down
  BY RippleParts
<1>11. After(up \o last \o down, S) = R
  <2> HIDE DEF up, last, down
  <2>1. up \o last \in Seq(GatesOn(Qubits, Qubits)) /\ After(up \o last, S) = T2
    BY <1>3, <1>7, AfterConcat, ConcatProperties
  <2>2. After((up \o last) \o down, S) = After(down, After(up \o last, S))
    BY <1>3, <2>1, AfterConcat
  <2> QED BY <2>1, <2>2
<1>12. \A j \in 1 .. n : v[j] <=> Odd(A[j] \in S, B[j] \in S, Cy[j - 1])
  BY <1>1
<1> HIDE DEF T1, T2, R, n, w, D, up, down, last, v, v0
<1>13. \A j \in 1 .. n : B[j] \in R <=> Odd(A[j] \in S, B[j] \in S, Cy[j - 1])
  <2>1. 0 + 1 = 1
    OBVIOUS
  <2>2. \A j \in 1 .. n : B[j] \in R <=> v[j]
    BY <1>9, <2>1 DEF Rippled
  <2> QED BY <1>12, <2>2
<1>14. /\ w[0] \in R <=> w[0] \in S
       /\ \A j \in 1 .. n : w[j] \in R <=> w[j] \in S
  <2>1. 0 + 1 = 1
    OBVIOUS
  <2>2. Cy[0] = (w[0] \in S)
    BY <1>5 DEF AreCarries
  <2> QED BY <1>9, <2>1, <2>2 DEF Rippled
<1>15. \A q \in Qubits : (\A j \in 0 .. n : q # w[j]) /\ (\A j \in 1 .. n : q # B[j]) => (q \in T1 <=> q \in S) /\ (q \in R <=> q \in T2)
  BY <1>4, <1>9 DEF Rippled
<1>16. ASSUME ~ noOverflow PROVE out \in R <=> ~ (out \in S <=> Cy[n])
  <2>1. A[n] \in T1 <=> Cy[n]
    BY <1>1, <1>4, <1>5 DEF Rippled
  <2> QED BY <1>6, <1>7, <1>15, <1>16, <2>1
<1>17. ASSUME NEW q \in Qubits, \A j \in 1 .. n : q # B[j], noOverflow \/ q # out
       PROVE  q \in R <=> q \in S
  <2>1. CASE \E j \in 0 .. n : q = w[j]
    <3>1. \A j \in 0 .. n : j = 0 \/ j \in 1 .. n
      BY <1>1
    <3> QED BY <1>14, <2>1, <3>1
  <2>2. CASE \A j \in 0 .. n : q # w[j]
    BY <1>7, <1>15, <1>17, <2>2
  <2> QED BY <2>1, <2>2
<1>18. IsSum(A, B, c0, noOverflow, out, Cy, S, R)
  BY <1>13, <1>16, <1>17 DEF IsSum, n
<1> QED BY <1>10, <1>11, <1>18

(* The numbers a register holds from each of its qubits upwards.             *)
IsTail(f, r, S) ==
  /\ f \in [0 .. Len(r) -> Nat]
  /\ f[Len(r)] = 0
  /\ \A j \in 1 .. Len(r) : f[j - 1] = 2 * f[j] + Bit(r[j], S)

LEMMA NumberTail ==
  ASSUME NEW r, Len(r) \in Nat, NEW S
  PROVE  \E f : IsTail(f, r, S) /\ Number(r, S) = f[0]
<1> DEFINE n == Len(r)
           bit(i) == Bit(r[n - i + 1], S)
           Body(h) == [i \in 0 .. n |-> IF i = 0 THEN 0 ELSE 2 * h[i - 1] + bit(i)]
           step == [q \in Nat \X (1 .. n) |-> 2 * q[1] + bit(q[2])]
<1>1. \A i \in 1 .. n : bit(i) \in Nat
  BY DEF Bit
<1>2. step \in [Nat \X (1 .. n) -> Nat]
  <2> HIDE DEF bit
  <2>1. \A q \in Nat \X (1 .. n) : 2 * q[1] + bit(q[2]) \in Nat
    BY <1>1
  <2> QED BY <2>1
<1>3. PICK g \in [0 .. n -> Nat] : Recursion(g, n, 0, step)
  <2> HIDE DEF step, n
  <2> QED BY <1>2, RecursionOverInterval DEF n
<1> HIDE DEF bit
<1>4. g[0] = 0 /\ \A i \in 1 .. n : g[i] = 2 * g[i - 1] + bit(i)
  <2>1. \A i \in 1 .. n : i - 1 \in 0 .. n
    OBVIOUS
  <2>2. \A i \in 1 .. n : step[<<g[i - 1], i>>] = 2 * g[i - 1] + bit(i)
    BY <2>1
  <2> HIDE DEF step
  <2> QED BY <1>3, <2>2 DEF Recursion
<1>5. g = Body(g)
  <2>1. \A i \in 0 .. n : g[i] = IF i = 0 THEN 0 ELSE 2 * g[i - 1] + bit(i)
    BY <1>4
  <2> QED BY <2>1
<1> DEFINE last == CHOOSE h : h = Body(h)
<1>6. last = Body(last)
  <2> HIDE DEF Body
  <2> QED BY <1>5
<1>7. Number(r, S) = last[n]
  BY DEF Number, bit
<1> HIDE DEF last
<1>8. last[0] = 0 /\ \A i \in 1 .. n : last[i] = 2 * last[i - 1] + bit(i)
  BY <1>6
<1>9. GoOnAlike(g, last, n)
  BY <1>4, <1>8 DEF GoOnAlike
<1>10. \A i \in 0 .. n : g[i] = last[i]
  BY <1>9, SameRecursion
<1> DEFINE f == [j \in 0 .. n |-> g[n - j]]
<1>11. f \in [0 .. n -> Nat] /\ f[n] = 0 /\ f[0] = g[n]
  <2>1. n - n = 0 /\ n - 0 = n /\ (\A j \in 0 .. n : n - j \in 0 .. n)
    OBVIOUS
  <2> QED BY <1>4, <2>1
<1>12. \A j \in 1 .. n : f[j - 1] = 2 * f[j] + Bit(r[j], S)
  <2>1. ASSUME NEW j \in 1 .. n PROVE f[j - 1] = 2 * f[j] + Bit(r[j], S)
    <3> DEFINE i == n - (j - 1)
    <3>1. i \in 1 .. n /\ i - 1 = n - j /\ n - i + 1 = j /\ j - 1 \in 0 .. n /\ j \in 0 .. n
      OBVIOUS
    <3>2. f[j - 1] = g[i] /\ f[j] = g[i - 1]
      BY <3>1
    <3> HIDE DEF i, f
    <3>3. g[i] = 2 * g[i - 1] + bit(i)
      BY <1>4, <3>1
    <3>4. bit(i) = Bit(r[j], S)
      BY <3>1 DEF bit
    <3> QED BY <3>2, <3>3, <3>4
  <2> QED BY <2>1
<1>13. IsTail(f, r, S)
  <2> HIDE DEF f
  <2> QED BY <1>11, <1>12 DEF IsTail
<1>14. Number(r, S) = f[0]
  BY <1>7, <1>10, <1>11
<1> QED BY <1>13, <1>14

LEMMA TailIsNumber ==
  ASSUME NEW r, Len(r) \in Nat, NEW S, NEW f, IsTail(f, r, S)
  PROVE  Number(r, S) = f[0]
<1> DEFINE n == Len(r)
<1>1. PICK g : IsTail(g, r, S) /\ Number(r, S) = g[0]
  BY NumberTail
<1> DEFINE fu == [i \in 0 .. n |-> f[n - i]]
           gu == [i \in 0 .. n |-> g[n - i]]
<1>2. fu[0] = gu[0]
  BY <1>1 DEF IsTail
<1>3. ASSUME NEW i \in 1 .. n, fu[i - 1] = gu[i - 1] PROVE fu[i] = gu[i]
  <2> DEFINE j == n - i + 1
  <2>1. j \in 1 .. n /\ j - 1 = n - i /\ n - (i - 1) = j /\ i - 1 \in 0 .. n /\ i \in 0 .. n
    OBVIOUS
  <2>2. fu[i - 1] = f[j] /\ gu[i - 1] = g[j] /\ fu[i] = f[j - 1] /\ gu[i] = g[j - 1]
    BY <2>1
  <2> HIDE DEF fu, gu, j
  <2>3. f[j - 1] = 2 * f[j] + Bit(r[j], S) /\ g[j - 1] = 2 * g[j] + Bit(r[j], S)
    BY <1>1, <2>1 DEF IsTail
  <2> QED BY <1>3, <2>2, <2>3
<1>4. GoOnAlike(fu, gu, n)
  <2> HIDE DEF fu, gu
  <2> QED BY <1>2, <1>3 DEF GoOnAlike
<1>5. \A i \in 0 .. n : fu[i] = gu[i]
  <2> HIDE DEF fu, gu
  <2> QED BY <1>4, SameRecursion
<1>6. fu[n] = f[0] /\ gu[n] = g[0]
  OBVIOUS
<1> QED BY <1>1, <1>5, <1>6

(* A number halved again and again.                                          *)
IsHalved(h, N, m) ==
  /\ h \in [0 .. m -> Int]
  /\ h[0] = N
  /\ \A j \in 1 .. m : h[j] = h[j - 1] \div 2

LEMMA HalvesAreHalved ==
  ASSUME NEW N \in Int, NEW m \in Nat
  PROVE  IsHalved(Halves(N, m), N, m)
<1> DEFINE Body(h) == [i \in 0 .. m |-> IF i = 0 THEN N ELSE h[i - 1] \div 2]
           step == [q \in Int \X (1 .. m) |-> q[1] \div 2]
<1>1. step \in [Int \X (1 .. m) -> Int]
  OBVIOUS
<1>2. PICK g \in [0 .. m -> Int] : Recursion(g, m, N, step)
  <2> HIDE DEF step
  <2> QED BY <1>1, RecursionOverInterval
<1>3. g[0] = N /\ \A i \in 1 .. m : g[i] = g[i - 1] \div 2
  <2>1. \A i \in 1 .. m : step[<<g[i - 1], i>>] = g[i - 1] \div 2
    OBVIOUS
  <2> HIDE DEF step
  <2> QED BY <1>2, <2>1 DEF Recursion
<1>4. g = Body(g)
  <2>1. \A i \in 0 .. m : g[i] = IF i = 0 THEN N ELSE g[i - 1] \div 2
    BY <1>3
  <2> QED BY <2>1
<1> DEFINE half == CHOOSE h : h = Body(h)
<1>5. half = Body(half)
  <2> HIDE DEF Body
  <2> QED BY <1>4
<1>6. Halves(N, m) = half
  BY DEF Halves
<1> HIDE DEF half
<1>7. half[0] = N /\ (\A i \in 1 .. m : half[i] = half[i - 1] \div 2) /\ half = [i \in 0 .. m |-> half[i]]
  BY <1>5
<1>8. GoOnAlike(g, half, m)
  BY <1>3, <1>7 DEF GoOnAlike
<1>9. \A i \in 0 .. m : g[i] = half[i]
  BY <1>8, SameRecursion
<1>10. half \in [0 .. m -> Int]
  <2>1. \A i \in 0 .. m : half[i] \in Int
    BY <1>9
  <2> QED BY <1>7, <2>1
<1> QED BY <1>6, <1>7, <1>10 DEF IsHalved

LEMMA SameHalves ==
  ASSUME NEW N, NEW m \in Nat, NEW h, IsHalved(h, N, m), NEW g, IsHalved(g, N, m)
  PROVE  \A j \in 0 .. m : h[j] = g[j]
<1>1. GoOnAlike(h, g, m)
  BY DEF GoOnAlike, IsHalved
<1> QED BY <1>1, SameRecursion

(* A state that holds the digits of a number in a register.                  *)
HoldsDigits(r, R, h) == \A j \in 1 .. Len(r) : r[j] \in R <=> h[j - 1] % 2 = 1
AlikeOff(r, R, S) == \A q \in Qubits : q \notin AsSet(r) => (q \in R <=> q \in S)

LEMMA NumberWritten ==
  ASSUME NEW r \in Seq(Qubits), NEW S \in SUBSET Qubits, NEW R \in SUBSET Qubits, NEW N \in Int,
         NEW h, IsHalved(h, N, Len(r)), HoldsDigits(r, R, h), AlikeOff(r, R, S)
  PROVE  R = WithNumber(S, r, N)
<1> DEFINE m == Len(r)
           half == Halves(N, m)
           new == {r[i] : i \in {j \in DOMAIN r : half[j - 1] % 2 = 1}}
<1>1. m \in Nat /\ DOMAIN r = 1 .. m /\ (\A i \in 1 .. m : r[i] \in Qubits) /\ AsSet(r) = {r[i] : i \in 1 .. m}
  BY RegisterType DEF AsSet
<1>2. \A j \in 1 .. m : half[j - 1] = h[j - 1]
  <2>1. \A j \in 0 .. m : half[j] = h[j]
    BY <1>1, HalvesAreHalved, SameHalves
  <2>2. \A j \in 1 .. m : j - 1 \in 0 .. m
    BY <1>1
  <2> QED BY <2>1, <2>2
<1>3. WithNumber(S, r, N) = (S \ AsSet(r)) \cup new
  BY DEF WithNumber
<1> HIDE DEF half
<1>4. ASSUME NEW i \in 1 .. m PROVE r[i] \in new <=> r[i] \in R
  <2>1. r[i] \in R <=> half[i - 1] % 2 = 1
    BY <1>2 DEF HoldsDigits
  <2>2. half[i - 1] % 2 = 1 => r[i] \in new
    BY <1>1
  <2>3. r[i] \in new => \E j \in 1 .. m : r[j] = r[i] /\ half[j - 1] % 2 = 1
    BY <1>1
  <2>4. r[i] \in new => r[i] \in R
    BY <1>2, <2>3 DEF HoldsDigits
  <2> QED BY <2>1, <2>2, <2>4
<1>5. new \subseteq AsSet(r)
  BY <1>1
<1> HIDE DEF new
<1>6. ASSUME NEW q \in Qubits PROVE q \in R <=> q \in (S \ AsSet(r)) \cup new
  <2>1. CASE q \in AsSet(r)
    BY <1>1, <1>4, <2>1
  <2>2. CASE q \notin AsSet(r)
    BY <1>5, <2>2 DEF AlikeOff
  <2> QED BY <2>1, <2>2
<1>7. (S \ AsSet(r)) \cup new \subseteq Qubits
  BY <1>1, <1>5
<1> QED BY <1>3, <1>6, <1>7

One(p) == IF p THEN 1 ELSE 0

LEMMA BitIsOne == ASSUME NEW q, NEW S PROVE Bit(q, S) = One(q \in S)
BY DEF Bit, One

(* Two numbers halved, their lowest digits and a carry, and the sum N.       *)
Halving(N, x, y, p, q, s) ==
  /\ N = (2 * x + One(p)) + (2 * y + One(q)) + One(s)
  /\ N \div 2 = x + y + One(Most(p, q, s))
  /\ N % 2 = 1 <=> Odd(p, q, s)

LEMMA HalvedSum ==
  ASSUME NEW x \in Int, NEW y \in Int, NEW p \in BOOLEAN, NEW q \in BOOLEAN, NEW s \in BOOLEAN
  PROVE  Halving((2 * x + One(p)) + (2 * y + One(q)) + One(s), x, y, p, q, s)
<1>1. \A z \in Int : /\ (2 * z) \div 2 = z /\ (2 * z + 1) \div 2 = z /\ (2 * z + 2) \div 2 = z + 1 /\ (2 * z + 3) \div 2 = z + 1
                     /\ (2 * z) % 2 = 0 /\ (2 * z + 1) % 2 = 1 /\ (2 * z + 2) % 2 = 0 /\ (2 * z + 3) % 2 = 1
  OBVIOUS
<1> DEFINE z == x + y
           t == One(p) + One(q) + One(s)
<1>2. z \in Int /\ t \in {0, 1, 2, 3} /\ (2 * x + One(p)) + (2 * y + One(q)) + One(s) = 2 * z + t
  BY DEF One
<1>3. (t = 0 \/ t = 1) <=> ~ Most(p, q, s)
  BY DEF One, Most
<1>4. (t = 1 \/ t = 3) <=> Odd(p, q, s)
  BY DEF One, Odd
<1> HIDE DEF z, t
<1>5. (2 * z + t) \div 2 = z + One(Most(p, q, s))
  <2>1. CASE Most(p, q, s)
    <3>1. t = 2 \/ t = 3
      BY <1>2, <1>3, <2>1
    <3>2. One(Most(p, q, s)) = 1
      BY <2>1 DEF One
    <3> QED BY <1>1, <1>2, <3>1, <3>2
  <2>2. CASE ~ Most(p, q, s)
    <3>1. t = 0 \/ t = 1
      BY <1>3, <2>2
    <3>2. One(Most(p, q, s)) = 0
      BY <2>2 DEF One
    <3> QED BY <1>1, <1>2, <3>1, <3>2
  <2> QED BY <2>1, <2>2
<1>6. (2 * z + t) % 2 = 1 <=> (t = 1 \/ t = 3)
  <2>1. t = 0 \/ t = 1 \/ t = 2 \/ t = 3
    BY <1>2
  <2> QED BY <1>1, <1>2, <2>1
<1> QED BY <1>2, <1>4, <1>5, <1>6 DEF z, Halving

(* Halving a sum is halving both numbers and carrying.                       *)
AddsUp(h, fA, fB, Cy, n) == \A j \in 0 .. n : h[j] = fA[j] + fB[j] + One(Cy[j])

LEMMA SumHalved ==
  ASSUME NEW A, NEW B, NEW c0, AdderLayout(A, B, c0), NEW S,
         NEW Cy, AreCarries(Cy, Wires(A, c0), B, S, Len(A)),
         NEW fA, IsTail(fA, A, S), NEW fB, IsTail(fB, B, S),
         NEW m \in Nat, Len(A) <= m, NEW h, IsHalved(h, fA[0] + fB[0] + Bit(c0, S), m)
  PROVE  AddsUp(h, fA, fB, Cy, Len(A))
<1> DEFINE n == Len(A)
           k == Len(B)
           w == Wires(A, c0)
<1>a. n \in Nat /\ n >= 1 /\ w[0] = c0 /\ (\A j \in 1 .. n : w[j] = A[j]) /\ k \in Nat /\ n <= k /\ n <= m
  <2>1. n \in Nat /\ n >= 1 /\ w[0] = c0 /\ (\A j \in 1 .. n : w[j] = A[j])
    BY Wiring
  <2>2. k \in Nat /\ n <= k
    BY LenProperties DEF AdderLayout
  <2> QED BY <2>1, <2>2
<1>b. fA \in [0 .. n -> Nat] /\ \A j \in 1 .. n : fA[j - 1] = 2 * fA[j] + Bit(A[j], S)
  BY DEF IsTail
<1>c. fB \in [0 .. k -> Nat] /\ \A j \in 1 .. k : fB[j - 1] = 2 * fB[j] + Bit(B[j], S)
  BY DEF IsTail
<1>d. AreCarries(Cy, w, B, S, n) /\ IsHalved(h, fA[0] + fB[0] + Bit(w[0], S), m)
  BY <1>a
<1> HIDE DEF n, k, w
<1> DEFINE I == {j \in Nat : j <= n => h[j] = fA[j] + fB[j] + One(Cy[j])}
<1>1. 0 \in I
  <2>1. Cy[0] = (w[0] \in S)
    BY <1>d DEF AreCarries
  <2>2. One(Cy[0]) = Bit(w[0], S)
    BY <1>b, <1>c, <2>1, BitIsOne
  <2>3. h[0] = fA[0] + fB[0] + One(Cy[0])
    BY <1>a, <1>d, <2>2 DEF IsHalved
  <2> QED BY <2>3
<1>2. ASSUME NEW j \in I, j < n PROVE j + 1 \in I
  <2> DEFINE i == j + 1
  <2>1. j \in Nat /\ j \in 0 .. n /\ i \in 1 .. n /\ i \in 1 .. m /\ i \in 1 .. k /\ i \in 0 .. n /\ i \in 0 .. k /\ i - 1 = j /\ j <= n /\ i \in Nat
    BY <1>a, <1>2
  <2>2. h[j] = fA[j] + fB[j] + One(Cy[j])
    BY <2>1
  <2> HIDE DEF i, I
  <2>3. fA[j] = 2 * fA[i] + One(A[i] \in S) /\ fB[j] = 2 * fB[i] + One(B[i] \in S)
    BY <1>b, <1>c, <2>1, BitIsOne
  <2>4. h[i] = h[j] \div 2
    BY <1>d, <2>1 DEF IsHalved
  <2>5. Cy[i] = Most(A[i] \in S, B[i] \in S, Cy[j]) /\ Cy[j] \in BOOLEAN
    BY <1>a, <1>d, <2>1 DEF AreCarries
  <2>6. fA[i] \in Int /\ fB[i] \in Int
    BY <1>b, <1>c, <2>1
  <2> DEFINE x == fA[i]
             y == fB[i]
             p == A[i] \in S
             q == B[i] \in S
             s == Cy[j]
  <2>7. x \in Int /\ y \in Int /\ p \in BOOLEAN /\ q \in BOOLEAN /\ s \in BOOLEAN
    BY <2>5, <2>6
  <2>8. h[j] = (2 * x + One(p)) + (2 * y + One(q)) + One(s)
    BY <2>2, <2>3
  <2>9. Cy[i] = Most(p, q, s)
    BY <2>5
  <2>10. fA[i] = x /\ fB[i] = y
    OBVIOUS
  <2> HIDE DEF x, y, p, q, s
  <2> DEFINE N == (2 * x + One(p)) + (2 * y + One(q)) + One(s)
  <2>11. N \div 2 = x + y + One(Most(p, q, s))
    <3>1. Halving(N, x, y, p, q, s)
      BY <2>7, HalvedSum
    <3> HIDE DEF N
    <3> QED BY <3>1 DEF Halving
  <2>12. h[i] = fA[i] + fB[i] + One(Cy[i])
    BY <2>4, <2>8, <2>9, <2>10, <2>11
  <2> QED BY <2>1, <2>12 DEF I, i
<1>3. 0 .. n \subseteq I
  <2>1. I \in SUBSET Nat
    OBVIOUS
  <2> HIDE DEF I
  <2> QED BY <1>a, <1>1, <1>2, <2>1, Induction
<1> QED BY <1>3 DEF AddsUp, n

LEMMA FirstOf ==
  ASSUME NEW r \in Seq(Qubits), NEW n \in 0 .. Len(r)
  PROVE  /\ SubSeq(r, 1, n) \in Seq(Qubits) /\ Len(SubSeq(r, 1, n)) = n
         /\ \A i \in 1 .. n : SubSeq(r, 1, n)[i] = r[i]
         /\ AsSet(SubSeq(r, 1, n)) = {r[i] : i \in 1 .. n}
<1>1. Len(r) \in Nat /\ \A i \in 1 .. Len(r) : r[i] \in Qubits
  BY RegisterType
<1>2. SubSeq(r, 1, n) \in Seq(Qubits) /\ Len(SubSeq(r, 1, n)) = n /\ \A i \in 1 .. n : SubSeq(r, 1, n)[i] = r[i]
  <2>1. SubSeq(r, 1, n) = [i \in 1 .. n |-> r[i]]
    <3>1. SubSeq(r, 1, n) = [i \in 1 .. (1 + n) - 1 |-> r[(i + 1) - 1]]
      BY <1>1
    <3>2. (1 + n) - 1 = n /\ \A i \in 1 .. n : (i + 1) - 1 = i
      BY <1>1
    <3> QED BY <3>1, <3>2
  <2>2. [i \in 1 .. n |-> r[i]] \in [1 .. n -> Qubits]
    BY <1>1
  <2>3. n \in Nat
    BY <1>1
  <2> QED BY <2>1, <2>2, <2>3, PartsAreASequence
<1>3. AsSet(SubSeq(r, 1, n)) = {r[i] : i \in 1 .. n}
  <2>1. DOMAIN SubSeq(r, 1, n) = 1 .. n
    BY <1>2, LenProperties
  <2> QED BY <1>2, <2>1 DEF AsSet
<1> QED BY <1>2, <1>3

(* What an adder leaves is the sum, in as many qubits as it writes.          *)
LEMMA SumIsWritten ==
  ASSUME NEW A, NEW B, NEW c0, AdderLayout(A, B, c0), NEW noOverflow \in BOOLEAN,
         ~ noOverflow => Len(A) + 1 <= Len(B),
         NEW S \in SUBSET Qubits, NEW R \in SUBSET Qubits,
         NEW Cy, AreCarries(Cy, Wires(A, c0), B, S, Len(A)),
         IsSum(A, B, c0, noOverflow, B[Len(A) + 1], Cy, S, R)
  PROVE  R = WithNumber(S, SubSeq(B, 1, Len(A) + (IF noOverflow THEN 0 ELSE 1)),
                        Number(A, S) + Number(B, S) + Bit(c0, S))
<1> DEFINE n == Len(A)
           k == Len(B)
           w == Wires(A, c0)
           m == n + (IF noOverflow THEN 0 ELSE 1)
           N == Number(A, S) + Number(B, S) + Bit(c0, S)
           r == SubSeq(B, 1, m)
           h == Halves(N, m)
<1>1. n \in Nat /\ n >= 1 /\ w[0] = c0 /\ \A j \in 1 .. n : w[j] = A[j]
  BY Wiring
<1>2. k \in Nat /\ n <= k /\ A \in Seq(Qubits) /\ B \in Seq(Qubits)
  BY LenProperties DEF AdderLayout
<1>3. m \in Nat /\ n <= m /\ m \in 0 .. k /\ (noOverflow => m = n) /\ (~ noOverflow => m = n + 1 /\ n + 1 \in 1 .. k)
  BY <1>1, <1>2
<1>4. PICK fA : IsTail(fA, A, S) /\ Number(A, S) = fA[0]
  BY <1>1, NumberTail
<1>5. PICK fB : IsTail(fB, B, S) /\ Number(B, S) = fB[0]
  BY <1>2, NumberTail
<1>6. /\ fA \in [0 .. n -> Nat] /\ fA[n] = 0 /\ \A j \in 1 .. n : fA[j - 1] = 2 * fA[j] + Bit(A[j], S)
  BY <1>4 DEF IsTail
<1>7. /\ fB \in [0 .. k -> Nat] /\ \A j \in 1 .. k : fB[j - 1] = 2 * fB[j] + Bit(B[j], S)
  BY <1>5 DEF IsTail
<1>8. N \in Int /\ N = fA[0] + fB[0] + Bit(w[0], S)
  <2>1. fA[0] \in Nat /\ fB[0] \in Nat
    BY <1>1, <1>2, <1>6, <1>7
  <2> QED BY <1>1, <1>4, <1>5, <2>1 DEF Bit
<1>9. r \in Seq(Qubits) /\ Len(r) = m /\ (\A i \in 1 .. m : r[i] = B[i]) /\ AsSet(r) = {B[i] : i \in 1 .. m}
  <2> HIDE DEF m
  <2> QED BY <1>2, <1>3, FirstOf
<1>s. AreCarries(Cy, w, B, S, n) /\ IsSum(A, B, c0, noOverflow, B[n + 1], Cy, S, R)
  OBVIOUS
<1> HIDE DEF n, k, w, m, N, r
<1>10. IsHalved(h, N, m)
  BY <1>3, <1>8, HalvesAreHalved
<1> HIDE DEF h
<1>11. \A j \in 0 .. n : h[j] = fA[j] + fB[j] + One(Cy[j])
  <2>1. IsHalved(h, fA[0] + fB[0] + Bit(w[0], S), m)
    BY <1>8, <1>10
  <2>2. AddsUp(h, fA, fB, Cy, n)
    <3>1. Len(A) <= m /\ IsHalved(h, fA[0] + fB[0] + Bit(c0, S), m)
      BY <1>1, <1>3, <2>1 DEF n
    <3> QED BY <1>3, <1>4, <1>5, <1>s, <3>1, SumHalved DEF n, w
  <2> QED BY <2>2 DEF AddsUp
<1>12. ASSUME NEW j \in 1 .. n PROVE h[j - 1] % 2 = 1 <=> Odd(A[j] \in S, B[j] \in S, Cy[j - 1])
  <2>1. j - 1 \in 0 .. n /\ j \in 0 .. n /\ j \in 0 .. k /\ j \in 1 .. k
    BY <1>1, <1>2
  <2>2. fA[j - 1] = 2 * fA[j] + One(A[j] \in S) /\ fB[j - 1] = 2 * fB[j] + One(B[j] \in S)
    BY <1>6, <1>7, <2>1, BitIsOne
  <2> DEFINE x == fA[j]
             y == fB[j]
             p == A[j] \in S
             q == B[j] \in S
             s == Cy[j - 1]
  <2>3. x \in Int /\ y \in Int /\ p \in BOOLEAN /\ q \in BOOLEAN /\ s \in BOOLEAN
    <3>1. s \in BOOLEAN
      BY <1>s, <2>1 DEF AreCarries
    <3>2. x \in Int /\ y \in Int
      BY <1>6, <1>7, <2>1
    <3> QED BY <3>1, <3>2
  <2>4. h[j - 1] = (2 * x + One(p)) + (2 * y + One(q)) + One(s)
    BY <1>11, <2>1, <2>2
  <2>5. Odd(A[j] \in S, B[j] \in S, Cy[j - 1]) <=> Odd(p, q, s)
    OBVIOUS
  <2> HIDE DEF x, y, p, q, s
  <2> DEFINE M == (2 * x + One(p)) + (2 * y + One(q)) + One(s)
  <2>6. M % 2 = 1 <=> Odd(p, q, s)
    <3>1. Halving(M, x, y, p, q, s)
      BY <2>3, HalvedSum
    <3> HIDE DEF M
    <3> QED BY <3>1 DEF Halving
  <2> QED BY <2>4, <2>5, <2>6
<1>13. ASSUME ~ noOverflow PROVE h[n] % 2 = 1 <=> ~ (B[n + 1] \in S <=> Cy[n])
  <2>1. n \in 0 .. n /\ n + 1 \in 1 .. k /\ n + 1 \in 0 .. k /\ (n + 1) - 1 = n /\ n \in 0 .. k
    BY <1>1, <1>2, <1>3, <1>13
  <2> DEFINE x == 0
             y == fB[n + 1]
             p == 0 = 1
             q == B[n + 1] \in S
             s == Cy[n]
  <2>2. x \in Int /\ y \in Int /\ p \in BOOLEAN /\ q \in BOOLEAN /\ s \in BOOLEAN /\ ~ p
    <3>1. s \in BOOLEAN
      BY <1>s, <2>1 DEF AreCarries
    <3> QED BY <1>7, <2>1, <3>1
  <2>3. fB[n] = 2 * y + One(q)
    BY <1>7, <2>1, BitIsOne
  <2>4. h[n] = fA[n] + fB[n] + One(s)
    BY <1>11, <2>1
  <2>5. 2 * x + One(p) = 0
    BY DEF One
  <2>6. B[n + 1] \in S <=> q
    OBVIOUS
  <2>7. Cy[n] = s
    OBVIOUS
  <2> HIDE DEF x, y, p, q, s
  <2>8. One(q) \in Int /\ One(s) \in Int
    BY DEF One
  <2>9. h[n] = (2 * x + One(p)) + (2 * y + One(q)) + One(s)
    BY <1>6, <2>2, <2>3, <2>4, <2>5, <2>8
  <2> DEFINE M == (2 * x + One(p)) + (2 * y + One(q)) + One(s)
  <2>10. M % 2 = 1 <=> Odd(p, q, s)
    <3>1. Halving(M, x, y, p, q, s)
      BY <2>2, HalvedSum
    <3> HIDE DEF M
    <3> QED BY <3>1 DEF Halving
  <2>11. Odd(p, q, s) <=> ~ (q <=> s)
    BY <2>2 DEF Odd
  <2> QED BY <2>6, <2>7, <2>9, <2>10, <2>11
<1>14. \A j \in 1 .. m : r[j] \in R <=> h[j - 1] % 2 = 1
  <2>1. ASSUME NEW j \in 1 .. m PROVE r[j] \in R <=> h[j - 1] % 2 = 1
    <3>1. r[j] = B[j]
      BY <1>9
    <3>2. CASE j \in 1 .. n
      BY <1>12, <1>s, <3>1, <3>2 DEF IsSum, n
    <3>3. CASE j \notin 1 .. n
      <4>1. ~ noOverflow /\ j = n + 1 /\ j - 1 = n
        BY <1>1, <1>3, <3>3
      <4>2. B[n + 1] \in R <=> ~ (B[n + 1] \in S <=> Cy[n])
        BY <1>s, <4>1 DEF IsSum, n
      <4> QED BY <1>13, <3>1, <4>1, <4>2
    <3> QED BY <3>2, <3>3
  <2> QED BY <2>1
<1>15. \A q \in Qubits : q \notin AsSet(r) => (q \in R <=> q \in S)
  <2>1. ASSUME NEW q \in Qubits, q \notin AsSet(r) PROVE q \in R <=> q \in S
    <3>1. \A j \in 1 .. n : j \in 1 .. m
      BY <1>1, <1>3
    <3>2. \A j \in 1 .. n : q # B[j]
      BY <1>9, <2>1, <3>1
    <3>3. ~ noOverflow => n + 1 \in 1 .. m
      BY <1>1, <1>3
    <3>4. noOverflow \/ q # B[n + 1]
      BY <1>9, <2>1, <3>3
    <3> QED BY <1>s, <3>2, <3>4 DEF IsSum, n
  <2> QED BY <2>1
<1>16. R = WithNumber(S, r, N)
  <2>1. IsHalved(h, N, Len(r)) /\ HoldsDigits(r, R, h) /\ AlikeOff(r, R, S)
    BY <1>9, <1>10, <1>14, <1>15 DEF HoldsDigits, AlikeOff
  <2> QED BY <1>8, <1>9, <2>1, NumberWritten
<1> QED BY <1>16 DEF r, m, n, N

(* The sum an adder promises, written over the second register.              *)
Added(A, B, c0, noOverflow, S) ==
  WithNumber(S, SubSeq(B, 1, Len(A) + (IF noOverflow THEN 0 ELSE 1)),
             Number(A, S) + Number(B, S) + Bit(c0, S))

Adds(c, A, B, c0, noOverflow) ==
  LET D == AdderQubits(A, B, c0)
  IN  /\ D \in SUBSET Qubits
      /\ c \in Seq(GatesOn(D, D))
      /\ \A S \in SUBSET Qubits : After(c, S) = Added(A, B, c0, noOverflow, S)

(* Where the carry goes: the qubit just above as many as the adder has.      *)
AdderRoom(A, B, noOverflow, out) == ~ noOverflow => Len(A) + 1 <= Len(B) /\ out = B[Len(A) + 1]

LEMMA CarryOut ==
  ASSUME NEW A, NEW B, NEW c0, AdderLayout(A, B, c0), Len(A) + 1 <= Len(B)
  PROVE  /\ B[Len(A) + 1] \in Qubits /\ B[Len(A) + 1] # c0 /\ B[Len(A) + 1] \notin AsSet(A)
         /\ B[Len(A) + 1] \in AdderQubits(A, B, c0)
         /\ \A j \in 1 .. Len(A) : B[Len(A) + 1] # B[j]
<1> DEFINE n == Len(A)
<1>1. n \in Nat /\ n >= 1
  BY Wiring
<1>2. Len(B) \in Nat /\ DOMAIN B = 1 .. Len(B) /\ \A i \in 1 .. Len(B) : B[i] \in Qubits /\ B[i] \in AsSet(B)
  BY RegisterType DEF AdderLayout
<1>3. n + 1 \in 1 .. Len(B) /\ \A j \in 1 .. n : j \in 1 .. Len(B) /\ j # n + 1
  BY <1>1, <1>2
<1>4. B[n + 1] \in Qubits /\ B[n + 1] \in AsSet(B)
  BY <1>2, <1>3
<1>5. B[n + 1] # c0 /\ B[n + 1] \notin AsSet(A)
  BY <1>4 DEF AdderLayout, Disjoint
<1>6. \A j \in 1 .. n : B[n + 1] # B[j]
  BY <1>2, <1>3 DEF AdderLayout, Unrepeated
<1> QED BY <1>4, <1>5, <1>6 DEF AdderQubits

LEMMA RippleAdds ==
  ASSUME NEW A, NEW B, NEW c0, AdderLayout(A, B, c0), NEW noOverflow \in BOOLEAN, NEW out,
         AdderRoom(A, B, noOverflow, out)
  PROVE  Adds(Ripple(A, B, c0, noOverflow, out), A, B, c0, noOverflow)
<1> DEFINE D == AdderQubits(A, B, c0)
           c == Ripple(A, B, c0, noOverflow, out)
<1>1. ~ noOverflow => /\ out \in Qubits /\ out # c0 /\ out \notin AsSet(A) /\ out \in D
                      /\ \A j \in 1 .. Len(A) : out # B[j]
  BY CarryOut DEF AdderRoom
<1>2. D \in SUBSET Qubits /\ c \in Seq(GatesOn(D \cup Writes(noOverflow, out), D \cup Writes(noOverflow, out)))
  <2>1. D \in SUBSET Qubits
    BY AdderQubitsType
  <2> QED BY <1>1, <2>1, RippleType
<1>3. D \cup Writes(noOverflow, out) = D
  BY <1>1 DEF Writes
<1>4. c \in Seq(GatesOn(D, D))
  BY <1>2, <1>3
<1>5. c \in Seq(GatesOn(Qubits, Qubits))
  BY <1>2, <1>4, AnyGates
<1>6. ASSUME NEW S \in SUBSET Qubits
      PROVE  After(c, S) = Added(A, B, c0, noOverflow, S)
  <2> DEFINE R == After(c, S)
  <2>1. Len(A) \in Nat
    BY Wiring
  <2>2. PICK Cy : AreCarries(Cy, Wires(A, c0), B, S, Len(A))
    BY <2>1, CarriesExist
  <2>3. R \in SUBSET Qubits
    BY <1>5, AfterType
  <2>4. IsSum(A, B, c0, noOverflow, out, Cy, S, R)
    BY <1>1, <2>2, RippleWorks
  <2>5. IsSum(A, B, c0, noOverflow, B[Len(A) + 1], Cy, S, R)
    <3>1. CASE noOverflow
      BY <2>4, <3>1 DEF IsSum
    <3>2. CASE ~ noOverflow
      BY <2>4, <3>2 DEF AdderRoom
    <3> QED BY <3>1, <3>2
  <2> HIDE DEF R
  <2>6. R = WithNumber(S, SubSeq(B, 1, Len(A) + (IF noOverflow THEN 0 ELSE 1)),
                       Number(A, S) + Number(B, S) + Bit(c0, S))
    BY <2>2, <2>3, <2>5, SumIsWritten DEF AdderRoom
  <2> QED BY <2>6 DEF Added, R
<1> HIDE DEF D, c
<1> QED BY <1>2, <1>4, <1>6 DEF Adds, D, c

LEMMA RippleCarryAdderAdds ==
  ASSUME NEW A, NEW B, NEW c0, AdderLayout(A, B, c0), NEW noOverflow \in BOOLEAN,
         noOverflow \/ Len(A) + 1 <= Len(B)
  PROVE  Adds(RippleCarryAdder(A, B, c0, noOverflow), A, B, c0, noOverflow)
<1> DEFINE out == IF noOverflow THEN 0 ELSE B[Len(A) + 1]
<1>1. AdderRoom(A, B, noOverflow, out)
  BY DEF AdderRoom
<1>2. RippleCarryAdder(A, B, c0, noOverflow) = Ripple(A, B, c0, noOverflow, out)
  BY DEF RippleCarryAdder
<1> HIDE DEF out
<1> QED BY <1>1, <1>2, RippleAdds

(* A circuit that computes F, on the condition that on are 1 and off are 0.  *)
Controls(on, off, D) ==
  /\ on \in Seq(Qubits) /\ off \in Seq(Qubits) /\ Unrepeated(off) /\ Disjoint(on, off)
  /\ (AsSet(on) \cup AsSet(off)) \cap D = {}

LEMMA ControlsType ==
  ASSUME NEW on, NEW off, NEW D \in SUBSET Qubits, Controls(on, off, D)
  PROVE  /\ D \cup AsSet(on) \cup AsSet(off) \in SUBSET Qubits
         /\ AsSet(on) \in SUBSET Qubits /\ AsSet(off) \in SUBSET Qubits
BY RegisterType DEF Controls

LEMMA ConditionedType ==
  ASSUME NEW D \in SUBSET Qubits, NEW c \in Seq(GatesOn(D, D)), NEW on, NEW off, Controls(on, off, D)
  PROVE  Conditioned(c, on, off) \in
           Seq(GatesOn(D \cup AsSet(on) \cup AsSet(off), D \cup AsSet(on) \cup AsSet(off)))
<1> DEFINE K == D \cup AsSet(on) \cup AsSet(off)
<1>1. Conditioned(c, on, off) \in Seq(GatesOn(D \cup AsSet(off), D \cup AsSet(on) \cup AsSet(off)))
  <2>1. (AsSet(on) \cup AsSet(off)) \cap (D \cup D) = {}
    BY DEF Controls
  <2>2. on \in Seq(Qubits) /\ off \in Seq(Qubits) /\ Unrepeated(off) /\ Disjoint(on, off)
    BY DEF Controls
  <2> QED BY <2>1, <2>2, AfterConditioned
<1>2. D \cup AsSet(off) \subseteq K
  OBVIOUS
<1> HIDE DEF K
<1> QED BY <1>1, <1>2, WiderGates DEF K

LEMMA ConditionedRuns ==
  ASSUME NEW D \in SUBSET Qubits, NEW c \in Seq(GatesOn(D, D)), NEW on, NEW off, Controls(on, off, D),
         NEW S \in SUBSET Qubits
  PROVE  After(Conditioned(c, on, off), S) = IF Holds(S, on, off) THEN After(c, S) ELSE S
<1>1. (AsSet(on) \cup AsSet(off)) \cap (D \cup D) = {}
  BY DEF Controls
<1>2. on \in Seq(Qubits) /\ off \in Seq(Qubits) /\ Unrepeated(off) /\ Disjoint(on, off)
  BY DEF Controls
<1>3. Conditioned(c, on, off) \in Seq(GatesOn(D \cup AsSet(off), D \cup AsSet(on) \cup AsSet(off)))
  BY <1>1, <1>2, AfterConditioned
<1>4. RunsWhere(Conditioned(c, on, off), c, on, off)
  BY <1>1, <1>2, <1>3, AfterConditioned
<1> QED BY <1>4 DEF RunsWhere

LEMMA NoControls == ASSUME NEW S PROVE Holds(S, <<>>, <<>>)
<1>1. AsSet(<<>>) = {}
  BY DEF AsSet
<1> QED BY <1>1 DEF Holds

(* What an addition under controls leaves.                                   *)
ControlledRoom(A, B, on, off, noOverflow) ==
  ~ noOverflow => /\ Len(A) + 1 <= Len(B)
                  /\ on \o off # <<>> => Len(B) = Len(A) + 1

AddsWhere(c, A, B, c0, on, off, noOverflow) ==
  LET K == AdderQubits(A, B, c0) \cup AsSet(on) \cup AsSet(off)
  IN  /\ c \in Seq(GatesOn(K, K))
      /\ \A S \in SUBSET Qubits :
           After(c, S) = IF Holds(S, on, off) THEN Added(A, B, c0, noOverflow, S) ELSE S

LEMMA ControlledAdditionAdds ==
  ASSUME NEW A, NEW B, NEW c0, AdderLayout(A, B, c0), NEW noOverflow \in BOOLEAN,
         NEW on, NEW off, Controls(on, off, AdderQubits(A, B, c0)), ControlledRoom(A, B, on, off, noOverflow)
  PROVE  AddsWhere(ControlledAddition(A, B, c0, on, off, noOverflow), A, B, c0, on, off, noOverflow)
<1> DEFINE c == ControlledAddition(A, B, c0, on, off, noOverflow)
           D == AdderQubits(A, B, c0)
           K == D \cup AsSet(on) \cup AsSet(off)
<1>1. CASE on \o off = <<>>
  <2>1. c = RippleCarryAdder(A, B, c0, noOverflow)
    BY <1>1 DEF ControlledAddition
  <2>2. on = <<>> /\ off = <<>>
    BY <1>1, ConcatEmptySeq, EmptySeq, ConcatProperties, LenProperties DEF Controls
  <2>3. AsSet(<<>>) = {}
    BY DEF AsSet
  <2>4. K = D
    BY <2>2, <2>3
  <2>5. Adds(c, A, B, c0, noOverflow)
    BY <2>1, RippleCarryAdderAdds DEF ControlledRoom
  <2> HIDE DEF c
  <2>6. D \in SUBSET Qubits /\ c \in Seq(GatesOn(D, D)) /\ \A S \in SUBSET Qubits : After(c, S) = Added(A, B, c0, noOverflow, S)
    BY <2>5 DEF Adds
  <2>7. c \in Seq(GatesOn(K, K))
    <3> HIDE DEF K, D
    <3> QED BY <2>4, <2>6
  <2>8. \A S \in SUBSET Qubits : Holds(S, on, off)
    BY <2>2, NoControls
  <2> QED BY <2>6, <2>7, <2>8 DEF c, AddsWhere
<1>2. CASE on \o off # <<>>
  <2> DEFINE d == Ripple(A, B, c0, noOverflow, B[Len(B)])
  <2>1. c = Conditioned(d, on, off)
    BY <1>2 DEF ControlledAddition
  <2>2. AdderRoom(A, B, noOverflow, B[Len(B)])
    BY <1>2 DEF AdderRoom, ControlledRoom
  <2>3. Adds(d, A, B, c0, noOverflow)
    BY <2>2, RippleAdds
  <2> HIDE DEF d
  <2>4. D \in SUBSET Qubits /\ d \in Seq(GatesOn(D, D)) /\ \A S \in SUBSET Qubits : After(d, S) = Added(A, B, c0, noOverflow, S)
    BY <2>3 DEF Adds
  <2> HIDE DEF D, c
  <2>5. Conditioned(d, on, off) \in Seq(GatesOn(K, K))
    BY <2>4, ConditionedType DEF D
  <2>6. \A S \in SUBSET Qubits : After(Conditioned(d, on, off), S) = IF Holds(S, on, off) THEN After(d, S) ELSE S
    BY <2>4, ConditionedRuns DEF D
  <2> QED BY <2>1, <2>4, <2>5, <2>6 DEF c, D, AddsWhere
<1> QED BY <1>1, <1>2

(* The borrows of the subtraction of the number in A from the number in B.   *)
AreBorrows(Cy, A, B, S, n) ==
  /\ Cy \in [0 .. n -> BOOLEAN]
  /\ Cy[0] = FALSE
  /\ \A i \in 1 .. n : Cy[i] = Most(A[i] \in S, B[i] \notin S, Cy[i - 1])

Lowering(N, x, y, p, q, s) ==
  /\ N = (2 * y + One(q)) - (2 * x + One(p)) - One(s)
  /\ N \div 2 = y - x - One(Most(p, ~ q, s))
  /\ N % 2 = 1 <=> Odd(p, q, s)

LEMMA HalvedDifference ==
  ASSUME NEW x \in Int, NEW y \in Int, NEW p \in BOOLEAN, NEW q \in BOOLEAN, NEW s \in BOOLEAN
  PROVE  Lowering((2 * y + One(q)) - (2 * x + One(p)) - One(s), x, y, p, q, s)
<1>1. \A z \in Int : /\ (2 * z + 1) \div 2 = z /\ (2 * z) \div 2 = z /\ (2 * z - 1) \div 2 = z - 1 /\ (2 * z - 2) \div 2 = z - 1
                     /\ (2 * z + 1) % 2 = 1 /\ (2 * z) % 2 = 0 /\ (2 * z - 1) % 2 = 1 /\ (2 * z - 2) % 2 = 0
  OBVIOUS
<1> DEFINE z == y - x
           t == One(q) - One(p) - One(s)
           N == (2 * y + One(q)) - (2 * x + One(p)) - One(s)
<1>2. z \in Int /\ t \in {-2, -1, 0, 1} /\ N = 2 * z + t
  BY DEF One
<1>3. (t = 0 \/ t = 1) <=> ~ Most(p, ~ q, s)
  BY DEF One, Most
<1>4. (t = 1 \/ t = -1) <=> Odd(p, q, s)
  BY DEF One, Odd
<1>0. t = 1 \/ t = 0 \/ t = -1 \/ t = -2
  BY <1>2
<1> HIDE DEF z, t, N
<1>5. N \div 2 = z - One(Most(p, ~ q, s))
  <2>1. CASE Most(p, ~ q, s)
    <3>1. t = -1 \/ t = -2
      BY <1>0, <1>3, <2>1
    <3>2. One(Most(p, ~ q, s)) = 1
      BY <2>1 DEF One
    <3>3. N = 2 * z - 1 \/ N = 2 * z - 2
      BY <1>2, <3>1
    <3> QED BY <1>1, <1>2, <3>2, <3>3
  <2>2. CASE ~ Most(p, ~ q, s)
    <3>1. t = 0 \/ t = 1
      BY <1>3, <2>2
    <3>2. One(Most(p, ~ q, s)) = 0
      BY <2>2 DEF One
    <3>3. N = 2 * z \/ N = 2 * z + 1
      BY <1>2, <3>1
    <3> QED BY <1>1, <1>2, <3>2, <3>3
  <2> QED BY <2>1, <2>2
<1>6. N % 2 = 1 <=> (t = 1 \/ t = -1)
  <2>1. CASE t = 1 \/ t = -1
    <3>1. N = 2 * z + 1 \/ N = 2 * z - 1
      BY <1>2, <2>1
    <3> QED BY <1>1, <1>2, <2>1, <3>1
  <2>2. CASE t = 0 \/ t = -2
    <3>1. (N = 2 * z \/ N = 2 * z - 2) /\ t # 1 /\ t # -1
      BY <1>2, <2>2
    <3>2. N % 2 = 0
      BY <1>1, <1>2, <3>1
    <3> QED BY <3>1, <3>2
  <2> QED BY <1>0, <2>1, <2>2
<1> QED BY <1>4, <1>5, <1>6 DEF z, Lowering, N

Differs(h, fA, fB, Cy, n) == \A j \in 0 .. n : h[j] = fB[j] - fA[j] - One(Cy[j])

LEMMA DifferenceHalved ==
  ASSUME NEW A \in Seq(Qubits), NEW B \in Seq(Qubits), Len(A) = Len(B), NEW S,
         NEW Cy, AreBorrows(Cy, A, B, S, Len(A)),
         NEW fA, IsTail(fA, A, S), NEW fB, IsTail(fB, B, S),
         NEW h, IsHalved(h, fB[0] - fA[0], Len(A))
  PROVE  Differs(h, fA, fB, Cy, Len(A))
<1> DEFINE n == Len(A)
           I == {j \in Nat : j <= n => h[j] = fB[j] - fA[j] - One(Cy[j])}
<1>a. n \in Nat /\ n = Len(B)
  BY LenProperties
<1>b. fA \in [0 .. n -> Nat] /\ \A j \in 1 .. n : fA[j - 1] = 2 * fA[j] + Bit(A[j], S)
  BY DEF IsTail
<1>c. fB \in [0 .. n -> Nat] /\ \A j \in 1 .. n : fB[j - 1] = 2 * fB[j] + Bit(B[j], S)
  BY <1>a DEF IsTail
<1>d. AreBorrows(Cy, A, B, S, n) /\ IsHalved(h, fB[0] - fA[0], n)
  OBVIOUS
<1> HIDE DEF n
<1>1. 0 \in I
  <2>1. Cy[0] = FALSE /\ h[0] = fB[0] - fA[0]
    BY <1>d DEF AreBorrows, IsHalved
  <2>2. One(Cy[0]) = 0
    BY <2>1 DEF One
  <2>3. fA[0] \in Nat /\ fB[0] \in Nat
    BY <1>a, <1>b, <1>c
  <2>4. h[0] = fB[0] - fA[0] - One(Cy[0])
    BY <2>1, <2>2, <2>3
  <2> QED BY <2>4
<1>2. ASSUME NEW j \in I, j < n PROVE j + 1 \in I
  <2> DEFINE i == j + 1
  <2>1. j \in Nat /\ j \in 0 .. n /\ i \in 1 .. n /\ i \in 0 .. n /\ i - 1 = j /\ j <= n /\ i \in Nat
    BY <1>a, <1>2
  <2>2. h[j] = fB[j] - fA[j] - One(Cy[j])
    BY <2>1
  <2> HIDE DEF i, I
  <2>3. fA[j] = 2 * fA[i] + One(A[i] \in S) /\ fB[j] = 2 * fB[i] + One(B[i] \in S)
    BY <1>b, <1>c, <2>1, BitIsOne
  <2>4. h[i] = h[j] \div 2
    BY <1>d, <2>1 DEF IsHalved
  <2>5. Cy[i] = Most(A[i] \in S, B[i] \notin S, Cy[j]) /\ Cy[j] \in BOOLEAN
    BY <1>a, <1>d, <2>1 DEF AreBorrows
  <2>6. fA[i] \in Int /\ fB[i] \in Int
    BY <1>b, <1>c, <2>1
  <2> DEFINE x == fA[i]
             y == fB[i]
             p == A[i] \in S
             q == B[i] \in S
             s == Cy[j]
  <2>7. x \in Int /\ y \in Int /\ p \in BOOLEAN /\ q \in BOOLEAN /\ s \in BOOLEAN
    BY <2>5, <2>6
  <2>8. h[j] = (2 * y + One(q)) - (2 * x + One(p)) - One(s)
    BY <2>2, <2>3
  <2>9. Cy[i] = Most(p, ~ q, s)
    BY <2>5
  <2>10. fA[i] = x /\ fB[i] = y
    OBVIOUS
  <2> HIDE DEF x, y, p, q, s
  <2> DEFINE N == (2 * y + One(q)) - (2 * x + One(p)) - One(s)
  <2>11. N \div 2 = y - x - One(Most(p, ~ q, s))
    <3>1. Lowering(N, x, y, p, q, s)
      BY <2>7, HalvedDifference
    <3> HIDE DEF N
    <3> QED BY <3>1 DEF Lowering
  <2>12. h[i] = fB[i] - fA[i] - One(Cy[i])
    BY <2>4, <2>8, <2>9, <2>10, <2>11
  <2> QED BY <2>1, <2>12 DEF I, i
<1>3. 0 .. n \subseteq I
  <2>1. I \in SUBSET Nat
    OBVIOUS
  <2> HIDE DEF I
  <2> QED BY <1>a, <1>1, <1>2, <2>1, Induction
<1> QED BY <1>3 DEF Differs, n

(* The digits of the difference.                                             *)
DifferenceDigits(A, B, Cy, S, h, n) ==
  \A j \in 1 .. n : h[j - 1] % 2 = 1 <=> Odd(A[j] \in S, B[j] \in S, Cy[j - 1])

LEMMA DigitsOfDifference ==
  ASSUME NEW A \in Seq(Qubits), NEW B \in Seq(Qubits), Len(A) = Len(B), NEW S,
         NEW Cy, AreBorrows(Cy, A, B, S, Len(A)),
         NEW fA, IsTail(fA, A, S), NEW fB, IsTail(fB, B, S),
         NEW h, Differs(h, fA, fB, Cy, Len(A))
  PROVE  DifferenceDigits(A, B, Cy, S, h, Len(A))
<1> DEFINE n == Len(A)
<1>a. n \in Nat /\ n = Len(B)
  BY LenProperties
<1>b. fA \in [0 .. n -> Nat] /\ \A j \in 1 .. n : fA[j - 1] = 2 * fA[j] + Bit(A[j], S)
  BY DEF IsTail
<1>c. fB \in [0 .. n -> Nat] /\ \A j \in 1 .. n : fB[j - 1] = 2 * fB[j] + Bit(B[j], S)
  BY <1>a DEF IsTail
<1>d. AreBorrows(Cy, A, B, S, n) /\ Differs(h, fA, fB, Cy, n)
  OBVIOUS
<1> HIDE DEF n
<1>1. ASSUME NEW j \in 1 .. n PROVE h[j - 1] % 2 = 1 <=> Odd(A[j] \in S, B[j] \in S, Cy[j - 1])
  <2>1. j - 1 \in 0 .. n /\ j \in 0 .. n
    BY <1>a
  <2>2. fA[j - 1] = 2 * fA[j] + One(A[j] \in S) /\ fB[j - 1] = 2 * fB[j] + One(B[j] \in S)
    BY <1>b, <1>c, BitIsOne
  <2> DEFINE x == fA[j]
             y == fB[j]
             p == A[j] \in S
             q == B[j] \in S
             s == Cy[j - 1]
  <2>3. x \in Int /\ y \in Int /\ p \in BOOLEAN /\ q \in BOOLEAN /\ s \in BOOLEAN
    <3>1. s \in BOOLEAN
      BY <1>d, <2>1 DEF AreBorrows
    <3>2. x \in Int /\ y \in Int
      BY <1>b, <1>c, <2>1
    <3> QED BY <3>1, <3>2
  <2>4. h[j - 1] = (2 * y + One(q)) - (2 * x + One(p)) - One(s)
    BY <1>d, <2>1, <2>2 DEF Differs
  <2>5. Odd(A[j] \in S, B[j] \in S, Cy[j - 1]) <=> Odd(p, q, s)
    OBVIOUS
  <2> HIDE DEF x, y, p, q, s
  <2> DEFINE M == (2 * y + One(q)) - (2 * x + One(p)) - One(s)
  <2>6. M % 2 = 1 <=> Odd(p, q, s)
    <3>1. Lowering(M, x, y, p, q, s)
      BY <2>3, HalvedDifference
    <3> HIDE DEF M
    <3> QED BY <3>1 DEF Lowering
  <2> QED BY <2>4, <2>5, <2>6
<1> QED BY <1>1 DEF DifferenceDigits, n

(* The last borrow tells which number is the greater.                        *)
LEMMA LastBorrow ==
  ASSUME NEW A \in Seq(Qubits), NEW B \in Seq(Qubits), Len(A) = Len(B), NEW S,
         NEW Cy, AreBorrows(Cy, A, B, S, Len(A))
  PROVE  Cy[Len(A)] <=> Number(A, S) > Number(B, S)
<1> DEFINE n == Len(A)
<1>1. n \in Nat /\ n = Len(B)
  BY LenProperties
<1>2. PICK fA : IsTail(fA, A, S) /\ Number(A, S) = fA[0]
  BY <1>1, NumberTail
<1>3. PICK fB : IsTail(fB, B, S) /\ Number(B, S) = fB[0]
  BY <1>1, NumberTail
<1> DEFINE N == fB[0] - fA[0]
           h == Halves(N, n)
<1>4. fA[0] \in Nat /\ fB[0] \in Nat /\ fA[n] = 0 /\ fB[n] = 0 /\ N \in Int
  <2>1. fA[0] \in Nat /\ fA[n] = 0
    BY <1>1, <1>2 DEF IsTail
  <2>2. fB[0] \in Nat /\ fB[n] = 0
    BY <1>1, <1>3 DEF IsTail
  <2> QED BY <2>1, <2>2
<1>5. IsHalved(h, N, n)
  BY <1>1, <1>4, HalvesAreHalved
<1> HIDE DEF h
<1>6. h[n] = 0 - One(Cy[n])
  <2>1. Differs(h, fA, fB, Cy, n)
    BY <1>2, <1>3, <1>5, DifferenceHalved
  <2>2. n \in 0 .. n
    BY <1>1
  <2>3. h[n] = fB[n] - fA[n] - One(Cy[n])
    BY <2>1, <2>2 DEF Differs
  <2>4. One(Cy[n]) \in Int
    BY DEF One
  <2> QED BY <1>4, <2>3, <2>4
<1> HIDE DEF N
<1> DEFINE I == {j \in Nat : j <= n => (h[j] < 0 <=> N < 0)}
<1>7. h[n] < 0 <=> N < 0
  <2>1. 0 \in I
    BY <1>5 DEF IsHalved
  <2>2. ASSUME NEW j \in I, j < n PROVE j + 1 \in I
    <3>1. j \in Nat /\ j \in 0 .. n /\ j + 1 \in 1 .. n /\ (j + 1) - 1 = j /\ j <= n
      BY <1>1, <2>2
    <3>2. h[j + 1] = h[j] \div 2 /\ h[j] \in Int
      BY <1>5, <3>1 DEF IsHalved
    <3>3. h[j + 1] < 0 <=> h[j] < 0
      BY <3>2
    <3> QED BY <3>1, <3>3
  <2>3. I \in SUBSET Nat
    OBVIOUS
  <2> HIDE DEF I
  <2>4. 0 .. n \subseteq I
    BY <1>1, <2>1, <2>2, <2>3, Induction
  <2> QED BY <1>1, <2>4 DEF I
<1>8. h[n] < 0 <=> Cy[n]
  BY <1>6 DEF One
<1>9. N < 0 <=> fA[0] > fB[0]
  BY <1>4 DEF N
<1> QED BY <1>2, <1>3, <1>7, <1>8, <1>9

(* Where one register of an addition is complemented, the carries are        *)
(* borrows.                                                                  *)
BorrowsOf(A, B, c0, S, Z, n) ==
  /\ c0 \notin Z
  /\ \A j \in 1 .. n : (A[j] \in Z <=> A[j] \in S) /\ (B[j] \in Z <=> B[j] \notin S)

LEMMA CarriesAreBorrows ==
  ASSUME NEW A, NEW B, NEW c0, AdderLayout(A, B, c0), NEW S, NEW Z, BorrowsOf(A, B, c0, S, Z, Len(A)),
         NEW Cy, AreCarries(Cy, Wires(A, c0), B, Z, Len(A))
  PROVE  AreBorrows(Cy, A, B, S, Len(A))
<1> DEFINE n == Len(A)
           w == Wires(A, c0)
<1>1. n \in Nat /\ w[0] = c0 /\ \A j \in 1 .. n : w[j] = A[j]
  BY Wiring
<1>2. /\ Cy \in [0 .. n -> BOOLEAN] /\ Cy[0] = (w[0] \in Z)
      /\ \A i \in 1 .. n : Cy[i] = Most(w[i] \in Z, B[i] \in Z, Cy[i - 1])
  BY DEF AreCarries
<1> HIDE DEF w, n
<1>3. Cy[0] = FALSE
  BY <1>1, <1>2 DEF BorrowsOf
<1>4. \A i \in 1 .. n : Cy[i] = Most(A[i] \in S, B[i] \notin S, Cy[i - 1])
  BY <1>1, <1>2 DEF BorrowsOf, n
<1> QED BY <1>2, <1>3, <1>4 DEF AreBorrows, n

LEMMA TwiceComplemented == ASSUME NEW S, NEW D PROVE Complemented(Complemented(S, D), D) = S
BY DEF Complemented

(* Adding to the complement of a number subtracts from the number.           *)
LEMMA SubtractionSubtracts ==
  ASSUME NEW A, NEW B, NEW c0, AdderLayout(A, B, c0), Len(A) = Len(B), c0 >= 0
  PROVE  LET c == Subtraction(B, A, c0)
             D == AdderQubits(A, B, c0)
         IN  /\ D \in SUBSET Qubits /\ c \in Seq(GatesOn(D, D))
             /\ \A S \in SUBSET Qubits : c0 \notin S => After(c, S) = WithNumber(S, B, Number(B, S) - Number(A, S))
<1> DEFINE c == Subtraction(B, A, c0)
           D == AdderQubits(A, B, c0)
           d == Ripple(A, B, c0, TRUE, 0)
           n == Len(A)
<1>1. /\ A \in Seq(Qubits) /\ B \in Seq(Qubits) /\ c0 \in Qubits
      /\ Unrepeated(B) /\ Disjoint(A, B) /\ c0 \notin AsSet(A) \cup AsSet(B)
  BY DEF AdderLayout
<1>2. n \in Nat /\ n = Len(B) /\ (\A j \in 1 .. n : A[j] \in AsSet(A) /\ B[j] \in AsSet(B) /\ A[j] \in Qubits /\ B[j] \in Qubits)
      /\ AsSet(B) = {B[j] : j \in 1 .. n} /\ AsSet(B) \in SUBSET Qubits
  BY <1>1, RegisterType DEF AsSet
<1>3. c = Between(B, d)
  <2>1. ~ (c0 < 0)
    BY <1>1 DEF Qubits
  <2>2. c = Between(B, RippleCarryAdder(A, B, c0, TRUE))
    BY <2>1 DEF Subtraction
  <2>3. RippleCarryAdder(A, B, c0, TRUE) = d
    BY DEF RippleCarryAdder
  <2> QED BY <2>2, <2>3
<1>4. D \in SUBSET Qubits /\ d \in Seq(GatesOn(D, D))
  <2>1. AdderRoom(A, B, TRUE, 0)
    BY DEF AdderRoom
  <2>2. Adds(d, A, B, c0, TRUE)
    BY <2>1, RippleAdds
  <2> QED BY <2>2 DEF Adds
<1>5. d \in Seq(GatesOn(Qubits, Qubits))
  <2> HIDE DEF d, D
  <2> QED BY <1>4, AnyGates
<1>6. c \in Seq(GatesOn(D, D))
  <2>1. D \cup AsSet(B) = D
    BY DEF AdderQubits
  <2> HIDE DEF d, D, c
  <2>2. Between(B, d) \in Seq(GatesOn(D \cup AsSet(B), D))
    BY <1>1, <1>4, BetweenType
  <2> QED BY <1>3, <2>1, <2>2
<1>7. ASSUME NEW S \in SUBSET Qubits, c0 \notin S
      PROVE  After(c, S) = WithNumber(S, B, Number(B, S) - Number(A, S))
  <2> DEFINE Z == Complemented(S, AsSet(B))
             T == After(d, Z)
             R == Complemented(T, AsSet(B))
  <2>1. Z \in SUBSET Qubits /\ After(c, S) = R
    <3> HIDE DEF d, c
    <3> QED BY <1>1, <1>3, <1>5, AfterBetween
  <2>2. BorrowsOf(A, B, c0, S, Z, n)
    <3>1. c0 \notin Z
      BY <1>1, <1>7 DEF Complemented
    <3>2. ASSUME NEW j \in 1 .. n PROVE (A[j] \in Z <=> A[j] \in S) /\ (B[j] \in Z <=> B[j] \notin S)
      <4>1. A[j] \notin AsSet(B) /\ B[j] \in AsSet(B)
        BY <1>1, <1>2 DEF Disjoint
      <4> QED BY <4>1 DEF Complemented
    <3> QED BY <3>1, <3>2 DEF BorrowsOf
  <2>3. PICK Cy : AreCarries(Cy, Wires(A, c0), B, Z, n)
    BY <1>2, CarriesExist
  <2>4. AreBorrows(Cy, A, B, S, n)
    BY <2>2, <2>3, CarriesAreBorrows
  <2>5. IsSum(A, B, c0, TRUE, 0, Cy, Z, T)
    <3> HIDE DEF Z
    <3> QED BY <2>1, <2>3, RippleWorks
  <2>6. T \in SUBSET Qubits
    <3> HIDE DEF Z, d
    <3> QED BY <1>5, <2>1, AfterType
  <2>7. PICK fA : IsTail(fA, A, S) /\ Number(A, S) = fA[0]
    BY <1>2, NumberTail
  <2>8. PICK fB : IsTail(fB, B, S) /\ Number(B, S) = fB[0]
    BY <1>2, NumberTail
  <2> DEFINE N == fB[0] - fA[0]
             h == Halves(N, n)
  <2>9. N \in Int /\ N = Number(B, S) - Number(A, S)
    <3>1. fA[0] \in Nat /\ fB[0] \in Nat
      BY <1>2, <2>7, <2>8 DEF IsTail
    <3> QED BY <2>7, <2>8, <3>1
  <2>10. IsHalved(h, N, n)
    BY <1>2, <2>9, HalvesAreHalved
  <2> HIDE DEF h
  <2>11. DifferenceDigits(A, B, Cy, S, h, n)
    <3>1. Differs(h, fA, fB, Cy, n)
      BY <1>1, <2>4, <2>7, <2>8, <2>10, DifferenceHalved
    <3> QED BY <1>1, <2>4, <2>7, <2>8, <3>1, DigitsOfDifference
  <2>12. HoldsDigits(B, R, h)
    <3>1. ASSUME NEW j \in 1 .. n PROVE B[j] \in R <=> h[j - 1] % 2 = 1
      <4>1. B[j] \in T <=> Odd(A[j] \in Z, B[j] \in Z, Cy[j - 1])
        BY <2>5 DEF IsSum
      <4>2. B[j] \in R <=> B[j] \notin T
        <5>1. B[j] \in AsSet(B)
          BY <1>2
        <5> HIDE DEF T
        <5> QED BY <5>1 DEF Complemented
      <4>3. (A[j] \in Z <=> A[j] \in S) /\ (B[j] \in Z <=> B[j] \notin S)
        BY <2>2 DEF BorrowsOf
      <4>4. Cy[j - 1] \in BOOLEAN
        <5>1. j - 1 \in 0 .. n
          BY <1>2
        <5> QED BY <2>4, <5>1 DEF AreBorrows
      <4>5. h[j - 1] % 2 = 1 <=> Odd(A[j] \in S, B[j] \in S, Cy[j - 1])
        BY <2>11 DEF DifferenceDigits
      <4> HIDE DEF R, T, Z
      <4> QED BY <4>1, <4>2, <4>3, <4>4, <4>5 DEF Odd
    <3> QED BY <1>2, <3>1 DEF HoldsDigits
  <2>13. AlikeOff(B, R, S)
    <3>1. ASSUME NEW q \in Qubits, q \notin AsSet(B) PROVE q \in R <=> q \in S
      <4>1. \A j \in 1 .. n : q # B[j]
        BY <1>2, <3>1
      <4>2. q \in T <=> q \in Z
        BY <2>5, <4>1 DEF IsSum
      <4>3. (q \in R <=> q \in T) /\ (q \in Z <=> q \in S)
        <5> HIDE DEF T
        <5> QED BY <3>1 DEF Complemented
      <4> QED BY <4>2, <4>3
    <3> QED BY <3>1 DEF AlikeOff
  <2>14. R \in SUBSET Qubits
    <3> HIDE DEF T
    <3> QED BY <1>2, <2>6 DEF Complemented
  <2> HIDE DEF R, N
  <2>15. R = WithNumber(S, B, N)
    BY <1>1, <1>2, <2>9, <2>10, <2>12, <2>13, <2>14, NumberWritten
  <2> QED BY <2>1, <2>9, <2>15
<1> HIDE DEF c, D
<1> QED BY <1>4, <1>6, <1>7 DEF c, D

(* The registers of a comparison.                                            *)
CompareLayout(a, b, flag, c0) ==
  /\ a \in Seq(Qubits) /\ b \in Seq(Qubits) /\ flag \in Qubits /\ c0 \in Qubits
  /\ b # <<>> /\ Len(a) = Len(b)
  /\ Unrepeated(a) /\ Unrepeated(b) /\ Disjoint(a, b)
  /\ flag \notin AsSet(a) \cup AsSet(b) /\ c0 \notin AsSet(a) \cup AsSet(b) /\ flag # c0

LEMMA Lengthening ==
  ASSUME NEW r \in Seq(Qubits), NEW q \in Qubits
  PROVE  /\ r \o <<q>> \in Seq(Qubits) /\ Len(r \o <<q>>) = Len(r) + 1
         /\ (\A i \in 1 .. Len(r) : (r \o <<q>>)[i] = r[i]) /\ (r \o <<q>>)[Len(r) + 1] = q
         /\ AsSet(r \o <<q>>) = AsSet(r) \cup {q}
<1> DEFINE n == Len(r)
           f == r \o <<q>>
<1>1. n \in Nat /\ DOMAIN r = 1 .. n /\ AsSet(r) = {r[i] : i \in 1 .. n}
  BY RegisterType DEF AsSet
<1>2. f \in Seq(Qubits) /\ Len(f) = n + 1 /\ (\A i \in 1 .. n : f[i] = r[i]) /\ f[n + 1] = q
  BY AppendIsConcat, AppendProperties
<1> HIDE DEF f, n
<1>3. DOMAIN f = 1 .. n + 1 /\ AsSet(f) = {f[i] : i \in 1 .. n + 1}
  BY <1>2, RegisterType DEF AsSet
<1>4. \A i \in 1 .. n + 1 : i \in 1 .. n \/ i = n + 1
  BY <1>1
<1>5. n + 1 \in 1 .. n + 1 /\ \A i \in 1 .. n : i \in 1 .. n + 1
  BY <1>1
<1>6. AsSet(f) = AsSet(r) \cup {q}
  <2>1. ASSUME NEW x \in AsSet(f) PROVE x \in AsSet(r) \cup {q}
    BY <1>1, <1>2, <1>3, <1>4
  <2>2. ASSUME NEW x \in AsSet(r) \cup {q} PROVE x \in AsSet(f)
    BY <1>1, <1>2, <1>3, <1>5
  <2> QED BY <2>1, <2>2
<1> QED BY <1>2, <1>6 DEF f, n

LEMMA CompareAsAdder ==
  ASSUME NEW a, NEW b, NEW flag, NEW c0, CompareLayout(a, b, flag, c0)
  PROVE  AdderLayout(b, a \o <<flag>>, c0)
<1> DEFINE f == a \o <<flag>>
           n == Len(a)
<1>1. a \in Seq(Qubits) /\ b \in Seq(Qubits) /\ flag \in Qubits /\ c0 \in Qubits
  BY DEF CompareLayout
<1>2. /\ f \in Seq(Qubits) /\ Len(f) = n + 1 /\ n \in Nat /\ Len(b) = n
      /\ (\A i \in 1 .. n : f[i] = a[i]) /\ f[n + 1] = flag
      /\ AsSet(f) = AsSet(a) \cup {flag}
  BY <1>1, Lengthening, LenProperties DEF CompareLayout
<1> HIDE DEF f, n
<1>3. \A i \in 1 .. n + 1 : i \in 1 .. n \/ i = n + 1
  BY <1>2
<1>4. DOMAIN f = 1 .. n + 1 /\ \A i \in 1 .. n : a[i] \in AsSet(a) /\ a[i] # flag
  BY <1>1, <1>2, RegisterType DEF CompareLayout, n
<1>5. \A i, j \in 1 .. n : a[i] = a[j] => i = j
  BY <1>1, RegisterType DEF CompareLayout, Unrepeated, n
<1>6. Unrepeated(f)
  BY <1>2, <1>3, <1>4, <1>5 DEF Unrepeated
<1>7. Disjoint(b, f) /\ c0 \notin AsSet(b) \cup AsSet(f)
  BY <1>2 DEF CompareLayout, Disjoint
<1>8. Len(b) <= Len(f)
  BY <1>2
<1> QED BY <1>1, <1>2, <1>6, <1>7, <1>8 DEF AdderLayout, CompareLayout, f

(* What the second addition of a comparison meets: the first sum, turned     *)
(* round.  It carries what the first one did, and undoes it.                 *)
TurnedRound(a, b, c0, Cy, Z, Y, n) ==
  /\ c0 \in Y <=> c0 \in Z
  /\ \A j \in 1 .. n : (b[j] \in Y <=> b[j] \in Z) /\ (a[j] \in Y <=> ~ Odd(b[j] \in Z, a[j] \in Z, Cy[j - 1]))

LEMMA SameCarries ==
  ASSUME NEW b, NEW f, NEW c0, AdderLayout(b, f, c0), NEW Z, NEW Y,
         NEW Cy, AreCarries(Cy, Wires(b, c0), f, Z, Len(b)), TurnedRound(f, b, c0, Cy, Z, Y, Len(b))
  PROVE  AreCarries(Cy, Wires(b, c0), f, Y, Len(b))
<1> DEFINE n == Len(b)
           w == Wires(b, c0)
<1>1. n \in Nat /\ w[0] = c0 /\ \A j \in 1 .. n : w[j] = b[j]
  BY Wiring
<1>2. /\ Cy \in [0 .. n -> BOOLEAN] /\ Cy[0] = (w[0] \in Z)
      /\ \A i \in 1 .. n : Cy[i] = Most(w[i] \in Z, f[i] \in Z, Cy[i - 1])
  BY DEF AreCarries
<1>3. /\ c0 \in Y <=> c0 \in Z
      /\ \A j \in 1 .. n : (b[j] \in Y <=> b[j] \in Z) /\ (f[j] \in Y <=> ~ Odd(b[j] \in Z, f[j] \in Z, Cy[j - 1]))
  BY DEF TurnedRound
<1> HIDE DEF w, n
<1>4. Cy[0] = (w[0] \in Y)
  BY <1>1, <1>2, <1>3
<1>5. ASSUME NEW i \in 1 .. n PROVE Cy[i] = Most(w[i] \in Y, f[i] \in Y, Cy[i - 1])
  <2>1. Cy[i - 1] \in BOOLEAN
    <3>1. i - 1 \in 0 .. n
      BY <1>1
    <3> QED BY <1>2, <3>1
  <2>2. Cy[i] = Most(b[i] \in Z, f[i] \in Z, Cy[i - 1])
    BY <1>1, <1>2
  <2>3. Most(b[i] \in Z, f[i] \in Z, Cy[i - 1]) = Most(w[i] \in Y, f[i] \in Y, Cy[i - 1])
    BY <1>1, <1>3, <2>1 DEF Most, Odd
  <2> QED BY <2>2, <2>3
<1> QED BY <1>2, <1>4, <1>5 DEF AreCarries, w, n

LEMMA CompareType ==
  ASSUME NEW a, NEW b, NEW flag, NEW c0, CompareLayout(a, b, flag, c0)
  PROVE  LET D == AdderQubits(b, a \o <<flag>>, c0)
         IN  /\ D \in SUBSET Qubits
             /\ RippleCarryAdder(b, a \o <<flag>>, c0, FALSE) = Ripple(b, a \o <<flag>>, c0, FALSE, flag)
             /\ RippleCarryAdder(b, a \o <<flag>>, c0, TRUE) = Ripple(b, a \o <<flag>>, c0, TRUE, 0)
             /\ Ripple(b, a \o <<flag>>, c0, FALSE, flag) \in Seq(GatesOn(D, D))
             /\ Ripple(b, a \o <<flag>>, c0, TRUE, 0) \in Seq(GatesOn(D, D))
             /\ AsSet(a) \subseteq D /\ AsSet(b) \subseteq D
<1> DEFINE f == a \o <<flag>>
           D == AdderQubits(b, f, c0)
<1>1. f[Len(b) + 1] = flag /\ Len(f) = Len(b) + 1 /\ AsSet(f) = AsSet(a) \cup {flag}
  BY Lengthening DEF CompareLayout
<1>2. AdderLayout(b, f, c0)
  BY CompareAsAdder
<1> HIDE DEF f
<1>3. Len(b) \in Nat
  BY <1>2, Wiring
<1>4. AdderRoom(b, f, FALSE, flag) /\ AdderRoom(b, f, TRUE, 0)
  BY <1>1, <1>3 DEF AdderRoom
<1>5. Adds(Ripple(b, f, c0, FALSE, flag), b, f, c0, FALSE) /\ Adds(Ripple(b, f, c0, TRUE, 0), b, f, c0, TRUE)
  BY <1>2, <1>4, RippleAdds
<1>6. RippleCarryAdder(b, f, c0, FALSE) = Ripple(b, f, c0, FALSE, flag) /\ RippleCarryAdder(b, f, c0, TRUE) = Ripple(b, f, c0, TRUE, 0)
  BY <1>1 DEF RippleCarryAdder
<1>7. AsSet(a) \subseteq D /\ AsSet(b) \subseteq D
  BY <1>1 DEF AdderQubits
<1> HIDE DEF D
<1> QED BY <1>5, <1>6, <1>7 DEF Adds, D, f

LEMMA CompareGTCompares ==
  ASSUME NEW a, NEW b, NEW flag, NEW c0, CompareLayout(a, b, flag, c0)
  PROVE  LET c == CompareGT(a, b, flag, c0)
             D == AdderQubits(b, a \o <<flag>>, c0)
         IN  /\ D \in SUBSET Qubits /\ c \in Seq(GatesOn(D, D))
             /\ \A S \in SUBSET Qubits : c0 \notin S => After(c, S) = Flip(S, flag, Number(a, S) > Number(b, S))
<1> DEFINE c == CompareGT(a, b, flag, c0)
           f == a \o <<flag>>
           D == AdderQubits(b, f, c0)
           d == Ripple(b, f, c0, FALSE, flag)
           e == Ripple(b, f, c0, TRUE, 0)
           x == Between(a, e)
           n == Len(b)
<1>1. /\ a \in Seq(Qubits) /\ b \in Seq(Qubits) /\ c0 \in Qubits /\ flag \in Qubits /\ n = Len(a)
      /\ Unrepeated(a) /\ Unrepeated(b) /\ Disjoint(a, b) /\ c0 \notin AsSet(a) \cup AsSet(b)
      /\ flag \notin AsSet(a) \cup AsSet(b) /\ flag # c0
  BY DEF CompareLayout
<1>2. /\ n \in Nat /\ (\A j \in 1 .. n : a[j] \in AsSet(a) /\ b[j] \in AsSet(b) /\ a[j] \in Qubits /\ b[j] \in Qubits)
      /\ AsSet(b) = {b[j] : j \in 1 .. n} /\ AsSet(a) = {a[j] : j \in 1 .. n}
      /\ AsSet(a) \in SUBSET Qubits /\ AsSet(b) \in SUBSET Qubits
  BY <1>1, RegisterType DEF AsSet
<1>3. (\A j \in 1 .. n : f[j] = a[j]) /\ f[n + 1] = flag
  BY <1>1, Lengthening
<1>4. AdderLayout(b, f, c0)
  BY CompareAsAdder
<1>5. c = Between(b, d \o x) /\ D \in SUBSET Qubits /\ d \in Seq(GatesOn(D, D)) /\ e \in Seq(GatesOn(D, D))
      /\ AsSet(a) \subseteq D /\ AsSet(b) \subseteq D
  BY CompareType DEF CompareGT
<1> HIDE DEF c, f, d, e, D, n
<1>6. x \in Seq(GatesOn(D, D)) /\ d \o x \in Seq(GatesOn(D, D)) /\ c \in Seq(GatesOn(D, D))
  <2>1. D \cup AsSet(a) = D /\ D \cup AsSet(b) = D
    BY <1>5
  <2>2. x \in Seq(GatesOn(D \cup AsSet(a), D))
    BY <1>1, <1>5, BetweenType
  <2> HIDE DEF x
  <2>3. x \in Seq(GatesOn(D, D))
    BY <2>1, <2>2
  <2>4. d \o x \in Seq(GatesOn(D, D))
    BY <1>5, <2>3, ConcatProperties
  <2> DEFINE dx == d \o x
  <2>5. dx \in Seq(GatesOn(D, D))
    BY <2>4
  <2> HIDE DEF dx
  <2>6. Between(b, dx) \in Seq(GatesOn(D \cup AsSet(b), D))
    BY <1>1, <1>5, <2>5, BetweenType
  <2>7. c = Between(b, dx)
    BY <1>5 DEF dx
  <2> QED BY <2>1, <2>3, <2>4, <2>6, <2>7
<1>7. e \in Seq(GatesOn(Qubits, Qubits)) /\ d \in Seq(GatesOn(Qubits, Qubits)) /\ x \in Seq(GatesOn(Qubits, Qubits))
      /\ d \o x \in Seq(GatesOn(Qubits, Qubits))
  <2> HIDE DEF x
  <2>1. Seq(GatesOn(D, D)) \subseteq Seq(GatesOn(Qubits, Qubits))
    BY <1>5, AnyGates
  <2> QED BY <1>5, <1>6, <2>1
<1>8. ASSUME NEW S \in SUBSET Qubits, c0 \notin S
      PROVE  After(c, S) = Flip(S, flag, Number(a, S) > Number(b, S))
  <2> DEFINE Z == Complemented(S, AsSet(b))
             T == After(d, Z)
             Y == Complemented(T, AsSet(a))
             V == After(e, Y)
             W == Complemented(V, AsSet(a))
             R == Complemented(W, AsSet(b))
  <2>1. Z \in SUBSET Qubits
    BY <1>2 DEF Complemented
  <2>2. T \in SUBSET Qubits
    <3> HIDE DEF Z
    <3> QED BY <1>7, <2>1, AfterType
  <2>3. Y \in SUBSET Qubits /\ After(x, T) = W
    <3> HIDE DEF T
    <3> QED BY <1>1, <1>7, <2>2, AfterBetween
  <2>4. V \in SUBSET Qubits
    <3> HIDE DEF Y
    <3> QED BY <1>7, <2>3, AfterType
  <2>5. After(c, S) = R
    <3>1. After(Between(b, d \o x), S) = Complemented(After(d \o x, Z), AsSet(b))
      <4> DEFINE dx == d \o x
      <4>1. dx \in Seq(GatesOn(Qubits, Qubits))
        BY <1>7
      <4> HIDE DEF dx
      <4>2. After(Between(b, dx), S) = Complemented(After(dx, Z), AsSet(b))
        BY <1>1, <4>1, AfterBetween
      <4> QED BY <4>2 DEF dx
    <3>2. After(d \o x, Z) = After(x, T)
      <4> HIDE DEF x, Z
      <4> QED BY <1>7, <2>1, AfterConcat
    <3> QED BY <1>5, <2>3, <3>1, <3>2
  <2>6. PICK Cy : AreCarries(Cy, Wires(b, c0), f, Z, n)
    BY <1>2, CarriesExist
  <2>7. IsSum(b, f, c0, FALSE, flag, Cy, Z, T)
    <3>1. flag \notin AsSet(b) /\ \A j \in 1 .. Len(b) : flag # f[j]
      BY <1>1, <1>2, <1>3 DEF n
    <3> HIDE DEF Z
    <3> QED BY <1>1, <1>4, <2>1, <2>6, <3>1, RippleWorks DEF d, n
  <2>8. /\ \A j \in 1 .. n : a[j] \in T <=> Odd(b[j] \in Z, a[j] \in Z, Cy[j - 1])
        /\ flag \in T <=> ~ (flag \in Z <=> Cy[n])
        /\ \A q \in Qubits : q \notin AsSet(a) /\ q # flag => (q \in T <=> q \in Z)
    <3> HIDE DEF T, Z
    <3> QED BY <1>2, <1>3, <2>7 DEF IsSum, n
  <2>9. \A j \in 1 .. n : b[j] \notin AsSet(a) /\ b[j] # flag /\ a[j] \notin AsSet(b) /\ b[j] # c0 /\ a[j] # c0
    BY <1>1, <1>2 DEF Disjoint
  <2>10. TurnedRound(a, b, c0, Cy, Z, Y, n)
    <3>1. c0 \in Y <=> c0 \in T
      <4> HIDE DEF T
      <4> QED BY <1>1 DEF Complemented
    <3>2. \A j \in 1 .. n : (b[j] \in Y <=> b[j] \in T) /\ (a[j] \in Y <=> a[j] \notin T)
      <4> HIDE DEF T
      <4> QED BY <1>2, <2>9 DEF Complemented
    <3> HIDE DEF T, Y, Z
    <3> QED BY <1>1, <1>2, <2>8, <2>9, <3>1, <3>2 DEF TurnedRound
  <2>11. AreCarries(Cy, Wires(b, c0), f, Y, n)
    <3>1. TurnedRound(f, b, c0, Cy, Z, Y, n)
      <4> HIDE DEF Y, Z
      <4> QED BY <1>3, <2>10 DEF TurnedRound
    <3> HIDE DEF Y, Z
    <3> QED BY <1>4, <2>6, <3>1, SameCarries DEF n
  <2>12. IsSum(b, f, c0, TRUE, 0, Cy, Y, V)
    <3> HIDE DEF Y
    <3> QED BY <1>4, <2>3, <2>11, RippleWorks DEF e, n
  <2>13. /\ \A j \in 1 .. n : a[j] \in V <=> Odd(b[j] \in Y, a[j] \in Y, Cy[j - 1])
         /\ \A q \in Qubits : q \notin AsSet(a) => (q \in V <=> q \in Y)
    <3> HIDE DEF V, Y
    <3> QED BY <1>2, <1>3, <2>12 DEF IsSum, n
  <2>14. \A j \in 1 .. n : a[j] \in V <=> a[j] \notin Z
    <3>1. ASSUME NEW j \in 1 .. n PROVE a[j] \in V <=> a[j] \notin Z
      <4>1. Cy[j - 1] \in BOOLEAN
        <5>1. j - 1 \in 0 .. n
          BY <1>2
        <5> QED BY <2>6, <5>1 DEF AreCarries
      <4> HIDE DEF V, Y, Z
      <4> QED BY <2>10, <2>13, <4>1 DEF TurnedRound, Odd
    <3> QED BY <3>1
  <2>15. Cy[n] <=> Number(a, S) > Number(b, S)
    <3>1. AreBorrows(Cy, a, b, S, n)
      <4>1. c0 \notin Z
        BY <1>1, <1>8 DEF Complemented
      <4>2. \A j \in 1 .. n : (a[j] \in Z <=> a[j] \in S) /\ (b[j] \in Z <=> b[j] \notin S)
        BY <1>2, <2>9 DEF Complemented
      <4>3. Wires(b, c0)[0] = c0 /\ \A j \in 1 .. n : Wires(b, c0)[j] = b[j]
        BY <1>4, Wiring DEF n
      <4> HIDE DEF Z
      <4>4. Cy \in [0 .. n -> BOOLEAN] /\ Cy[0] = FALSE
        <5>1. Cy \in [0 .. n -> BOOLEAN] /\ Cy[0] = (Wires(b, c0)[0] \in Z)
          BY <2>6 DEF AreCarries
        <5>2. Cy[0] = (c0 \in Z)
          BY <4>3, <5>1
        <5>3. (c0 \in Z) = FALSE
          BY <4>1
        <5>4. Cy[0] = FALSE
          BY <5>2, <5>3
        <5> QED BY <5>1, <5>4
      <4>5. \A i \in 1 .. n : Cy[i] = Most(b[i] \notin S, a[i] \in S, Cy[i - 1])
        BY <1>3, <2>6, <4>2, <4>3 DEF AreCarries
      <4>6. \A i \in 1 .. n : Cy[i] = Most(a[i] \in S, b[i] \notin S, Cy[i - 1])
        BY <4>5 DEF Most
      <4> QED BY <4>4, <4>6 DEF AreBorrows
    <3>2. AreBorrows(Cy, a, b, S, Len(a)) /\ Len(a) = Len(b) /\ a \in Seq(Qubits) /\ b \in Seq(Qubits)
      BY <1>1, <3>1 DEF n
    <3>3. Cy[Len(a)] <=> Number(a, S) > Number(b, S)
      BY ONLY <3>2, LastBorrow
    <3> QED BY <1>1, <3>3
  <2>16. R \in SUBSET Qubits
    <3> HIDE DEF V
    <3> QED BY <1>2, <2>4 DEF Complemented
  <2>17. ASSUME NEW q \in Qubits PROVE q \in R <=> IF q = flag THEN ~ (q \in S <=> Cy[n]) ELSE q \in S
    <3>1. CASE q = flag
      <4>1. (q \in R <=> q \in V) /\ (q \in Y <=> q \in T) /\ (q \in Z <=> q \in S) /\ q \notin AsSet(a)
        <5> HIDE DEF V, T
        <5> QED BY <1>1, <3>1 DEF Complemented
      <4> HIDE DEF R, V, Y, T, Z
      <4> QED BY <2>8, <2>13, <3>1, <4>1
    <3>2. CASE q # flag /\ q \in AsSet(a)
      <4>1. PICK j \in 1 .. n : q = a[j]
        BY <1>2, <3>2
      <4>2. (q \in R <=> q \notin V) /\ (q \in Z <=> q \in S)
        <5>1. q \notin AsSet(b) /\ q \in AsSet(a)
          BY <2>9, <3>2, <4>1
        <5> HIDE DEF V, T
        <5> QED BY <5>1 DEF Complemented
      <4> HIDE DEF R, V, Y, T, Z
      <4> QED BY <2>14, <3>2, <4>1, <4>2
    <3>3. CASE q # flag /\ q \notin AsSet(a)
      <4>1. (q \in R <=> ~ (q \in V <=> q \in AsSet(b))) /\ (q \in Y <=> q \in T) /\ (q \in Z <=> ~ (q \in S <=> q \in AsSet(b)))
        <5> HIDE DEF V, T
        <5> QED BY <3>3 DEF Complemented
      <4> HIDE DEF R, V, Y, T, Z
      <4> QED BY <2>8, <2>13, <3>3, <4>1
    <3> QED BY <3>1, <3>2, <3>3
  <2> DEFINE F == Flip(S, flag, Number(a, S) > Number(b, S))
  <2>18. F \in SUBSET Qubits /\ \A q \in Qubits : q \in F <=> IF q = flag THEN ~ (q \in S <=> Cy[n]) ELSE q \in S
    <3>1. CASE Number(a, S) > Number(b, S)
      <4>1. F = Toggle(S, flag) /\ Cy[n]
        BY <2>15, <3>1 DEF Flip
      <4> QED BY <1>1, <4>1 DEF Toggle
    <3>2. CASE ~ (Number(a, S) > Number(b, S))
      <4>1. F = S /\ ~ Cy[n]
        BY <2>15, <3>2 DEF Flip
      <4> QED BY <1>1, <4>1
    <3> QED BY <3>1, <3>2
  <2> HIDE DEF F, R
  <2>19. R = F
    BY <2>16, <2>17, <2>18
  <2> QED BY <2>5, <2>19 DEF F
<1> QED BY <1>5, <1>6, <1>8 DEF c, f, D

(* States that hold the same in a register hold the same number in it.       *)
AlikeOn(r, T, S) == \A j \in 1 .. Len(r) : r[j] \in T <=> r[j] \in S

LEMMA SameNumber ==
  ASSUME NEW r \in Seq(Qubits), NEW T, NEW S, AlikeOn(r, T, S)
  PROVE  Number(r, T) = Number(r, S)
<1>1. Len(r) \in Nat
  BY LenProperties
<1>2. PICK f : IsTail(f, r, T) /\ Number(r, T) = f[0]
  BY <1>1, NumberTail
<1>3. \A j \in 1 .. Len(r) : Bit(r[j], T) = Bit(r[j], S)
  BY DEF Bit, AlikeOn
<1>4. IsTail(f, r, S)
  BY <1>2, <1>3 DEF IsTail
<1> QED BY <1>1, <1>2, <1>4, TailIsNumber

AlikeAbove(k, r, T, S) == \A j \in k + 1 .. Len(r) : r[j] \in T <=> r[j] \in S

LEMMA TailsAgree ==
  ASSUME NEW r \in Seq(Qubits), NEW T, NEW S, NEW k \in 0 .. Len(r), AlikeAbove(k, r, T, S),
         NEW f, IsTail(f, r, T), NEW g, IsTail(g, r, S)
  PROVE  f[k] = g[k]
<1> DEFINE n == Len(r)
           fu == [i \in 0 .. n - k |-> f[n - i]]
           gu == [i \in 0 .. n - k |-> g[n - i]]
<1>0. n \in Nat /\ n - k \in Nat /\ k \in 0 .. n
  BY LenProperties
<1>1. f[n] = 0 /\ g[n] = 0 /\ \A j \in 1 .. n : f[j - 1] = 2 * f[j] + Bit(r[j], T) /\ g[j - 1] = 2 * g[j] + Bit(r[j], S)
  BY DEF IsTail
<1>2. fu[0] = gu[0]
  BY <1>0, <1>1
<1>3. ASSUME NEW i \in 1 .. n - k, fu[i - 1] = gu[i - 1] PROVE fu[i] = gu[i]
  <2> DEFINE j == n - i + 1
  <2>1. j \in 1 .. n /\ j \in k + 1 .. n /\ j - 1 = n - i /\ n - (i - 1) = j /\ i - 1 \in 0 .. n - k /\ i \in 0 .. n - k
    BY <1>0
  <2>2. fu[i - 1] = f[j] /\ gu[i - 1] = g[j] /\ fu[i] = f[j - 1] /\ gu[i] = g[j - 1]
    BY <2>1
  <2> HIDE DEF fu, gu, j
  <2>3. Bit(r[j], T) = Bit(r[j], S)
    BY <2>1 DEF Bit, AlikeAbove
  <2> QED BY <1>1, <1>3, <2>1, <2>2, <2>3
<1>4. GoOnAlike(fu, gu, n - k)
  <2> HIDE DEF fu, gu
  <2> QED BY <1>2, <1>3 DEF GoOnAlike
<1>5. \A i \in 0 .. n - k : fu[i] = gu[i]
  <2> HIDE DEF fu, gu
  <2> QED BY <1>0, <1>4, SameRecursion
<1>6. n - k \in 0 .. n - k /\ n - (n - k) = k
  BY <1>0
<1>7. fu[n - k] = f[k] /\ gu[n - k] = g[k]
  BY <1>6
<1> HIDE DEF fu, gu
<1> QED BY <1>5, <1>6, <1>7

(* What WithNumber leaves.                                                   *)
LEMMA WrittenNumber ==
  ASSUME NEW r \in Seq(Qubits), Unrepeated(r), NEW S \in SUBSET Qubits, NEW N \in Int
  PROVE  /\ WithNumber(S, r, N) \in SUBSET Qubits
         /\ HoldsDigits(r, WithNumber(S, r, N), Halves(N, Len(r)))
         /\ AlikeOff(r, WithNumber(S, r, N), S)
<1> DEFINE m == Len(r)
           half == Halves(N, m)
           new == {r[i] : i \in {j \in DOMAIN r : half[j - 1] % 2 = 1}}
           R == WithNumber(S, r, N)
<1>1. m \in Nat /\ DOMAIN r = 1 .. m /\ (\A i \in 1 .. m : r[i] \in Qubits) /\ AsSet(r) = {r[i] : i \in 1 .. m}
  BY RegisterType DEF AsSet
<1>2. R = (S \ AsSet(r)) \cup new
  BY DEF WithNumber
<1> HIDE DEF half, R
<1>3. new \subseteq AsSet(r) /\ new \subseteq Qubits
  BY <1>1
<1>4. ASSUME NEW j \in 1 .. m PROVE r[j] \in new <=> half[j - 1] % 2 = 1
  <2>1. half[j - 1] % 2 = 1 => r[j] \in new
    BY <1>1
  <2>2. ASSUME r[j] \in new PROVE half[j - 1] % 2 = 1
    <3>1. PICK i \in 1 .. m : r[j] = r[i] /\ half[i - 1] % 2 = 1
      BY <1>1, <2>2
    <3>2. i = j
      BY <1>1, <3>1 DEF Unrepeated
    <3> QED BY <3>1, <3>2
  <2> QED BY <2>1, <2>2
<1> HIDE DEF new
<1>5. \A j \in 1 .. m : r[j] \in AsSet(r)
  BY <1>1
<1>6. HoldsDigits(r, R, half)
  BY <1>2, <1>4, <1>5 DEF HoldsDigits
<1>7. AlikeOff(r, R, S)
  BY <1>2, <1>3 DEF AlikeOff
<1>8. R \in SUBSET Qubits
  BY <1>2, <1>3
<1> QED BY <1>6, <1>7, <1>8 DEF half, R

LEMMA DigitsRead ==
  ASSUME NEW r \in Seq(Qubits), NEW R, NEW N \in Nat, NEW h, IsHalved(h, N, Len(r)), h[Len(r)] = 0,
         HoldsDigits(r, R, h)
  PROVE  Number(r, R) = N
<1> DEFINE m == Len(r)
<1>1. m \in Nat
  BY LenProperties
<1>2. h \in [0 .. m -> Int] /\ h[0] = N /\ \A j \in 1 .. m : h[j] = h[j - 1] \div 2
  BY DEF IsHalved
<1> DEFINE I == {j \in Nat : j <= m => h[j] \in Nat}
<1>3. 0 .. m \subseteq I
  <2>1. 0 \in I
    BY <1>2
  <2>2. ASSUME NEW j \in I, j < m PROVE j + 1 \in I
    <3>1. j \in Nat /\ j + 1 \in 1 .. m /\ (j + 1) - 1 = j /\ j <= m
      BY <1>1, <2>2
    <3>2. h[j + 1] = h[j] \div 2 /\ h[j] \in Nat
      BY <1>2, <3>1
    <3>3. \A z \in Nat : z \div 2 \in Nat
      OBVIOUS
    <3> QED BY <3>1, <3>2, <3>3
  <2>3. I \in SUBSET Nat
    OBVIOUS
  <2> HIDE DEF I
  <2> QED BY <1>1, <2>1, <2>2, <2>3, Induction
<1>4. h \in [0 .. m -> Nat]
  BY <1>2, <1>3
<1>5. ASSUME NEW j \in 1 .. m PROVE h[j - 1] = 2 * h[j] + Bit(r[j], R)
  <2>1. h[j] = h[j - 1] \div 2 /\ h[j - 1] \in Nat
    <3>1. j - 1 \in 0 .. m
      BY <1>1
    <3> QED BY <1>2, <1>4, <3>1
  <2>2. \A z \in Nat : z = 2 * (z \div 2) + (IF z % 2 = 1 THEN 1 ELSE 0)
    OBVIOUS
  <2>3. Bit(r[j], R) = IF h[j - 1] % 2 = 1 THEN 1 ELSE 0
    BY DEF HoldsDigits, Bit
  <2> QED BY <2>1, <2>2, <2>3
<1>6. IsTail(h, r, R)
  BY <1>4, <1>5 DEF IsTail
<1> QED BY <1>1, <1>2, <1>6, TailIsNumber

(* A register one qubit longer than the adder, its last qubit 0, holds all   *)
(* of the sum.                                                               *)
IsTheSum(R, A, B, c0, S) ==
  /\ R \in SUBSET Qubits /\ AlikeOff(B, R, S)
  /\ Number(B, R) = Number(A, S) + Number(B, S) + Bit(c0, S)

LEMMA SumFits ==
  ASSUME NEW A, NEW B, NEW c0, AdderLayout(A, B, c0), Len(B) = Len(A) + 1,
         NEW S \in SUBSET Qubits, B[Len(B)] \notin S
  PROVE  IsTheSum(Added(A, B, c0, FALSE, S), A, B, c0, S)
<1> DEFINE n == Len(A)
           m == n + 1
           N == Number(A, S) + Number(B, S) + Bit(c0, S)
           h == Halves(N, m)
           R == Added(A, B, c0, FALSE, S)
<1>1. n \in Nat /\ A \in Seq(Qubits) /\ B \in Seq(Qubits) /\ Unrepeated(B) /\ Len(B) = m /\ m \in Nat
  BY Wiring DEF AdderLayout
<1>2. SubSeq(B, 1, m) = B
  <2>1. SubSeq(B, 1, m) \in Seq(Qubits) /\ Len(SubSeq(B, 1, m)) = m /\ \A i \in 1 .. m : SubSeq(B, 1, m)[i] = B[i]
    <3>1. m \in 0 .. Len(B)
      BY <1>1
    <3> HIDE DEF m
    <3> QED BY <1>1, <3>1, FirstOf
  <2> QED BY <1>1, <2>1, SeqEqual
<1>3. R = WithNumber(S, B, N)
  BY <1>2 DEF Added
<1>4. PICK fA : IsTail(fA, A, S) /\ Number(A, S) = fA[0]
  BY <1>1, NumberTail
<1>5. PICK fB : IsTail(fB, B, S) /\ Number(B, S) = fB[0]
  BY <1>1, NumberTail
<1>6. fA[0] \in Nat /\ fB[0] \in Nat /\ fA[n] = 0 /\ fB[m] = 0 /\ fB[n] = 2 * fB[m] + Bit(B[m], S)
  <2>1. fA[0] \in Nat /\ fA[n] = 0
    BY <1>1, <1>4 DEF IsTail
  <2>2. fB[0] \in Nat /\ fB[m] = 0 /\ \A j \in 1 .. m : fB[j - 1] = 2 * fB[j] + Bit(B[j], S)
    BY <1>1, <1>5 DEF IsTail
  <2>3. m \in 1 .. m /\ m - 1 = n
    BY <1>1
  <2> QED BY <2>1, <2>2, <2>3
<1>7. N \in Nat /\ N = fA[0] + fB[0] + Bit(c0, S)
  BY <1>4, <1>5, <1>6 DEF Bit
<1>8. PICK Cy : AreCarries(Cy, Wires(A, c0), B, S, n)
  BY <1>1, CarriesExist
<1> HIDE DEF N, R
<1>9. IsHalved(h, N, m)
  BY <1>1, <1>7, HalvesAreHalved
<1> HIDE DEF h
<1>10. h[n] = fA[n] + fB[n] + One(Cy[n])
  <2>1. n <= m /\ n \in 0 .. n /\ IsHalved(h, fA[0] + fB[0] + Bit(c0, S), m)
    BY <1>1, <1>7, <1>9
  <2>2. AddsUp(h, fA, fB, Cy, n)
    <3> HIDE DEF m
    <3> QED BY <1>1, <1>4, <1>5, <1>8, <2>1, SumHalved
  <2> QED BY <2>1, <2>2 DEF AddsUp
<1>11. h[m] = 0
  <2>1. m \in 1 .. m /\ m - 1 = n
    BY <1>1
  <2>2. h[m] = h[n] \div 2
    BY <1>9, <2>1 DEF IsHalved
  <2>3. h[n] = 0 \/ h[n] = 1
    <3>1. Bit(B[m], S) = 0
      BY <1>1 DEF Bit
    <3> QED BY <1>6, <1>10, <3>1 DEF One
  <2> QED BY <2>2, <2>3
<1>12. R \in SUBSET Qubits /\ AlikeOff(B, R, S) /\ HoldsDigits(B, R, h)
  <2>1. N \in Int
    BY <1>7
  <2>2. WithNumber(S, B, N) \in SUBSET Qubits /\ HoldsDigits(B, WithNumber(S, B, N), Halves(N, Len(B))) /\ AlikeOff(B, WithNumber(S, B, N), S)
    BY <1>1, <2>1, WrittenNumber
  <2> QED BY <1>1, <1>3, <2>2 DEF h
<1>13. Number(B, R) = N
  BY <1>1, <1>7, <1>9, <1>11, <1>12, DigitsRead
<1> QED BY <1>12, <1>13 DEF N, R, IsTheSum

(* A part of a register.                                                     *)
LEMMA PartOf ==
  ASSUME NEW r \in Seq(Qubits), Unrepeated(r), NEW i \in 1 .. Len(r), NEW n \in Nat, i + n <= Len(r)
  PROVE  /\ SubSeq(r, i, i + n) \in Seq(Qubits) /\ Len(SubSeq(r, i, i + n)) = n + 1
         /\ (\A j \in 1 .. n + 1 : SubSeq(r, i, i + n)[j] = r[i - 1 + j])
         /\ AsSet(SubSeq(r, i, i + n)) = {r[i - 1 + j] : j \in 1 .. n + 1}
         /\ AsSet(SubSeq(r, i, i + n)) \subseteq AsSet(r)
         /\ Unrepeated(SubSeq(r, i, i + n))
<1> DEFINE s == SubSeq(r, i, i + n)
           m == n + 1
<1>1. Len(r) \in Nat /\ DOMAIN r = 1 .. Len(r) /\ (\A j \in 1 .. Len(r) : r[j] \in Qubits /\ r[j] \in AsSet(r)) /\ i \in Nat
  BY RegisterType
<1>2. \A j \in 1 .. m : i - 1 + j \in 1 .. Len(r)
  BY <1>1
<1>3. s = [j \in 1 .. m |-> r[i - 1 + j]]
  <2>1. s = [j \in 1 .. (1 + (i + n)) - i |-> r[(j + i) - 1]]
    BY <1>1
  <2>2. (1 + (i + n)) - i = m /\ \A j \in 1 .. m : (j + i) - 1 = i - 1 + j
    BY <1>1
  <2> QED BY <2>1, <2>2
<1>4. [j \in 1 .. m |-> r[i - 1 + j]] \in [1 .. m -> Qubits] /\ m \in Nat
  BY <1>1, <1>2
<1>5. s \in Seq(Qubits) /\ Len(s) = m /\ DOMAIN s = 1 .. m
  <2> HIDE DEF s
  <2>1. s \in [1 .. m -> Qubits]
    BY <1>3, <1>4
  <2> HIDE DEF m
  <2> QED BY <1>4, <2>1, PartsAreASequence, LenProperties
<1>6. \A j \in 1 .. m : s[j] = r[i - 1 + j]
  BY <1>3
<1> HIDE DEF s, m
<1>7. AsSet(s) = {r[i - 1 + j] : j \in 1 .. m}
  BY <1>5, <1>6 DEF AsSet
<1>8. AsSet(s) \subseteq AsSet(r)
  BY <1>1, <1>2, <1>7
<1>9. ASSUME NEW j \in 1 .. m, NEW k \in 1 .. m, s[j] = s[k] PROVE j = k
  <2>1. i - 1 + j = i - 1 + k
    BY <1>1, <1>2, <1>6, <1>9 DEF Unrepeated
  <2> QED BY <1>1, <2>1 DEF m
<1>10. Unrepeated(s)
  BY <1>5, <1>9 DEF Unrepeated
<1> QED BY <1>5, <1>6, <1>7, <1>8, <1>10 DEF s, m

LEMMA PartNumber ==
  ASSUME NEW r \in Seq(Qubits), Unrepeated(r), NEW i \in 1 .. Len(r), NEW n \in Nat, i + n <= Len(r),
         NEW T, NEW f, IsTail(f, r, T), f[i + n] = 0
  PROVE  Number(SubSeq(r, i, i + n), T) = f[i - 1]
<1> DEFINE s == SubSeq(r, i, i + n)
           m == n + 1
           g == [j \in 0 .. m |-> f[i - 1 + j]]
<1>1. Len(r) \in Nat /\ i \in Nat /\ m \in Nat
  BY LenProperties
<1>2. s \in Seq(Qubits) /\ Len(s) = m /\ \A j \in 1 .. m : s[j] = r[i - 1 + j]
  BY PartOf
<1>3. f \in [0 .. Len(r) -> Nat] /\ \A j \in 1 .. Len(r) : f[j - 1] = 2 * f[j] + Bit(r[j], T)
  BY DEF IsTail
<1>4. \A j \in 0 .. m : i - 1 + j \in 0 .. Len(r)
  BY <1>1
<1>5. g \in [0 .. m -> Nat]
  BY <1>3, <1>4
<1>6. g[0] = f[i - 1] /\ g[m] = f[i + n]
  <2>1. 0 \in 0 .. m /\ m \in 0 .. m /\ i - 1 + 0 = i - 1 /\ i - 1 + m = i + n
    BY <1>1
  <2> QED BY <2>1
<1>7. ASSUME NEW j \in 1 .. m PROVE g[j - 1] = 2 * g[j] + Bit(s[j], T)
  <2>1. j \in 0 .. m /\ j - 1 \in 0 .. m /\ i - 1 + j \in 1 .. Len(r) /\ (i - 1 + j) - 1 = i - 1 + (j - 1)
    BY <1>1
  <2>2. g[j] = f[i - 1 + j] /\ g[j - 1] = f[i - 1 + (j - 1)]
    BY <2>1
  <2> HIDE DEF g, s
  <2> QED BY <1>2, <1>3, <2>1, <2>2
<1>8. IsTail(g, s, T)
  <2> HIDE DEF g, s
  <2> QED BY <1>2, <1>5, <1>6, <1>7 DEF IsTail
<1> HIDE DEF g, s
<1>9. Number(s, T) = g[0]
  BY <1>1, <1>2, <1>8, TailIsNumber
<1> QED BY <1>6, <1>9 DEF s

(* The state after i additions: what lies in the register above its i lowest *)
(* digits, and what is still to be added, P, make the product halved i times;*)
(* the i digits below are already those of the product.                      *)
Multiplied(i, T, f, r, n, h, P) ==
  /\ IsTail(f, r, T)
  /\ f[i + n] = 0
  /\ f[i] + P = h[i]
  /\ \A j \in 1 .. i : r[j] \in T <=> h[j - 1] % 2 = 1

LEMMA Advance ==
  ASSUME NEW r \in Seq(Qubits), NEW n \in Nat, NEW i \in 1 .. Len(r), i + n <= Len(r), NEW N \in Int,
         NEW h, IsHalved(h, N, Len(r)), NEW P \in Int, NEW T, NEW f, IsTail(f, r, T),
         f[i + n] = 0, f[i - 1] + 2 * P = h[i - 1],
         \A j \in 1 .. i - 1 : r[j] \in T <=> h[j - 1] % 2 = 1
  PROVE  Multiplied(i, T, f, r, n, h, P)
<1>1. f[i - 1] = 2 * f[i] + Bit(r[i], T) /\ f[i] \in Nat
  <2>1. i \in 0 .. Len(r)
    BY LenProperties
  <2> QED BY <2>1 DEF IsTail
<1>2. h[i] = h[i - 1] \div 2
  BY DEF IsHalved
<1>3. Bit(r[i], T) \in {0, 1} /\ (Bit(r[i], T) = 1 <=> r[i] \in T)
  BY DEF Bit
<1> DEFINE x == f[i]
           b == Bit(r[i], T)
<1>4. h[i - 1] = 2 * (x + P) + b /\ x + P \in Int /\ b \in {0, 1}
  BY <1>1, <1>3
<1> HIDE DEF x, b
<1>5. \A z \in Int : (2 * z) \div 2 = z /\ (2 * z + 1) \div 2 = z /\ (2 * z) % 2 = 0 /\ (2 * z + 1) % 2 = 1
  OBVIOUS
<1>6. h[i] = x + P /\ (h[i - 1] % 2 = 1 <=> b = 1)
  <2>1. CASE b = 0
    BY <1>2, <1>4, <1>5, <2>1
  <2>2. CASE b = 1
    BY <1>2, <1>4, <1>5, <2>2
  <2> QED BY <1>4, <2>1, <2>2
<1>7. f[i] + P = h[i] /\ (r[i] \in T <=> h[i - 1] % 2 = 1)
  BY <1>3, <1>6 DEF x, b
<1>8. \A j \in 1 .. i : j \in 1 .. i - 1 \/ j = i
  BY LenProperties
<1>9. \A j \in 1 .. i : r[j] \in T <=> h[j - 1] % 2 = 1
  BY <1>7, <1>8
<1> QED BY <1>7, <1>9 DEF Multiplied

(* One more digit of the multiplier, which is 0.                             *)
LEMMA DigitSkipped ==
  ASSUME NEW r \in Seq(Qubits), NEW n \in Nat, NEW i \in 1 .. Len(r), i + n <= Len(r), NEW N \in Int,
         NEW h, IsHalved(h, N, Len(r)), NEW P \in Int, NEW T, NEW f, Multiplied(i - 1, T, f, r, n, h, 2 * P)
  PROVE  Multiplied(i, T, f, r, n, h, P)
<1>1. IsTail(f, r, T) /\ f[(i - 1) + n] = 0 /\ f[i - 1] + 2 * P = h[i - 1]
      /\ \A j \in 1 .. i - 1 : r[j] \in T <=> h[j - 1] % 2 = 1
  BY DEF Multiplied
<1>2. f[i + n] = 0
  <2>1. i + n \in 1 .. Len(r) /\ (i + n) - 1 = (i - 1) + n /\ i + n \in 0 .. Len(r)
    BY LenProperties
  <2>2. f[(i + n) - 1] = 2 * f[i + n] + Bit(r[i + n], T) /\ f[i + n] \in Nat
    BY <1>1, <2>1 DEF IsTail
  <2> QED BY <1>1, <2>1, <2>2 DEF Bit
<1> QED BY <1>1, <1>2, Advance

(* One more digit, which is 1: the number v is added.                        *)
LEMMA DigitAdded ==
  ASSUME NEW r \in Seq(Qubits), Unrepeated(r), NEW n \in Nat, NEW i \in 1 .. Len(r), i + n <= Len(r), NEW N \in Int,
         NEW h, IsHalved(h, N, Len(r)), NEW P \in Int, NEW v \in Int, NEW T, NEW f,
         Multiplied(i - 1, T, f, r, n, h, 2 * P + v),
         NEW Y, AlikeOff(SubSeq(r, i, i + n), Y, T),
         Number(SubSeq(r, i, i + n), Y) = v + Number(SubSeq(r, i, i + n), T)
  PROVE  \E g : Multiplied(i, Y, g, r, n, h, P)
<1> DEFINE s == SubSeq(r, i, i + n)
<1>1. IsTail(f, r, T) /\ f[(i - 1) + n] = 0 /\ f[i - 1] + (2 * P + v) = h[i - 1]
      /\ \A j \in 1 .. i - 1 : r[j] \in T <=> h[j - 1] % 2 = 1
  BY DEF Multiplied
<1>0. Len(r) \in Nat /\ DOMAIN r = 1 .. Len(r) /\ (\A j \in 1 .. Len(r) : r[j] \in Qubits) /\ i \in Nat
  BY RegisterType
<1>2. f[i + n] = 0
  <2>1. i + n \in 1 .. Len(r) /\ (i + n) - 1 = (i - 1) + n /\ i + n \in 0 .. Len(r)
    BY <1>0
  <2>2. f[(i + n) - 1] = 2 * f[i + n] + Bit(r[i + n], T) /\ f[i + n] \in Nat
    BY <1>1, <2>1 DEF IsTail
  <2> QED BY <1>1, <2>1, <2>2 DEF Bit
<1>3. PICK g : IsTail(g, r, Y)
  BY <1>0, NumberTail
<1>4. \A j \in 1 .. Len(r) : j < i \/ j > i + n => (r[j] \in Y <=> r[j] \in T)
  <2>1. AsSet(s) = {r[i - 1 + j] : j \in 1 .. n + 1}
    BY PartOf
  <2> HIDE DEF s
  <2>2. ASSUME NEW j \in 1 .. Len(r), j < i \/ j > i + n PROVE r[j] \notin AsSet(s)
    <3> SUFFICES ASSUME r[j] \in AsSet(s) PROVE FALSE
      OBVIOUS
    <3>1. PICK k \in 1 .. n + 1 : r[j] = r[i - 1 + k]
      BY <2>1
    <3>2. i - 1 + k \in 1 .. Len(r) /\ i - 1 + k # j
      BY <1>0, <2>2
    <3> QED BY <1>0, <3>1, <3>2 DEF Unrepeated
  <2>3. AlikeOff(s, Y, T)
    BY DEF s
  <2> QED BY <1>0, <2>2, <2>3 DEF AlikeOff
<1>5. g[i + n] = 0
  <2>1. i + n \in 0 .. Len(r)
    BY <1>0
  <2>2. AlikeAbove(i + n, r, Y, T)
    BY <1>0, <1>4 DEF AlikeAbove
  <2>3. g[i + n] = f[i + n]
    BY <1>1, <1>3, <2>1, <2>2, TailsAgree
  <2> QED BY <1>2, <2>3
<1>6. g[i - 1] = v + f[i - 1]
  <2>1. Number(SubSeq(r, i, i + n), Y) = g[i - 1]
    BY <1>3, <1>5, PartNumber
  <2>2. Number(SubSeq(r, i, i + n), T) = f[i - 1]
    <3>1. IsTail(f, r, T)
      BY <1>1
    <3> QED BY <1>2, <3>1, PartNumber
  <2> QED BY <2>1, <2>2
<1>7. \A j \in 1 .. i - 1 : r[j] \in Y <=> h[j - 1] % 2 = 1
  BY <1>0, <1>1, <1>4
<1>8. g[i - 1] + 2 * P = h[i - 1]
  <2>1. f[i - 1] \in Nat
    <3>1. i - 1 \in 0 .. Len(r)
      BY <1>0
    <3> QED BY <1>1, <3>1 DEF IsTail
  <2> QED BY <1>1, <1>6, <2>1
<1>9. Multiplied(i, Y, g, r, n, h, P)
  BY <1>3, <1>5, <1>7, <1>8, Advance
<1> QED BY <1>9

(* When nothing is left to add, the register holds the product.              *)
LEMMA AllAdded ==
  ASSUME NEW r \in Seq(Qubits), NEW n \in Nat, NEW k \in Nat, k + n <= Len(r), NEW N \in Int,
         NEW h, IsHalved(h, N, Len(r)), NEW T, NEW f, Multiplied(k, T, f, r, n, h, 0)
  PROVE  HoldsDigits(r, T, h)
<1> DEFINE m == Len(r)
<1>1. m \in Nat /\ k \in 0 .. m
  BY LenProperties
<1>2. f[k] + 0 = h[k] /\ \A j \in 1 .. k : r[j] \in T <=> h[j - 1] % 2 = 1
  BY DEF Multiplied
<1>3. f \in [0 .. m -> Nat] /\ \A j \in 1 .. m : f[j - 1] = 2 * f[j] + Bit(r[j], T)
  BY DEF Multiplied, IsTail
<1>4. \A j \in 1 .. m : h[j] = h[j - 1] \div 2
  BY DEF IsHalved
<1> HIDE DEF m
<1>5. \A z \in Nat : (2 * z + 0) \div 2 = z /\ (2 * z + 1) \div 2 = z /\ (2 * z + 0) % 2 = 0 /\ (2 * z + 1) % 2 = 1
  OBVIOUS
<1>6. ASSUME NEW j \in 1 .. m, h[j - 1] = f[j - 1] PROVE h[j] = f[j] /\ (r[j] \in T <=> h[j - 1] % 2 = 1)
  <2>1. f[j] \in Nat /\ h[j - 1] = 2 * f[j] + Bit(r[j], T) /\ h[j] = h[j - 1] \div 2
    BY <1>1, <1>3, <1>4, <1>6
  <2>2. CASE r[j] \in T
    <3>1. h[j - 1] = 2 * f[j] + 1
      BY <2>1, <2>2 DEF Bit
    <3> QED BY <1>5, <2>1, <2>2, <3>1
  <2>3. CASE r[j] \notin T
    <3>1. h[j - 1] = 2 * f[j] + 0
      BY <2>1, <2>3 DEF Bit
    <3> QED BY <1>5, <2>1, <2>3, <3>1
  <2> QED BY <2>2, <2>3
<1> DEFINE I == {j \in Nat : k <= j /\ j <= m => h[j] = f[j]}
<1>7. 0 .. m \subseteq I
  <2>1. f[k] = h[k]
    BY <1>1, <1>2, <1>3
  <2>2. 0 \in I
    BY <1>1, <2>1
  <2>3. ASSUME NEW j \in I, j < m PROVE j + 1 \in I
    <3>1. j \in Nat /\ j + 1 \in 1 .. m /\ (j + 1) - 1 = j /\ j <= m
      BY <1>1, <2>3
    <3>2. CASE k <= j
      <4>1. h[j] = f[j]
        BY <3>1, <3>2
      <4>2. h[j + 1] = f[j + 1]
        BY <1>6, <3>1, <4>1
      <4> QED BY <3>1, <4>2
    <3>3. CASE k > j
      <4>1. k = j + 1 \/ ~ (k <= j + 1)
        BY <3>1, <3>3
      <4> QED BY <2>1, <3>1, <4>1
    <3> QED BY <3>1, <3>2, <3>3
  <2>4. I \in SUBSET Nat
    OBVIOUS
  <2> HIDE DEF I
  <2> QED BY <1>1, <2>2, <2>3, <2>4, Induction
<1>8. ASSUME NEW j \in 1 .. m PROVE r[j] \in T <=> h[j - 1] % 2 = 1
  <2>1. CASE j \in 1 .. k
    BY <1>2, <2>1
  <2>2. CASE j \notin 1 .. k
    <3>1. j - 1 \in 0 .. m /\ k <= j - 1 /\ j - 1 <= m
      BY <1>1, <2>2
    <3>2. h[j - 1] = f[j - 1]
      BY <1>7, <3>1
    <3> QED BY <1>6, <3>2
  <2> QED BY <2>1, <2>2
<1> QED BY <1>8 DEF HoldsDigits, m

(* The registers of a multiplication.                                        *)
MultiplyLayout(a, b, r, c0) ==
  /\ a \in Seq(Qubits) /\ b \in Seq(Qubits) /\ r \in Seq(Qubits) /\ c0 \in Qubits
  /\ a # <<>> /\ Len(a) + Len(b) <= Len(r)
  /\ Unrepeated(a) /\ Unrepeated(r) /\ Disjoint(a, b) /\ Disjoint(a, r) /\ Disjoint(b, r)
  /\ c0 \notin AsSet(a) \cup AsSet(b) \cup AsSet(r)
MultiplyQubits(a, b, r, c0) == {c0} \cup AsSet(a) \cup AsSet(b) \cup AsSet(r)
DigitTimes(a, b, r, c0, i) == ControlledAddition(a, SubSeq(r, i, i + Len(a)), c0, <<b[i]>>, <<>>, FALSE)

LEMMA MultiplyRegisters ==
  ASSUME NEW a, NEW b, NEW r, NEW c0, MultiplyLayout(a, b, r, c0)
  PROVE  /\ Len(a) \in Nat /\ Len(b) \in Nat /\ Len(r) \in Nat /\ Len(a) + Len(b) <= Len(r) /\ Len(a) >= 1
         /\ MultiplyQubits(a, b, r, c0) \in SUBSET Qubits
         /\ \A i \in 1 .. Len(b) : /\ i \in 1 .. Len(r) /\ i + Len(a) <= Len(r)
                                   /\ b[i] \in Qubits /\ b[i] \in AsSet(b)
<1>1. a \in Seq(Qubits) /\ b \in Seq(Qubits) /\ r \in Seq(Qubits) /\ a # <<>> /\ Len(a) + Len(b) <= Len(r) /\ c0 \in Qubits
  BY DEF MultiplyLayout
<1>2. Len(a) # 0
  BY <1>1, EmptySeq
<1>3. Len(a) \in Nat /\ Len(b) \in Nat /\ Len(r) \in Nat
  BY <1>1, LenProperties
<1>4. AsSet(a) \in SUBSET Qubits /\ AsSet(b) \in SUBSET Qubits /\ AsSet(r) \in SUBSET Qubits
  BY <1>1, RegisterType
<1>5. \A i \in 1 .. Len(b) : b[i] \in Qubits /\ b[i] \in AsSet(b)
  BY <1>1, RegisterType
<1> QED BY <1>1, <1>2, <1>3, <1>4, <1>5 DEF MultiplyQubits

TimesWorks(a, b, r, c0, i) ==
  LET D == MultiplyQubits(a, b, r, c0)
      s == SubSeq(r, i, i + Len(a))
  IN  /\ AdderLayout(a, s, c0)
      /\ DigitTimes(a, b, r, c0, i) \in Seq(GatesOn(D, D))
      /\ \A T \in SUBSET Qubits :
           After(DigitTimes(a, b, r, c0, i), T) = IF b[i] \in T THEN Added(a, s, c0, FALSE, T) ELSE T

LEMMA DigitTimesWorks ==
  ASSUME NEW a, NEW b, NEW r, NEW c0, MultiplyLayout(a, b, r, c0), NEW i \in 1 .. Len(b)
  PROVE  TimesWorks(a, b, r, c0, i)
<1> DEFINE n == Len(a)
           s == SubSeq(r, i, i + n)
           D == MultiplyQubits(a, b, r, c0)
           E == AdderQubits(a, s, c0)
           on == <<b[i]>>
           c == DigitTimes(a, b, r, c0, i)
<1>1. /\ a \in Seq(Qubits) /\ r \in Seq(Qubits) /\ c0 \in Qubits /\ a # <<>>
      /\ Unrepeated(a) /\ Unrepeated(r) /\ Disjoint(a, b) /\ Disjoint(a, r) /\ Disjoint(b, r)
      /\ c0 \notin AsSet(a) \cup AsSet(b) \cup AsSet(r)
  BY DEF MultiplyLayout
<1>2. n \in Nat /\ i \in 1 .. Len(r) /\ i + n <= Len(r) /\ b[i] \in Qubits /\ b[i] \in AsSet(b) /\ D \in SUBSET Qubits
  BY MultiplyRegisters
<1>3. s \in Seq(Qubits) /\ Len(s) = n + 1 /\ AsSet(s) \subseteq AsSet(r) /\ Unrepeated(s)
  <2> HIDE DEF n
  <2>1. r \in Seq(Qubits) /\ Unrepeated(r) /\ i \in 1 .. Len(r) /\ n \in Nat /\ i + n <= Len(r)
    BY <1>1, <1>2
  <2>2. s \in Seq(Qubits) /\ Len(s) = n + 1
    BY ONLY <2>1, PartOf
  <2>3. AsSet(s) \subseteq AsSet(r)
    BY ONLY <2>1, PartOf
  <2>4. Unrepeated(s)
    BY ONLY <2>1, PartOf
  <2> QED BY <2>2, <2>3, <2>4
<1> HIDE DEF s
<1>4. AdderLayout(a, s, c0)
  BY <1>1, <1>2, <1>3 DEF AdderLayout, Disjoint
<1>5. AsSet(on) = {b[i]} /\ AsSet(<<>>) = {} /\ on \in Seq(Qubits) /\ <<>> \in Seq(Qubits)
  BY <1>2 DEF AsSet
<1>6. Controls(on, <<>>, E)
  <2>1. b[i] \notin E
    BY <1>1, <1>2, <1>3 DEF AdderQubits, Disjoint
  <2>2. Unrepeated(<<>>) /\ Disjoint(on, <<>>)
    BY <1>5 DEF Unrepeated, Disjoint
  <2> HIDE DEF on, E
  <2> QED BY <1>5, <2>1, <2>2 DEF Controls
<1>7. ControlledRoom(a, s, on, <<>>, FALSE)
  BY <1>2, <1>3 DEF ControlledRoom
<1>8. c = ControlledAddition(a, s, c0, on, <<>>, FALSE)
  BY DEF DigitTimes, s
<1> HIDE DEF on, c
<1>9. /\ c \in Seq(GatesOn(E \cup AsSet(on) \cup AsSet(<<>>), E \cup AsSet(on) \cup AsSet(<<>>)))
      /\ \A T \in SUBSET Qubits : After(c, T) = IF Holds(T, on, <<>>) THEN Added(a, s, c0, FALSE, T) ELSE T
  <2>1. AddsWhere(ControlledAddition(a, s, c0, on, <<>>, FALSE), a, s, c0, on, <<>>, FALSE)
    <3> DEFINE off == <<>>
               no == FALSE
    <3>1. AdderLayout(a, s, c0) /\ Controls(on, off, AdderQubits(a, s, c0)) /\ ControlledRoom(a, s, on, off, no) /\ no \in BOOLEAN
      BY <1>4, <1>6, <1>7
    <3> HIDE DEF off, no
    <3>2. AddsWhere(ControlledAddition(a, s, c0, on, off, no), a, s, c0, on, off, no)
      BY <3>1, ControlledAdditionAdds
    <3> QED BY <3>2 DEF off, no
  <2> QED BY <1>8, <2>1 DEF AddsWhere
<1>10. \A T : Holds(T, on, <<>>) <=> b[i] \in T
  BY <1>5 DEF Holds
<1>11. E \cup AsSet(on) \cup AsSet(<<>>) \subseteq D
  BY <1>2, <1>3, <1>5 DEF AdderQubits, MultiplyQubits
<1>12. c \in Seq(GatesOn(D, D))
  <2> HIDE DEF D, E
  <2> QED BY <1>9, <1>11, WiderGates
<1> QED BY <1>4, <1>9, <1>10, <1>12 DEF TimesWorks, c, s

LEMMA MultiplicationParts ==
  ASSUME NEW a, NEW b, NEW r, NEW c0, MultiplyLayout(a, b, r, c0)
  PROVE  LET D == MultiplyQubits(a, b, r, c0)
             ss == [i \in 1 .. Len(b) |-> DigitTimes(a, b, r, c0, i)]
         IN  /\ Multiplication(a, b, r, c0) = FlattenSeq(ss)
             /\ ss \in [1 .. Len(b) -> Seq(GatesOn(D, D))]
<1> DEFINE m == Len(b)
           D == MultiplyQubits(a, b, r, c0)
           op(i) == ControlledAddition(a, SubSeq(r, i, i + Len(a)), c0, <<b[i]>>, <<>>, FALSE)
           ss == [i \in 1 .. m |-> DigitTimes(a, b, r, c0, i)]
<1>1. m \in Nat
  BY MultiplyRegisters
<1>2. Multiplication(a, b, r, c0) = FlattenSeq([i \in 1 .. m - 1 + 1 |-> op(1 + i - 1)])
  BY DEF Multiplication, Each
<1>3. m - 1 + 1 = m /\ \A i \in 1 .. m : 1 + i - 1 = i
  BY <1>1
<1>4. \A i \in 1 .. m : op(1 + i - 1) = DigitTimes(a, b, r, c0, i)
  BY <1>3 DEF DigitTimes
<1> HIDE DEF op
<1>5. [i \in 1 .. m |-> op(1 + i - 1)] = ss
  BY <1>4
<1>6. \A i \in 1 .. m : DigitTimes(a, b, r, c0, i) \in Seq(GatesOn(D, D))
  BY DigitTimesWorks DEF TimesWorks
<1>7. ss \in [1 .. m -> Seq(GatesOn(D, D))]
  BY <1>6
<1> HIDE DEF ss
<1>8. Multiplication(a, b, r, c0) = FlattenSeq(ss)
  BY <1>2, <1>3, <1>5
<1> QED BY <1>7, <1>8 DEF ss

LEMMA Products ==
  ASSUME NEW v \in Nat, NEW x \in Nat, NEW y \in Nat
  PROVE  /\ v * x \in Nat
         /\ x = 2 * y => v * x = 2 * (v * y)
         /\ x = 2 * y + 1 => v * x = 2 * (v * y) + v
<1>1. v * x \in Nat
  OBVIOUS
<1>2. v * (2 * y) = 2 * (v * y)
  OBVIOUS
<1>3. v * (2 * y + 1) = 2 * (v * y) + v
  OBVIOUS
<1> QED BY <1>1, <1>2, <1>3

(* One step of the multiplication, by the digit b[i].                        *)
LEMMA TimesStep ==
  ASSUME NEW a, NEW b, NEW r, NEW c0, MultiplyLayout(a, b, r, c0), NEW i \in 1 .. Len(b),
         NEW S \in SUBSET Qubits, c0 \notin S, NEW T \in SUBSET Qubits, AlikeOff(r, T, S),
         NEW N \in Int, NEW h, IsHalved(h, N, Len(r)), NEW fb, IsTail(fb, b, S),
         NEW f, Multiplied(i - 1, T, f, r, Len(a), h, Number(a, S) * fb[i - 1])
  PROVE  LET Y == After(DigitTimes(a, b, r, c0, i), T)
         IN  /\ Y \in SUBSET Qubits /\ AlikeOff(r, Y, S)
             /\ \E g : Multiplied(i, Y, g, r, Len(a), h, Number(a, S) * fb[i])
<1> DEFINE n == Len(a)
           s == SubSeq(r, i, i + n)
           v == Number(a, S)
           c == DigitTimes(a, b, r, c0, i)
           Y == After(c, T)
           P == v * fb[i]
<1>1. /\ a \in Seq(Qubits) /\ r \in Seq(Qubits) /\ c0 \in Qubits
      /\ Unrepeated(a) /\ Unrepeated(r) /\ Disjoint(a, b) /\ Disjoint(a, r) /\ Disjoint(b, r)
      /\ c0 \notin AsSet(a) \cup AsSet(b) \cup AsSet(r)
  BY DEF MultiplyLayout
<1>2. n \in Nat /\ n >= 1 /\ i \in 1 .. Len(r) /\ i + n <= Len(r) /\ b[i] \in Qubits /\ b[i] \in AsSet(b) /\ Len(b) \in Nat
  BY MultiplyRegisters
<1>3. s \in Seq(Qubits) /\ Len(s) = n + 1 /\ AsSet(s) \subseteq AsSet(r) /\ \A j \in 1 .. n + 1 : s[j] = r[i - 1 + j]
  <2> HIDE DEF n
  <2>1. r \in Seq(Qubits) /\ Unrepeated(r) /\ i \in 1 .. Len(r) /\ n \in Nat /\ i + n <= Len(r)
    BY <1>1, <1>2
  <2>2. s \in Seq(Qubits) /\ Len(s) = n + 1
    BY ONLY <2>1, PartOf
  <2>3. AsSet(s) \subseteq AsSet(r)
    BY ONLY <2>1, PartOf
  <2>4. \A j \in 1 .. n + 1 : s[j] = r[i - 1 + j]
    BY ONLY <2>1, PartOf
  <2> QED BY <2>2, <2>3, <2>4
<1>4. TimesWorks(a, b, r, c0, i)
  BY DigitTimesWorks
<1>5. /\ AdderLayout(a, s, c0)
      /\ Y = IF b[i] \in T THEN Added(a, s, c0, FALSE, T) ELSE T
  BY <1>4 DEF TimesWorks
<1>6. (b[i] \in T <=> b[i] \in S) /\ c0 \notin T
  <2>1. b[i] \notin AsSet(r)
    BY <1>1, <1>2 DEF Disjoint
  <2> QED BY <1>1, <1>2, <2>1 DEF AlikeOff
<1>7. Number(a, T) = v /\ v \in Nat
  <2>1. AlikeOn(a, T, S)
    <3>1. \A j \in 1 .. Len(a) : a[j] \in Qubits /\ a[j] \notin AsSet(r)
      BY <1>1, RegisterType DEF Disjoint
    <3> QED BY <3>1 DEF AlikeOn, AlikeOff
  <2>2. Number(a, T) = v
    BY <1>1, <2>1, SameNumber
  <2>3. PICK fa : IsTail(fa, a, S) /\ Number(a, S) = fa[0]
    BY <1>2, NumberTail
  <2>4. 0 \in 0 .. n
    BY <1>2
  <2>5. fa[0] \in Nat
    BY <2>3, <2>4 DEF IsTail
  <2> QED BY <2>2, <2>3, <2>5
<1>8. fb[i] \in Nat /\ fb[i - 1] \in Nat /\ fb[i - 1] = 2 * fb[i] + Bit(b[i], S)
  <2>1. i \in 0 .. Len(b) /\ i - 1 \in 0 .. Len(b)
    BY <1>2
  <2> QED BY <2>1 DEF IsTail
<1>9. P \in Nat
  BY <1>7, <1>8, Products
<1>m. Multiplied(i - 1, T, f, r, n, h, v * fb[i - 1])
  OBVIOUS
<1> HIDE DEF n, s, v, c, Y, P
<1>10. CASE b[i] \notin T
  <2>1. Y = T
    BY <1>5, <1>10
  <2>2. v * fb[i - 1] = 2 * P
    <3>1. fb[i - 1] = 2 * fb[i]
      BY <1>6, <1>8, <1>10 DEF Bit
    <3> QED BY <1>7, <1>8, <3>1, Products DEF P
  <2>3. Multiplied(i - 1, T, f, r, n, h, 2 * P)
    BY <1>m, <2>2
  <2>4. P \in Int
    BY <1>9
  <2>5. Multiplied(i, T, f, r, n, h, P)
    BY <1>1, <1>2, <2>3, <2>4, DigitSkipped
  <2>6. Multiplied(i, Y, f, r, Len(a), h, Number(a, S) * fb[i])
    BY <2>1, <2>5 DEF n, P, v
  <2> QED BY <2>1, <2>6 DEF Y, c
<1>11. CASE b[i] \in T
  <2>1. Y = Added(a, s, c0, FALSE, T)
    BY <1>5, <1>11
  <2>2. v * fb[i - 1] = 2 * P + v
    <3>1. fb[i - 1] = 2 * fb[i] + 1
      BY <1>6, <1>8, <1>11 DEF Bit
    <3> QED BY <1>7, <1>8, <3>1, Products DEF P
  <2>3. Multiplied(i - 1, T, f, r, n, h, 2 * P + v)
    BY <1>m, <2>2
  <2>4. P \in Int /\ v \in Int
    BY <1>7, <1>9
  <2>5. s[Len(s)] \notin T
    <3>1. IsTail(f, r, T) /\ f[(i - 1) + n] = 0
      BY <1>m DEF Multiplied
    <3>2. i + n \in 1 .. Len(r) /\ (i + n) - 1 = (i - 1) + n /\ i + n \in 0 .. Len(r) /\ n + 1 \in 1 .. n + 1 /\ i - 1 + (n + 1) = i + n
      BY <1>1, <1>2, LenProperties
    <3>3. f[(i + n) - 1] = 2 * f[i + n] + Bit(r[i + n], T) /\ f[i + n] \in Nat
      BY <3>1, <3>2 DEF IsTail
    <3>6. f[(i + n) - 1] = 0
      BY ONLY <3>1, <3>2
    <3>7. Bit(r[i + n], T) \in {0, 1}
      BY DEF Bit
    <3>8. Bit(r[i + n], T) = 0
      BY ONLY <3>3, <3>6, <3>7
    <3>4. r[i + n] \notin T
      BY ONLY <3>8 DEF Bit
    <3>5. s[n + 1] = r[i - 1 + (n + 1)]
      BY <1>3, <3>2
    <3> QED BY <1>3, <3>2, <3>4, <3>5
  <2>6. /\ Y \in SUBSET Qubits /\ AlikeOff(s, Y, T)
        /\ Number(s, Y) = Number(a, T) + Number(s, T) + Bit(c0, T)
    <3>1. Len(s) = Len(a) + 1
      BY <1>3 DEF n
    <3>2. IsTheSum(Added(a, s, c0, FALSE, T), a, s, c0, T)
      BY <1>5, <2>5, <3>1, SumFits
    <3> QED BY <2>1, <3>2 DEF IsTheSum
  <2>7. Number(s, Y) = v + Number(s, T)
    <3>1. Len(s) \in Nat
      BY <1>3, LenProperties
    <3>2. PICK fs : IsTail(fs, s, T) /\ Number(s, T) = fs[0]
      BY <3>1, NumberTail
    <3>3. fs[0] \in Nat
      BY <3>1, <3>2 DEF IsTail
    <3>4. Bit(c0, T) = 0
      BY <1>6 DEF Bit
    <3> QED BY <1>7, <2>6, <3>2, <3>3, <3>4
  <2>8. \E g : Multiplied(i, Y, g, r, n, h, P)
    <3>1. AlikeOff(SubSeq(r, i, i + n), Y, T) /\ Number(SubSeq(r, i, i + n), Y) = v + Number(SubSeq(r, i, i + n), T)
      BY <2>6, <2>7 DEF s
    <3> QED BY <1>1, <1>2, <2>3, <2>4, <3>1, DigitAdded
  <2>9. \E g : Multiplied(i, Y, g, r, Len(a), h, Number(a, S) * fb[i])
    BY <2>8 DEF n, P, v
  <2>10. AlikeOff(r, Y, S)
    BY <1>3, <2>6 DEF AlikeOff
  <2> QED BY <2>6, <2>9, <2>10 DEF Y, c
<1> QED BY <1>10, <1>11

LEMMA MultiplicationMultiplies ==
  ASSUME NEW a, NEW b, NEW r, NEW c0, MultiplyLayout(a, b, r, c0)
  PROVE  LET c == Multiplication(a, b, r, c0)
             D == MultiplyQubits(a, b, r, c0)
         IN  /\ D \in SUBSET Qubits /\ c \in Seq(GatesOn(D, D))
             /\ \A S \in SUBSET Qubits :
                  c0 \notin S /\ S \cap AsSet(r) = {} => After(c, S) = WithNumber(S, r, Number(a, S) * Number(b, S))
<1> DEFINE c == Multiplication(a, b, r, c0)
           D == MultiplyQubits(a, b, r, c0)
           m == Len(b)
           n == Len(a)
           ss == [i \in 1 .. m |-> DigitTimes(a, b, r, c0, i)]
<1>1. a \in Seq(Qubits) /\ b \in Seq(Qubits) /\ r \in Seq(Qubits)
  BY DEF MultiplyLayout
<1>2. n \in Nat /\ m \in Nat /\ Len(r) \in Nat /\ n + m <= Len(r) /\ D \in SUBSET Qubits
  BY MultiplyRegisters
<1>3. c = FlattenSeq(ss) /\ ss \in [1 .. m -> Seq(GatesOn(D, D))]
  BY MultiplicationParts
<1>s. \A i \in 1 .. m : ss[i] = DigitTimes(a, b, r, c0, i)
  OBVIOUS
<1> HIDE DEF c, D, n, ss, m
<1>4. ss \in Seq(Seq(GatesOn(Qubits, Qubits))) /\ Len(ss) = m /\ c \in Seq(GatesOn(D, D))
  BY <1>2, <1>3, BlocksInRow
<1>5. ASSUME NEW S \in SUBSET Qubits, c0 \notin S, S \cap AsSet(r) = {}
      PROVE  After(c, S) = WithNumber(S, r, Number(a, S) * Number(b, S))
  <2>1. PICK t \in [0 .. m -> SUBSET Qubits] :
             /\ t[0] = S
             /\ \A i \in 1 .. m : t[i] = After(ss[i], t[i - 1])
             /\ After(FlattenSeq(ss), S) = t[m]
    BY <1>4, AfterEach
  <2>2. PICK fa : IsTail(fa, a, S) /\ Number(a, S) = fa[0]
    BY <1>1, <1>2, NumberTail DEF n
  <2>3. PICK fb : IsTail(fb, b, S) /\ Number(b, S) = fb[0]
    BY <1>1, <1>2, NumberTail DEF m
  <2>4. fa[0] \in Nat /\ fb[0] \in Nat /\ fb[m] = 0
    <3>1. 0 \in 0 .. n /\ 0 \in 0 .. m
      BY <1>2
    <3>2. fa[0] \in Nat
      BY <2>2, <3>1 DEF IsTail, n
    <3> QED BY <2>3, <3>1, <3>2 DEF IsTail, m
  <2> DEFINE v == Number(a, S)
             N == v * Number(b, S)
             h == Halves(N, Len(r))
  <2>5. v \in Nat /\ N \in Nat /\ N = v * fb[0] /\ v * fb[m] = 0
    BY <2>2, <2>3, <2>4, Products
  <2>6. IsHalved(h, N, Len(r))
    <3> HIDE DEF N
    <3> QED BY <1>2, <2>5, HalvesAreHalved
  <2> HIDE DEF h, N, v
  <2> DEFINE I == {i \in Nat : i <= m => /\ AlikeOff(r, t[i], S)
                                          /\ \E f : Multiplied(i, t[i], f, r, n, h, v * fb[i])}
  <2>7. 0 \in I
    <3>1. PICK f : IsTail(f, r, S) /\ Number(r, S) = f[0]
      BY <1>2, NumberTail
    <3> DEFINE g == [j \in 0 .. Len(r) |-> 0]
    <3>2. IsTail(g, r, S)
      <4>1. \A j \in 1 .. Len(r) : Bit(r[j], S) = 0
        <5>1. \A j \in 1 .. Len(r) : r[j] \in AsSet(r)
          BY <1>1, RegisterType
        <5> QED BY <2>5, <1>5, <5>1 DEF Bit
      <4>2. g \in [0 .. Len(r) -> Nat] /\ g[Len(r)] = 0
        BY <1>2
      <4>3. ASSUME NEW j \in 1 .. Len(r) PROVE g[j - 1] = 2 * g[j] + Bit(r[j], S)
        <5>1. j - 1 \in 0 .. Len(r) /\ j \in 0 .. Len(r)
          BY <1>2
        <5>2. g[j - 1] = 0 /\ g[j] = 0
          BY <5>1
        <5> QED BY <4>1, <5>2
      <4> QED BY <4>2, <4>3 DEF IsTail
    <3>3. g[0 + n] = 0 /\ g[0] + v * fb[0] = h[0]
      <4>1. 0 + n \in 0 .. Len(r) /\ 0 \in 0 .. Len(r)
        BY <1>2
      <4>2. g[0 + n] = 0 /\ g[0] = 0
        BY <4>1
      <4>3. h[0] = N
        BY <2>6 DEF IsHalved
      <4> QED BY <2>5, <4>2, <4>3
    <3> HIDE DEF g
    <3>4. Multiplied(0, S, g, r, n, h, v * fb[0])
      BY <3>2, <3>3 DEF Multiplied
    <3>5. AlikeOff(r, S, S)
      BY DEF AlikeOff
    <3> QED BY <2>1, <3>4, <3>5
  <2>8. ASSUME NEW j \in I, j < m PROVE j + 1 \in I
    <3> DEFINE i == j + 1
    <3>1. j \in Nat /\ j <= m /\ i \in 1 .. m /\ i - 1 = j /\ j \in 0 .. m /\ i \in Nat
      BY <1>2, <2>8
    <3>2. AlikeOff(r, t[j], S) /\ t[j] \in SUBSET Qubits
      BY <2>1, <3>1
    <3>3. PICK f : Multiplied(j, t[j], f, r, n, h, v * fb[j])
      BY <3>1
    <3> HIDE DEF I, i
    <3>4. Multiplied(i - 1, t[j], f, r, Len(a), h, Number(a, S) * fb[i - 1])
      BY <3>1, <3>3 DEF n, v
    <3>5. t[i] = After(DigitTimes(a, b, r, c0, i), t[j])
      BY <1>s, <2>1, <3>1
    <3>6. N \in Int /\ i \in 1 .. Len(b)
      BY <2>5, <3>1 DEF m
    <3>7. AlikeOff(r, After(DigitTimes(a, b, r, c0, i), t[j]), S)
          /\ \E g : Multiplied(i, After(DigitTimes(a, b, r, c0, i), t[j]), g, r, Len(a), h, Number(a, S) * fb[i])
      BY <1>5, <2>3, <2>6, <3>2, <3>4, <3>6, TimesStep
    <3>8. AlikeOff(r, t[i], S) /\ \E g : Multiplied(i, t[i], g, r, n, h, v * fb[i])
      BY <3>5, <3>7 DEF n, v
    <3> QED BY <3>1, <3>8 DEF I, i
  <2>9. m \in I
    <3>1. I \in SUBSET Nat
      OBVIOUS
    <3> HIDE DEF I
    <3>2. 0 .. m \subseteq I
      BY <1>2, <2>7, <2>8, <3>1, Induction
    <3> QED BY <1>2, <3>2
  <2>10. AlikeOff(r, t[m], S) /\ \E f : Multiplied(m, t[m], f, r, n, h, 0)
    BY <2>5, <2>9
  <2>11. PICK f : Multiplied(m, t[m], f, r, n, h, 0)
    BY <2>10
  <2>12. N \in Int /\ m + n <= Len(r) /\ t[m] \in SUBSET Qubits
    BY <1>2, <2>1, <2>5
  <2>13. HoldsDigits(r, t[m], h)
    BY <1>1, <1>2, <2>6, <2>11, <2>12, AllAdded
  <2>14. t[m] = WithNumber(S, r, N)
    BY <1>1, <2>6, <2>10, <2>12, <2>13, NumberWritten
  <2> QED BY <1>3, <2>1, <2>14 DEF N, v
<1> QED BY <1>2, <1>4, <1>5 DEF c, D

-----------------------------------------------------------------------------
(* One more and one less, in a register. *)

Ones(r, j, S) == \A i \in 1 .. j : r[i] \in S
NoOnes(r, j, S) == \A i \in 1 .. j : r[i] \notin S

(* T holds in the first j qubits of r what S and one more would.             *)
OneMore(r, S, T, j) ==
  /\ AlikeOff(r, T, S)
  /\ \A i \in 1 .. j : r[i] \in T <=> (r[i] \in S <=> ~ Ones(r, i - 1, S))
  /\ \A i \in j + 1 .. Len(r) : r[i] \in T <=> r[i] \in S
(* T holds in the first j qubits of r what V does, in the rest what U does.  *)
OneLess(r, V, U, T, j) ==
  /\ AlikeOff(r, T, V)
  /\ \A i \in 1 .. j : r[i] \in T <=> r[i] \in V
  /\ \A i \in j + 1 .. Len(r) : r[i] \in T <=> r[i] \in U

LEMMA ToggledDigit ==
  ASSUME NEW r \in Seq(Qubits), Unrepeated(r), NEW j \in 1 .. Len(r), NEW T, NEW S, AlikeOff(r, T, S)
  PROVE  /\ AlikeOff(r, Toggle(T, r[j]), S)
         /\ r[j] \in Toggle(T, r[j]) <=> r[j] \notin T
         /\ \A i \in 1 .. Len(r) : i # j => (r[i] \in Toggle(T, r[j]) <=> r[i] \in T)
<1>1. \A i \in 1 .. Len(r) : r[i] \in AsSet(r) /\ (r[i] = r[j] => i = j)
  BY RegisterType DEF Unrepeated
<1> QED BY <1>1 DEF Toggle, AlikeOff

LEMMA DigitMore ==
  ASSUME NEW r \in Seq(Qubits), Unrepeated(r), NEW j \in 1 .. Len(r), NEW S, NEW T,
         OneMore(r, S, T, j - 1), NoOnes(r, j - 1, T) <=> Ones(r, j - 1, S),
         NEW R, R = IF NoOnes(r, j - 1, T) THEN Toggle(T, r[j]) ELSE T
  PROVE  OneMore(r, S, R, j) /\ (NoOnes(r, j, R) <=> Ones(r, j, S))
<1>1. Len(r) \in Nat /\ j - 1 + 1 = j /\ j \in j .. Len(r)
  BY LenProperties
<1>2. /\ AlikeOff(r, T, S)
      /\ \A i \in 1 .. j - 1 : r[i] \in T <=> (r[i] \in S <=> ~ Ones(r, i - 1, S))
      /\ \A i \in j .. Len(r) : r[i] \in T <=> r[i] \in S
  BY <1>1 DEF OneMore
<1>3. /\ AlikeOff(r, R, S)
      /\ r[j] \in R <=> (r[j] \in S <=> ~ Ones(r, j - 1, S))
      /\ \A i \in 1 .. Len(r) : i # j => (r[i] \in R <=> r[i] \in T)
  <2>1. CASE NoOnes(r, j - 1, T)
    <3>1. R = Toggle(T, r[j])
      BY <2>1
    <3> QED BY <1>1, <1>2, <2>1, <3>1, ToggledDigit
  <2>2. CASE ~ NoOnes(r, j - 1, T)
    BY <1>1, <1>2, <2>2
  <2> QED BY <2>1, <2>2
<1>4. \A i \in 1 .. j - 1 : i \in 1 .. Len(r) /\ i # j
  BY <1>1
<1>5. \A i \in j + 1 .. Len(r) : i \in 1 .. Len(r) /\ i # j /\ i \in j .. Len(r)
  BY <1>1
<1>6. \A i \in 1 .. j : i \in 1 .. j - 1 \/ i = j
  BY <1>1
<1>7. OneMore(r, S, R, j)
  BY <1>2, <1>3, <1>4, <1>5, <1>6 DEF OneMore
<1>8. NoOnes(r, j, R) <=> NoOnes(r, j - 1, T) /\ r[j] \notin R
  <2>1. j \in 1 .. j /\ \A i \in 1 .. j - 1 : i \in 1 .. j
    BY <1>1
  <2> QED BY <1>3, <1>4, <1>6, <2>1 DEF NoOnes
<1>9. Ones(r, j, S) <=> Ones(r, j - 1, S) /\ r[j] \in S
  <2>1. j \in 1 .. j /\ \A i \in 1 .. j - 1 : i \in 1 .. j
    BY <1>1
  <2> QED BY <1>6, <2>1 DEF Ones
<1> QED BY <1>3, <1>7, <1>8, <1>9

LEMMA DigitLess ==
  ASSUME NEW r \in Seq(Qubits), Unrepeated(r), NEW j \in 1 .. Len(r), NEW V, NEW U, OneMore(r, V, U, Len(r)),
         NEW T, OneLess(r, V, U, T, j - 1),
         NEW R, R = IF Ones(r, j - 1, T) THEN Toggle(T, r[j]) ELSE T
  PROVE  OneLess(r, V, U, R, j)
<1>1. Len(r) \in Nat /\ j - 1 + 1 = j /\ j \in j .. Len(r)
  BY LenProperties
<1>2. /\ AlikeOff(r, T, V)
      /\ \A i \in 1 .. j - 1 : r[i] \in T <=> r[i] \in V
      /\ \A i \in j .. Len(r) : r[i] \in T <=> r[i] \in U
  BY <1>1 DEF OneLess
<1>3. Ones(r, j - 1, T) <=> Ones(r, j - 1, V)
  BY <1>2 DEF Ones
<1>4. r[j] \in U <=> (r[j] \in V <=> ~ Ones(r, j - 1, V))
  BY DEF OneMore
<1>5. /\ AlikeOff(r, R, V)
      /\ r[j] \in R <=> r[j] \in V
      /\ \A i \in 1 .. Len(r) : i # j => (r[i] \in R <=> r[i] \in T)
  <2>1. CASE Ones(r, j - 1, T)
    <3>1. R = Toggle(T, r[j])
      BY <2>1
    <3> QED BY <1>1, <1>2, <1>3, <1>4, <2>1, <3>1, ToggledDigit
  <2>2. CASE ~ Ones(r, j - 1, T)
    BY <1>1, <1>2, <1>3, <1>4, <2>2
  <2> QED BY <2>1, <2>2
<1>6. \A i \in 1 .. j - 1 : i \in 1 .. Len(r) /\ i # j
  BY <1>1
<1>7. \A i \in j + 1 .. Len(r) : i \in 1 .. Len(r) /\ i # j /\ i \in j .. Len(r)
  BY <1>1
<1>8. \A i \in 1 .. j : i \in 1 .. j - 1 \/ i = j
  BY <1>1
<1> QED BY <1>2, <1>5, <1>6, <1>7, <1>8 DEF OneLess

(* The qubits below the j-th.                                                *)
Lower(r, j) == SubSeq(r, 1, j - 1)

LEMMA LowerQubits ==
  ASSUME NEW r \in Seq(Qubits), Unrepeated(r), NEW j \in 2 .. Len(r)
  PROVE  /\ Lower(r, j) \in Seq(Qubits) /\ Unrepeated(Lower(r, j))
         /\ AsSet(Lower(r, j)) = {r[i] : i \in 1 .. j - 1}
         /\ AsSet(Lower(r, j)) \in SUBSET AsSet(r) /\ r[j] \notin AsSet(Lower(r, j))
         /\ r[j] \in Qubits /\ r[j] \in AsSet(r) /\ AsSet(r) \in SUBSET Qubits
<1>1. Len(r) \in Nat /\ j \in 1 .. Len(r) /\ 1 \in 1 .. Len(r) /\ j - 2 \in Nat /\ 1 + (j - 2) <= Len(r)
      /\ 1 + (j - 2) = j - 1 /\ j - 2 + 1 = j - 1 /\ 1 - 1 = 0
  BY LenProperties
<1>2. SubSeq(r, 1, 1 + (j - 2)) \in Seq(Qubits) /\ Unrepeated(SubSeq(r, 1, 1 + (j - 2)))
  BY ONLY <1>1, PartOf, r \in Seq(Qubits), Unrepeated(r)
<1>3. AsSet(SubSeq(r, 1, 1 + (j - 2))) \subseteq AsSet(r)
  BY ONLY <1>1, PartOf, r \in Seq(Qubits), Unrepeated(r)
<1>a. AsSet(SubSeq(r, 1, 1 + (j - 2))) = {r[1 - 1 + i] : i \in 1 .. j - 2 + 1}
  <2> DEFINE n == j - 2
  <2>1. n \in Nat /\ 1 + n <= Len(r) /\ 1 \in 1 .. Len(r)
    BY <1>1
  <2> HIDE DEF n
  <2>2. AsSet(SubSeq(r, 1, 1 + n)) = {r[1 - 1 + i] : i \in 1 .. n + 1}
    BY ONLY <2>1, PartOf, r \in Seq(Qubits), Unrepeated(r)
  <2> QED BY <2>2 DEF n
<1>4. {r[1 - 1 + i] : i \in 1 .. j - 2 + 1} = {r[i] : i \in 1 .. j - 1}
  <2>1. \A i \in 1 .. j - 1 : 1 - 1 + i = i
    OBVIOUS
  <2> QED BY <1>1, <2>1
<1>5. r[j] \in Qubits /\ r[j] \in AsSet(r) /\ AsSet(r) \in SUBSET Qubits
  BY <1>1, RegisterType
<1>6. r[j] \notin {r[i] : i \in 1 .. j - 1}
  <2>1. \A i \in 1 .. j - 1 : i \in DOMAIN r /\ i # j /\ j \in DOMAIN r
    BY <1>1, RegisterType
  <2> QED BY <2>1 DEF Unrepeated
<1> QED BY <1>1, <1>2, <1>3, <1>a, <1>4, <1>5, <1>6 DEF Lower

(* One gate, wherever its controls are 1.                                    *)
Flips(g, q, L) ==
  /\ g \in Seq(GatesOn({q}, L)) /\ g \in Seq(GatesOn(Qubits, Qubits))
  /\ \A T \in SUBSET Qubits : After(g, T) = IF L \subseteq T THEN Toggle(T, q) ELSE T

LEMMA NotGateFlips ==
  ASSUME NEW q \in Qubits, NEW L \in SUBSET Qubits, q \notin L
  PROVE  Flips(<<NotGate(q, L)>>, q, L)
<1>1. \A T \in SUBSET Qubits : After(<<NotGate(q, L)>>, T) = IF L \subseteq T THEN Toggle(T, q) ELSE T
  <2> TAKE T \in SUBSET Qubits
  <2> QED BY AfterNot
<1>2. {} \in SUBSET Qubits
  OBVIOUS
<1>3. <<NotGate(q, L)>> \in Seq(GatesOn({q}, L)) /\ <<NotGate(q, L)>> \in Seq(GatesOn(Qubits, Qubits))
  BY ONLY <1>2, AfterNot, q \in Qubits, L \in SUBSET Qubits, q \notin L
<1> QED BY <1>1, <1>3 DEF Flips

UpPart(r, j) == Between(Lower(r, j), CU(X(r[j]), AsSet(Lower(r, j))))
DownPart(r, j) == CU(X(r[j]), AsSet(Lower(r, j)))

LEMMA FlipsWhereNone ==
  ASSUME NEW r \in Seq(Qubits), Unrepeated(r), NEW j \in 2 .. Len(r)
  PROVE  /\ UpPart(r, j) \in Seq(GatesOn(AsSet(r), AsSet(r)))
         /\ \A T \in SUBSET Qubits : After(UpPart(r, j), T) = IF NoOnes(r, j - 1, T) THEN Toggle(T, r[j]) ELSE T
<1> DEFINE L == AsSet(Lower(r, j))
           q == r[j]
           g == <<NotGate(q, L)>>
           D == AsSet(r)
<1>1. /\ Lower(r, j) \in Seq(Qubits) /\ Unrepeated(Lower(r, j))
      /\ L = {r[i] : i \in 1 .. j - 1} /\ L \in SUBSET D /\ q \notin L
      /\ q \in Qubits /\ q \in D /\ D \in SUBSET Qubits
  BY LowerQubits
<1>2. UpPart(r, j) = Between(Lower(r, j), g)
  BY OneControlled DEF UpPart
<1> HIDE DEF q, D, g, L
<1>3. L \in SUBSET Qubits
  BY <1>1
<1>f. Flips(g, q, L)
  BY <1>1, <1>3, NotGateFlips DEF g
<1>4. /\ g \in Seq(GatesOn({q}, L)) /\ g \in Seq(GatesOn(Qubits, Qubits))
      /\ \A T \in SUBSET Qubits : After(g, T) = IF L \subseteq T THEN Toggle(T, q) ELSE T
  BY <1>f DEF Flips
<1>5. UpPart(r, j) \in Seq(GatesOn(D, D))
  <2>1. Between(Lower(r, j), g) \in Seq(GatesOn({q} \cup L, L))
    BY <1>1, <1>3, <1>4, BetweenType DEF L
  <2>2. {q} \cup L \subseteq D /\ L \subseteq D
    BY <1>1
  <2> QED BY <1>2, <2>1, <2>2, WiderGates
<1>6. ASSUME NEW T \in SUBSET Qubits
      PROVE  After(UpPart(r, j), T) = IF NoOnes(r, j - 1, T) THEN Toggle(T, q) ELSE T
  <2> DEFINE Z == Complemented(T, L)
  <2>1. Z \in SUBSET Qubits /\ After(Between(Lower(r, j), g), T) = Complemented(After(g, Z), L)
    BY <1>1, <1>4, AfterBetween DEF L
  <2>2. L \subseteq Z <=> NoOnes(r, j - 1, T)
    BY <1>1 DEF Complemented, NoOnes
  <2>3. Complemented(Z, L) = T /\ Complemented(Toggle(Z, q), L) = Toggle(T, q)
    BY <1>1 DEF Complemented, Toggle
  <2> HIDE DEF Z
  <2>4. After(g, Z) = IF NoOnes(r, j - 1, T) THEN Toggle(Z, q) ELSE Z
    BY <1>4, <2>1, <2>2
  <2> QED BY <1>2, <2>1, <2>3, <2>4
<1> QED BY <1>5, <1>6 DEF D, q

LEMMA FlipsWhereAll ==
  ASSUME NEW r \in Seq(Qubits), Unrepeated(r), NEW j \in 2 .. Len(r)
  PROVE  /\ DownPart(r, j) \in Seq(GatesOn(AsSet(r), AsSet(r)))
         /\ \A T \in SUBSET Qubits : After(DownPart(r, j), T) = IF Ones(r, j - 1, T) THEN Toggle(T, r[j]) ELSE T
<1> DEFINE L == AsSet(Lower(r, j))
           q == r[j]
           g == <<NotGate(q, L)>>
           D == AsSet(r)
<1>1. /\ L = {r[i] : i \in 1 .. j - 1} /\ L \in SUBSET D /\ q \notin L
      /\ q \in Qubits /\ q \in D /\ D \in SUBSET Qubits
  BY LowerQubits
<1>2. DownPart(r, j) = g
  BY OneControlled DEF DownPart
<1> HIDE DEF q, D, g, L
<1>3. L \in SUBSET Qubits
  BY <1>1
<1>f. Flips(g, q, L)
  BY <1>1, <1>3, NotGateFlips DEF g
<1>4. /\ g \in Seq(GatesOn({q}, L))
      /\ \A T \in SUBSET Qubits : After(g, T) = IF L \subseteq T THEN Toggle(T, q) ELSE T
  BY <1>f DEF Flips
<1>5. g \in Seq(GatesOn(D, D))
  <2>1. {q} \subseteq D /\ L \subseteq D
    BY <1>1
  <2> QED BY <1>4, <2>1, WiderGates
<1>6. \A T : L \subseteq T <=> Ones(r, j - 1, T)
  BY <1>1 DEF Ones
<1> QED BY <1>2, <1>4, <1>5, <1>6 DEF D, q

(* Digit after digit, from the first: u holds the states in between.         *)
UpSteps(u, r, S) ==
  /\ u \in [0 .. Len(r) -> SUBSET Qubits] /\ u[0] = S
  /\ \A j \in 1 .. Len(r) : u[j] = IF NoOnes(r, j - 1, u[j - 1]) THEN Toggle(u[j - 1], r[j]) ELSE u[j - 1]
DownSteps(u, r, S) ==
  /\ u \in [0 .. Len(r) -> SUBSET Qubits] /\ u[0] = S
  /\ \A j \in 1 .. Len(r) : u[j] = IF Ones(r, j - 1, u[j - 1]) THEN Toggle(u[j - 1], r[j]) ELSE u[j - 1]

(* An X on the first qubit, then a part for each of the others.              *)
LEMMA InRow ==
  ASSUME NEW r \in Seq(Qubits), Unrepeated(r), r # <<>>,
         NEW ss \in [1 .. Len(r) - 1 -> Seq(GatesOn(AsSet(r), AsSet(r)))], NEW S \in SUBSET Qubits
  PROVE  /\ X(r[1]) \o FlattenSeq(ss) \in Seq(GatesOn(AsSet(r), AsSet(r)))
         /\ \E u \in [0 .. Len(r) -> SUBSET Qubits] :
              /\ u[0] = S /\ u[1] = Toggle(S, r[1])
              /\ \A j \in 2 .. Len(r) : u[j] = After(ss[j - 1], u[j - 1])
              /\ After(X(r[1]) \o FlattenSeq(ss), S) = u[Len(r)]
<1> DEFINE n == Len(r)
           D == AsSet(r)
           m == n - 1
           g == <<NotGate(r[1], {})>>
<1>1. n \in Nat /\ n >= 1 /\ m \in Nat /\ D \in SUBSET Qubits /\ r[1] \in Qubits /\ r[1] \in D
  <2>1. n \in Nat /\ n # 0
    BY EmptySeq, LenProperties
  <2>2. 1 \in 1 .. n
    BY <2>1
  <2> QED BY <2>1, <2>2, RegisterType
<1>2. X(r[1]) = g
  BY OneX
<1>3. Flips(g, r[1], {})
  BY <1>1, NotGateFlips
<1> HIDE DEF g, D, n
<1>4. g \in Seq(GatesOn(D, D)) /\ g \in Seq(GatesOn(Qubits, Qubits))
  <2>1. g \in Seq(GatesOn({r[1]}, {})) /\ g \in Seq(GatesOn(Qubits, Qubits))
    BY <1>3 DEF Flips
  <2>2. {r[1]} \subseteq D /\ {} \subseteq D
    BY <1>1
  <2> QED BY <2>1, <2>2, WiderGates
<1>5. After(g, S) = Toggle(S, r[1])
  BY <1>3 DEF Flips
<1>6. ss \in [1 .. m -> Seq(GatesOn(D, D))]
  BY DEF n, D
<1> HIDE DEF m
<1>7. /\ ss \in Seq(Seq(GatesOn(Qubits, Qubits))) /\ Len(ss) = m
      /\ FlattenSeq(ss) \in Seq(GatesOn(D, D)) /\ FlattenSeq(ss) \in Seq(GatesOn(Qubits, Qubits))
  BY <1>1, <1>6, BlocksInRow
<1>8. g \o FlattenSeq(ss) \in Seq(GatesOn(D, D))
  BY <1>4, <1>7, ConcatProperties
<1>9. Toggle(S, r[1]) \in SUBSET Qubits
  BY <1>1 DEF Toggle
<1>10. PICK t \in [0 .. Len(ss) -> SUBSET Qubits] :
          /\ t[0] = Toggle(S, r[1])
          /\ \A i \in 1 .. Len(ss) : t[i] = After(ss[i], t[i - 1])
          /\ After(FlattenSeq(ss), Toggle(S, r[1])) = t[Len(ss)]
  BY <1>7, <1>9, AfterEach
<1> DEFINE u == [j \in 0 .. n |-> IF j = 0 THEN S ELSE t[j - 1]]
<1>11. \A j \in 1 .. n : j - 1 \in 0 .. m /\ j \in 0 .. n /\ j # 0 /\ u[j] = t[j - 1]
  BY <1>1 DEF m
<1>12. u \in [0 .. n -> SUBSET Qubits]
  <2>1. \A j \in 0 .. n : (IF j = 0 THEN S ELSE t[j - 1]) \in SUBSET Qubits
    <3> TAKE j \in 0 .. n
    <3>1. CASE j = 0
      BY <3>1
    <3>2. CASE j # 0
      <4>1. j \in 1 .. n
        BY <1>1, <3>2
      <4>2. t[j - 1] \in SUBSET Qubits
        BY <1>7, <1>10, <1>11, <4>1
      <4> QED BY <3>2, <4>2
    <3> QED BY <3>1, <3>2
  <2> QED BY <2>1
<1>13. u[0] = S /\ u[1] = Toggle(S, r[1])
  <2>1. 0 \in 0 .. n /\ 1 \in 1 .. n /\ 1 - 1 = 0
    BY <1>1
  <2>2. u[0] = S
    BY <2>1
  <2>3. u[1] = t[0]
    BY <1>11, <2>1
  <2> QED BY <1>10, <2>2, <2>3
<1> HIDE DEF u
<1>14. ASSUME NEW j \in 2 .. n PROVE u[j] = After(ss[j - 1], u[j - 1])
  <2>1. j \in 1 .. n /\ j - 1 \in 1 .. n /\ j - 1 \in 1 .. m
    BY <1>1 DEF m
  <2> QED BY <1>7, <1>10, <1>11, <2>1
<1>15. After(g \o FlattenSeq(ss), S) = u[n]
  <2>1. After(g \o FlattenSeq(ss), S) = After(FlattenSeq(ss), Toggle(S, r[1]))
    BY <1>4, <1>5, <1>7, AfterConcat
  <2>2. n \in 1 .. n
    BY <1>1
  <2> QED BY <1>7, <1>10, <1>11, <2>1, <2>2 DEF m
<1> QED BY <1>2, <1>8, <1>12, <1>13, <1>14, <1>15 DEF n, D

AddsOne(r) ==
  /\ AddOne(r) \in Seq(GatesOn(AsSet(r), AsSet(r)))
  /\ \A S \in SUBSET Qubits : \E u : UpSteps(u, r, S) /\ After(AddOne(r), S) = u[Len(r)]
TakesOne(r) ==
  /\ TakeOne(r) \in Seq(GatesOn(AsSet(r), AsSet(r)))
  /\ \A S \in SUBSET Qubits : \E u : DownSteps(u, r, S) /\ After(TakeOne(r), S) = u[Len(r)]

LEMMA AddOneSteps == ASSUME NEW r \in Seq(Qubits), Unrepeated(r), r # <<>> PROVE AddsOne(r)
<1> DEFINE n == Len(r)
           D == AsSet(r)
           op(j) == Between(SubSeq(r, 1, j - 1), CU(X(r[j]), AsSet(SubSeq(r, 1, j - 1))))
           ss == [i \in 1 .. n - 1 |-> UpPart(r, i + 1)]
<1>1. n \in Nat /\ n >= 1
  BY EmptySeq, LenProperties
<1>2. AddOne(r) = X(r[1]) \o FlattenSeq([i \in 1 .. n - 2 + 1 |-> op(2 + i - 1)])
  BY DEF AddOne, Each
<1>3. n - 2 + 1 = n - 1 /\ \A i \in 1 .. n - 1 : 2 + i - 1 = i + 1 /\ i + 1 \in 2 .. n
  BY <1>1
<1>4. \A j : op(j) = UpPart(r, j)
  BY DEF UpPart, Lower
<1> HIDE DEF op, n
<1>5. [i \in 1 .. n - 2 + 1 |-> op(2 + i - 1)] = ss
  BY <1>3, <1>4
<1>6. AddOne(r) = X(r[1]) \o FlattenSeq(ss)
  BY <1>2, <1>5
<1>7. \A j \in 2 .. n : UpPart(r, j) \in Seq(GatesOn(D, D))
  BY FlipsWhereNone DEF n
<1> HIDE DEF D
<1>8. ss \in [1 .. n - 1 -> Seq(GatesOn(D, D))]
  BY <1>3, <1>7
<1>9. \A j \in 2 .. n : ss[j - 1] = UpPart(r, j)
  <2>1. \A j \in 2 .. n : j - 1 \in 1 .. n - 1 /\ (j - 1) + 1 = j
    BY <1>1
  <2> QED BY <2>1
<1> HIDE DEF ss
<1>10. AddOne(r) \in Seq(GatesOn(D, D))
  <2>1. {} \in SUBSET Qubits
    OBVIOUS
  <2> QED BY <1>6, <1>8, <2>1, InRow DEF n, D
<1>11. ASSUME NEW S \in SUBSET Qubits PROVE \E u : UpSteps(u, r, S) /\ After(AddOne(r), S) = u[n]
  <2>1. PICK u \in [0 .. n -> SUBSET Qubits] :
              /\ u[0] = S /\ u[1] = Toggle(S, r[1])
              /\ \A j \in 2 .. n : u[j] = After(ss[j - 1], u[j - 1])
              /\ After(X(r[1]) \o FlattenSeq(ss), S) = u[n]
    BY <1>8, InRow DEF n, D
  <2>2. ASSUME NEW j \in 1 .. n
        PROVE  u[j] = IF NoOnes(r, j - 1, u[j - 1]) THEN Toggle(u[j - 1], r[j]) ELSE u[j - 1]
    <3>1. CASE j = 1
      <4>1. NoOnes(r, 0, S)
        BY DEF NoOnes
      <4> QED BY <2>1, <3>1, <4>1
    <3>2. CASE j # 1
      <4>1. j \in 2 .. n /\ j - 1 \in 0 .. n
        BY <1>1, <3>2
      <4>2. u[j - 1] \in SUBSET Qubits
        BY <4>1
      <4>3. u[j] = After(UpPart(r, j), u[j - 1])
        BY <1>9, <2>1, <4>1
      <4> QED BY <4>1, <4>2, <4>3, FlipsWhereNone DEF n
    <3> QED BY <3>1, <3>2
  <2>3. UpSteps(u, r, S)
    BY <2>1, <2>2 DEF UpSteps, n
  <2> QED BY <1>6, <2>1, <2>3
<1> QED BY <1>10, <1>11 DEF AddsOne, n, D

LEMMA TakeOneSteps == ASSUME NEW r \in Seq(Qubits), Unrepeated(r), r # <<>> PROVE TakesOne(r)
<1> DEFINE n == Len(r)
           D == AsSet(r)
           op(j) == CU(X(r[j]), AsSet(SubSeq(r, 1, j - 1)))
           ss == [i \in 1 .. n - 1 |-> DownPart(r, i + 1)]
<1>1. n \in Nat /\ n >= 1
  BY EmptySeq, LenProperties
<1>2. TakeOne(r) = X(r[1]) \o FlattenSeq([i \in 1 .. n - 2 + 1 |-> op(2 + i - 1)])
  BY DEF TakeOne, Each
<1>3. n - 2 + 1 = n - 1 /\ \A i \in 1 .. n - 1 : 2 + i - 1 = i + 1 /\ i + 1 \in 2 .. n
  BY <1>1
<1>4. \A j : op(j) = DownPart(r, j)
  BY DEF DownPart, Lower
<1> HIDE DEF op, n
<1>5. [i \in 1 .. n - 2 + 1 |-> op(2 + i - 1)] = ss
  BY <1>3, <1>4
<1>6. TakeOne(r) = X(r[1]) \o FlattenSeq(ss)
  BY <1>2, <1>5
<1>7. \A j \in 2 .. n : DownPart(r, j) \in Seq(GatesOn(D, D))
  BY FlipsWhereAll DEF n
<1> HIDE DEF D
<1>8. ss \in [1 .. n - 1 -> Seq(GatesOn(D, D))]
  BY <1>3, <1>7
<1>9. \A j \in 2 .. n : ss[j - 1] = DownPart(r, j)
  <2>1. \A j \in 2 .. n : j - 1 \in 1 .. n - 1 /\ (j - 1) + 1 = j
    BY <1>1
  <2> QED BY <2>1
<1> HIDE DEF ss
<1>10. TakeOne(r) \in Seq(GatesOn(D, D))
  <2>1. {} \in SUBSET Qubits
    OBVIOUS
  <2> QED BY <1>6, <1>8, <2>1, InRow DEF n, D
<1>11. ASSUME NEW S \in SUBSET Qubits PROVE \E u : DownSteps(u, r, S) /\ After(TakeOne(r), S) = u[n]
  <2>1. PICK u \in [0 .. n -> SUBSET Qubits] :
              /\ u[0] = S /\ u[1] = Toggle(S, r[1])
              /\ \A j \in 2 .. n : u[j] = After(ss[j - 1], u[j - 1])
              /\ After(X(r[1]) \o FlattenSeq(ss), S) = u[n]
    BY <1>8, InRow DEF n, D
  <2>2. ASSUME NEW j \in 1 .. n
        PROVE  u[j] = IF Ones(r, j - 1, u[j - 1]) THEN Toggle(u[j - 1], r[j]) ELSE u[j - 1]
    <3>1. CASE j = 1
      <4>1. Ones(r, 0, S)
        BY DEF Ones
      <4> QED BY <2>1, <3>1, <4>1
    <3>2. CASE j # 1
      <4>1. j \in 2 .. n /\ j - 1 \in 0 .. n
        BY <1>1, <3>2
      <4>2. u[j - 1] \in SUBSET Qubits
        BY <4>1
      <4>3. u[j] = After(DownPart(r, j), u[j - 1])
        BY <1>9, <2>1, <4>1
      <4> QED BY <4>1, <4>2, <4>3, FlipsWhereAll DEF n
    <3> QED BY <3>1, <3>2
  <2>3. DownSteps(u, r, S)
    BY <2>1, <2>2 DEF DownSteps, n
  <2> QED BY <1>6, <2>1, <2>3
<1> QED BY <1>10, <1>11 DEF TakesOne, n, D

LEMMA AddOneAdds ==
  ASSUME NEW r \in Seq(Qubits), Unrepeated(r), r # <<>>, NEW S \in SUBSET Qubits
  PROVE  After(AddOne(r), S) \in SUBSET Qubits /\ OneMore(r, S, After(AddOne(r), S), Len(r))
<1>1. PICK u : UpSteps(u, r, S) /\ After(AddOne(r), S) = u[Len(r)]
  BY AddOneSteps DEF AddsOne
<1> DEFINE n == Len(r)
           I == {j \in Nat : j <= n => OneMore(r, S, u[j], j) /\ (NoOnes(r, j, u[j]) <=> Ones(r, j, S))}
<1>2. n \in Nat /\ u \in [0 .. n -> SUBSET Qubits] /\ u[0] = S
      /\ \A j \in 1 .. n : u[j] = IF NoOnes(r, j - 1, u[j - 1]) THEN Toggle(u[j - 1], r[j]) ELSE u[j - 1]
  BY <1>1, LenProperties DEF UpSteps
<1>3. 0 \in I
  <2>1. OneMore(r, S, S, 0) /\ NoOnes(r, 0, S) /\ Ones(r, 0, S)
    BY DEF OneMore, AlikeOff, NoOnes, Ones
  <2> QED BY <1>2, <2>1
<1>4. ASSUME NEW i \in I, i < n PROVE i + 1 \in I
  <2> DEFINE j == i + 1
  <2>1. i \in Nat /\ i <= n /\ j \in 1 .. n /\ j - 1 = i /\ j \in Nat
    BY <1>2, <1>4
  <2>2. OneMore(r, S, u[i], i) /\ (NoOnes(r, i, u[i]) <=> Ones(r, i, S))
    BY <2>1
  <2> HIDE DEF I, j
  <2>3. OneMore(r, S, u[j], j) /\ (NoOnes(r, j, u[j]) <=> Ones(r, j, S))
    BY <1>2, <2>1, <2>2, DigitMore DEF n
  <2> QED BY <2>1, <2>3 DEF I, j
<1>5. n \in I
  <2>1. I \in SUBSET Nat
    OBVIOUS
  <2> HIDE DEF I
  <2>2. 0 .. n \subseteq I
    BY <1>2, <1>3, <1>4, <2>1, Induction
  <2> QED BY <1>2, <2>2
<1>6. u[n] \in SUBSET Qubits
  BY <1>2
<1> QED BY <1>1, <1>2, <1>5, <1>6

LEMMA TakeOneTakes ==
  ASSUME NEW r \in Seq(Qubits), Unrepeated(r), r # <<>>, NEW V \in SUBSET Qubits, NEW U \in SUBSET Qubits,
         OneMore(r, V, U, Len(r))
  PROVE  After(TakeOne(r), U) = V
<1>1. PICK u : DownSteps(u, r, U) /\ After(TakeOne(r), U) = u[Len(r)]
  BY TakeOneSteps DEF TakesOne
<1> DEFINE n == Len(r)
           I == {j \in Nat : j <= n => OneLess(r, V, U, u[j], j)}
<1>2. n \in Nat /\ u \in [0 .. n -> SUBSET Qubits] /\ u[0] = U
      /\ \A j \in 1 .. n : u[j] = IF Ones(r, j - 1, u[j - 1]) THEN Toggle(u[j - 1], r[j]) ELSE u[j - 1]
  BY <1>1, LenProperties DEF DownSteps
<1>3. 0 \in I
  <2>1. OneLess(r, V, U, U, 0)
    BY DEF OneLess, OneMore
  <2> QED BY <1>2, <2>1
<1>4. ASSUME NEW i \in I, i < n PROVE i + 1 \in I
  <2> DEFINE j == i + 1
  <2>1. i \in Nat /\ i <= n /\ j \in 1 .. n /\ j - 1 = i /\ j \in Nat
    BY <1>2, <1>4
  <2>2. OneLess(r, V, U, u[i], i)
    BY <2>1
  <2> HIDE DEF I, j
  <2>3. OneLess(r, V, U, u[j], j)
    BY <1>2, <2>1, <2>2, DigitLess DEF n
  <2> QED BY <2>1, <2>3 DEF I, j
<1>5. n \in I
  <2>1. I \in SUBSET Nat
    OBVIOUS
  <2> HIDE DEF I
  <2>2. 0 .. n \subseteq I
    BY <1>2, <1>3, <1>4, <2>1, Induction
  <2> QED BY <1>2, <2>2
<1>6. u[n] \in SUBSET Qubits /\ OneLess(r, V, U, u[n], n)
  BY <1>2, <1>5
<1>7. u[n] = V
  <2>1. \A q \in Qubits : q \in u[n] <=> q \in V
    <3> TAKE q \in Qubits
    <3>1. CASE q \notin AsSet(r)
      BY <1>6, <3>1 DEF OneLess, AlikeOff
    <3>2. CASE q \in AsSet(r)
      <4>1. PICK i \in 1 .. n : r[i] = q
        BY <3>2, RegisterType DEF AsSet
      <4> QED BY <1>6, <4>1 DEF OneLess
    <3> QED BY <3>1, <3>2
  <2> QED BY <1>6, <2>1
<1> QED BY <1>1, <1>7

-----------------------------------------------------------------------------
(* Subtraction without an ancilla: the borrow is carried in what is left of  *)
(* the smaller register.                                                     *)

SubtractionLayout(l, s) ==
  /\ l \in Seq(Qubits) /\ s \in Seq(Qubits) /\ l # <<>> /\ Len(l) = Len(s)
  /\ Unrepeated(l) /\ Unrepeated(s) /\ Disjoint(s, l)
SubtractionQubits(l, s) == AsSet(s) \cup AsSet(l)
Above(s, p) == SubSeq(s, p + 1, Len(s))

LowerStep(l, s, p) ==
  CX(s[p], l[p]) \o (IF p = Len(l) THEN <<>> ELSE CU(AddOne(Above(s, p)), {s[p], l[p]}))
RaiseStep(l, s, p) == CU(TakeOne(Above(s, p)), {s[p], l[p]})

LEMMA SubtractionWires ==
  ASSUME NEW l, NEW s, SubtractionLayout(l, s)
  PROVE  LET n == Len(s)
         IN  /\ n \in Nat /\ n >= 1 /\ Len(l) = n /\ SubtractionQubits(l, s) \in SUBSET Qubits
             /\ \A i \in 1 .. n : /\ s[i] \in Qubits /\ l[i] \in Qubits /\ s[i] # l[i]
                                  /\ s[i] \in SubtractionQubits(l, s) /\ l[i] \in SubtractionQubits(l, s)
             /\ \A i, j \in 1 .. n : s[i] # l[j] /\ (s[i] = s[j] => i = j) /\ (l[i] = l[j] => i = j)
<1>1. /\ l \in Seq(Qubits) /\ s \in Seq(Qubits) /\ l # <<>> /\ Len(l) = Len(s)
      /\ Unrepeated(l) /\ Unrepeated(s) /\ Disjoint(s, l)
  BY DEF SubtractionLayout
<1>2. Len(s) \in Nat /\ Len(s) >= 1
  <2>1. Len(l) \in Nat /\ Len(l) # 0
    BY <1>1, EmptySeq, LenProperties
  <2> QED BY <1>1, <2>1
<1>3. DOMAIN s = 1 .. Len(s) /\ DOMAIN l = 1 .. Len(s) /\ AsSet(s) \in SUBSET Qubits /\ AsSet(l) \in SUBSET Qubits
  BY <1>1, RegisterType
<1>4. \A i \in 1 .. Len(s) : s[i] \in Qubits /\ s[i] \in AsSet(s) /\ l[i] \in Qubits /\ l[i] \in AsSet(l)
  BY <1>1, RegisterType
<1>5. \A i, j \in 1 .. Len(s) : s[i] # l[j]
  BY <1>1, <1>4 DEF Disjoint
<1> QED BY <1>1, <1>2, <1>3, <1>4, <1>5 DEF SubtractionQubits, Unrepeated

LEMMA AboveQubits ==
  ASSUME NEW l, NEW s, SubtractionLayout(l, s), NEW p \in 1 .. Len(s) - 1
  PROVE  LET r == Above(s, p)
         IN  /\ r \in Seq(Qubits) /\ Unrepeated(r) /\ r # <<>> /\ Len(r) = Len(s) - p
             /\ \A m \in 1 .. Len(s) - p : r[m] = s[p + m]
             /\ AsSet(r) = {s[j] : j \in p + 1 .. Len(s)}
<1> DEFINE n == Len(s)
           i == p + 1
           k == n - p - 1
           r == SubSeq(s, i, i + k)
<1>1. n \in Nat /\ s \in Seq(Qubits) /\ Unrepeated(s)
  BY SubtractionWires DEF SubtractionLayout
<1>2. i \in 1 .. n /\ k \in Nat /\ i + k = n /\ k + 1 = n - p /\ i - 1 = p /\ n - p \in Nat /\ n - p >= 1
  BY <1>1
<1>3. Above(s, p) = r
  BY <1>2 DEF Above
<1> HIDE DEF i, k
<1>4. i + k <= Len(s)
  BY <1>1, <1>2
<1>5. r \in Seq(Qubits) /\ Len(r) = k + 1 /\ Unrepeated(r)
  <2>1. r \in Seq(Qubits) /\ Len(r) = k + 1
    BY ONLY <1>1, <1>2, <1>4, PartOf DEF n
  <2>2. Unrepeated(r)
    BY ONLY <1>1, <1>2, <1>4, PartOf DEF n
  <2> QED BY <2>1, <2>2
<1>6. \A m \in 1 .. k + 1 : r[m] = s[i - 1 + m]
  BY ONLY <1>1, <1>2, <1>4, PartOf DEF n
<1>7. AsSet(r) = {s[i - 1 + m] : m \in 1 .. k + 1}
  BY ONLY <1>1, <1>2, <1>4, PartOf DEF n
<1> HIDE DEF r
<1>8. {s[i - 1 + m] : m \in 1 .. k + 1} = {s[j] : j \in p + 1 .. n}
  <2>1. \A m \in 1 .. k + 1 : i - 1 + m \in p + 1 .. n
    BY <1>1, <1>2
  <2>2. \A j \in p + 1 .. n : j - p \in 1 .. k + 1 /\ i - 1 + (j - p) = j
    BY <1>1, <1>2
  <2> QED BY <2>1, <2>2
<1>9. r # <<>>
  BY <1>2, <1>5, EmptySeq
<1> QED BY <1>2, <1>3, <1>5, <1>6, <1>7, <1>8, <1>9

(* The qubits of s from a to b are all 1.                                    *)
Run(s, a, b, S) == \A k \in a .. b : s[k] \in S

(* What a step of the way down makes of V, and what of the registers it      *)
(* leaves alone.                                                             *)
Lowered(l, s, p, V, T) ==
  /\ \A q \in Qubits : q # l[p] /\ (\A j \in p + 1 .. Len(s) : q # s[j]) => (q \in T <=> q \in V)
  /\ l[p] \in T <=> ~ (l[p] \in V <=> s[p] \in V)
  /\ \A j \in p + 1 .. Len(s) :
       s[j] \in T <=> (s[j] \in V <=> ~ (s[p] \in T /\ l[p] \in T /\ Run(s, p + 1, j - 1, V)))

LEMMA CrossOver ==
  ASSUME NEW l, NEW s, SubtractionLayout(l, s), NEW p \in 1 .. Len(s)
  PROVE  LET D == SubtractionQubits(l, s)
         IN  /\ CX(s[p], l[p]) \in Seq(GatesOn(D, D))
             /\ \A V \in SUBSET Qubits : After(CX(s[p], l[p]), V) = IF s[p] \in V THEN Toggle(V, l[p]) ELSE V
<1> DEFINE D == SubtractionQubits(l, s)
           a == s[p]
           b == l[p]
           g == <<NotGate(b, {a})>>
<1>1. D \in SUBSET Qubits /\ a \in Qubits /\ b \in Qubits /\ a # b /\ a \in D /\ b \in D
  BY SubtractionWires
<1>2. CX(s[p], l[p]) = g
  BY OneCX
<1> HIDE DEF D, a, b, g
<1>3. {a} \in SUBSET Qubits /\ b \notin {a} /\ {b} \subseteq D /\ {a} \subseteq D
  BY <1>1
<1>4. g \in Seq(GatesOn({b}, {a})) /\ \A V \in SUBSET Qubits : After(g, V) = IF {a} \subseteq V THEN Toggle(V, b) ELSE V
  <2>1. Flips(g, b, {a})
    BY <1>1, <1>3, NotGateFlips DEF g
  <2> QED BY <2>1 DEF Flips
<1>5. g \in Seq(GatesOn(D, D))
  BY <1>3, <1>4, WiderGates
<1>6. \A V \in SUBSET Qubits : After(g, V) = IF a \in V THEN Toggle(V, b) ELSE V
  BY <1>4
<1> QED BY <1>2, <1>5, <1>6 DEF D, a, b

LEMMA CarriedBorrow ==
  ASSUME NEW l, NEW s, SubtractionLayout(l, s), NEW p \in 1 .. Len(s) - 1
  PROVE  LET D == SubtractionQubits(l, s)
             K == {s[p], l[p]}
             add == AddOne(Above(s, p))
             take == TakeOne(Above(s, p))
         IN  /\ CU(add, K) \in Seq(GatesOn(D, D)) /\ ControlledBy(CU(add, K), K, add)
             /\ CU(take, K) \in Seq(GatesOn(D, D)) /\ ControlledBy(CU(take, K), K, take)
<1> DEFINE D == SubtractionQubits(l, s)
           K == {s[p], l[p]}
           r == Above(s, p)
           R == AsSet(r)
           add == AddOne(r)
           take == TakeOne(r)
           n == Len(s)
<1>1. n \in Nat /\ D \in SUBSET Qubits /\ \A j \in 1 .. n : s[j] \in D /\ l[j] \in D
  BY SubtractionWires
<1>2. \A i, j \in 1 .. n : s[i] # l[j] /\ (s[i] = s[j] => i = j)
  BY SubtractionWires
<1>3. r \in Seq(Qubits) /\ Unrepeated(r) /\ r # <<>> /\ R = {s[j] : j \in p + 1 .. n}
  BY AboveQubits
<1>4. p \in 1 .. n /\ \A j \in p + 1 .. n : j \in 1 .. n /\ j # p
  BY <1>1
<1>5. R \subseteq D /\ K \subseteq D /\ K \cap R = {}
  BY <1>1, <1>2, <1>3, <1>4
<1>6. add \in Seq(GatesOn(R, R)) /\ take \in Seq(GatesOn(R, R))
  BY <1>3, AddOneSteps, TakeOneSteps DEF AddsOne, TakesOne
<1> HIDE DEF D, K, R, add, take, r
<1>7. R \in SUBSET Qubits /\ K \in SUBSET Qubits /\ R \subseteq D /\ R \cup K \subseteq D
  BY <1>1, <1>5
<1>8. CU(add, K) \in Seq(GatesOn(R, R \cup K)) /\ ControlledBy(CU(add, K), K, add)
  BY <1>5, <1>6, <1>7, ControlsAdded
<1>9. CU(take, K) \in Seq(GatesOn(R, R \cup K)) /\ ControlledBy(CU(take, K), K, take)
  BY <1>5, <1>6, <1>7, ControlsAdded
<1>10. Seq(GatesOn(R, R \cup K)) \subseteq Seq(GatesOn(D, D))
  BY <1>7, WiderGates
<1>11. CU(add, K) \in Seq(GatesOn(D, D)) /\ CU(take, K) \in Seq(GatesOn(D, D))
  BY <1>8, <1>9, <1>10
<1> QED BY <1>8, <1>9, <1>11 DEF D, K, add, take, r

LEMMA OnesAbove ==
  ASSUME NEW l, NEW s, SubtractionLayout(l, s), NEW p \in 1 .. Len(s) - 1, NEW j \in p + 1 .. Len(s), NEW W
  PROVE  /\ j - p \in 1 .. Len(Above(s, p)) /\ Above(s, p)[j - p] = s[j]
         /\ Ones(Above(s, p), (j - p) - 1, W) <=> Run(s, p + 1, j - 1, W)
<1> DEFINE r == Above(s, p)
           n == Len(s)
<1>1. n \in Nat
  BY SubtractionWires
<1>2. Len(r) = n - p /\ \A m \in 1 .. n - p : r[m] = s[p + m]
  BY AboveQubits
<1> HIDE DEF n, r
<1>3. n - p \in Nat /\ p \in 1 .. n - 1 /\ j \in p + 1 .. n
  BY <1>1 DEF n
<1>4. j - p \in 1 .. n - p /\ p + (j - p) = j
  BY <1>1, <1>3
<1>5. \A m \in 1 .. (j - p) - 1 : m \in 1 .. n - p /\ p + m \in p + 1 .. j - 1
  BY <1>1, <1>3
<1>6. \A k \in p + 1 .. j - 1 : k - p \in 1 .. (j - p) - 1 /\ p + (k - p) = k
  BY <1>1, <1>3
<1>7. Ones(r, (j - p) - 1, W) <=> Run(s, p + 1, j - 1, W)
  <2>1. ASSUME Ones(r, (j - p) - 1, W), NEW k \in p + 1 .. j - 1 PROVE s[k] \in W
    <3>1. r[k - p] = s[k] /\ r[k - p] \in W
      BY <1>2, <1>5, <1>6, <2>1 DEF Ones
    <3> QED BY <3>1
  <2>2. ASSUME Run(s, p + 1, j - 1, W), NEW m \in 1 .. (j - p) - 1 PROVE r[m] \in W
    <3>1. r[m] = s[p + m] /\ s[p + m] \in W
      BY <1>2, <1>5, <2>2 DEF Run
    <3> QED BY <3>1
  <2> QED BY <2>1, <2>2 DEF Ones, Run
<1> QED BY <1>2, <1>4, <1>7 DEF r

LEMMA LowerStepWorks ==
  ASSUME NEW l, NEW s, SubtractionLayout(l, s), NEW p \in 1 .. Len(s)
  PROVE  LET D == SubtractionQubits(l, s)
             c == LowerStep(l, s, p)
         IN  /\ c \in Seq(GatesOn(D, D))
             /\ \A V \in SUBSET Qubits : Lowered(l, s, p, V, After(c, V))
<1> DEFINE D == SubtractionQubits(l, s)
           c == LowerStep(l, s, p)
           g == CX(s[p], l[p])
           n == Len(s)
           K == {s[p], l[p]}
           add == AddOne(Above(s, p))
<1>1. /\ n \in Nat /\ Len(l) = n /\ D \in SUBSET Qubits /\ s[p] \in Qubits /\ l[p] \in Qubits /\ s[p] # l[p]
      /\ \A j \in 1 .. n : s[j] \in Qubits
      /\ \A i, j \in 1 .. n : s[i] # l[j] /\ (s[i] = s[j] => i = j)
  BY SubtractionWires
<1>2. g \in Seq(GatesOn(D, D)) /\ \A V \in SUBSET Qubits : After(g, V) = IF s[p] \in V THEN Toggle(V, l[p]) ELSE V
  BY CrossOver
<1>3. c = g \o (IF p = n THEN <<>> ELSE CU(add, K))
  BY <1>1 DEF LowerStep
<1>4. \A j \in p + 1 .. n : j \in 1 .. n /\ j # p /\ s[j] # l[p] /\ s[j] # s[p] /\ s[j] \in Qubits
  BY <1>1
<1> HIDE DEF D, c, g, n, K, add
<1>g. g \in Seq(GatesOn(Qubits, Qubits))
  BY <1>1, <1>2, AnyGates
<1>5. ASSUME NEW V \in SUBSET Qubits
      PROVE  LET W == After(g, V)
             IN  /\ W \in SUBSET Qubits
                 /\ l[p] \in W <=> ~ (l[p] \in V <=> s[p] \in V)
                 /\ \A q \in Qubits : q # l[p] => (q \in W <=> q \in V)
  <2>1. After(g, V) = IF s[p] \in V THEN Toggle(V, l[p]) ELSE V
    BY <1>2
  <2> QED BY <1>1, <2>1 DEF Toggle
<1>6. CASE p = n
  <2>1. c = g
    <3>1. g \o <<>> = g
      BY <1>2, ConcatProperties
    <3> QED BY <1>3, <1>6, <3>1
  <2>2. ASSUME NEW V \in SUBSET Qubits PROVE Lowered(l, s, p, V, After(g, V))
    <3>1. p + 1 .. n = {}
      BY <1>1, <1>6
    <3> DEFINE W == After(g, V)
    <3>2. /\ l[p] \in W <=> ~ (l[p] \in V <=> s[p] \in V)
          /\ \A q \in Qubits : q # l[p] => (q \in W <=> q \in V)
      BY <1>5
    <3> HIDE DEF W
    <3>3. Lowered(l, s, p, V, W)
      BY <3>1, <3>2 DEF Lowered, n
    <3> QED BY <3>3 DEF W
  <2> QED BY <1>2, <2>1, <2>2 DEF c, D
<1>7. CASE p # n
  <2>0. p \in 1 .. Len(s) - 1
    BY <1>1, <1>7 DEF n
  <2> DEFINE h == CU(add, K)
             r == Above(s, p)
  <2>1. c = g \o h
    BY <1>3, <1>7
  <2>2. h \in Seq(GatesOn(D, D)) /\ ControlledBy(h, K, add)
    BY <2>0, CarriedBorrow DEF D, K, add
  <2>3. r \in Seq(Qubits) /\ Unrepeated(r) /\ r # <<>> /\ AsSet(r) = {s[j] : j \in p + 1 .. n}
    BY <2>0, AboveQubits DEF n
  <2> HIDE DEF h, r
  <2>h. h \in Seq(GatesOn(Qubits, Qubits))
    BY <1>1, <2>2, AnyGates
  <2>4. c \in Seq(GatesOn(D, D))
    BY <1>2, <2>1, <2>2, ConcatProperties
  <2>5. ASSUME NEW V \in SUBSET Qubits PROVE Lowered(l, s, p, V, After(c, V))
    <3> DEFINE W == After(g, V)
               T == After(c, V)
    <3>1. /\ W \in SUBSET Qubits
          /\ l[p] \in W <=> ~ (l[p] \in V <=> s[p] \in V)
          /\ \A q \in Qubits : q # l[p] => (q \in W <=> q \in V)
      BY <1>5
    <3>2. T = After(h, W)
      BY <1>g, <2>1, <2>h, AfterConcat
    <3>3. s[p] \in W <=> s[p] \in V
      BY <1>1, <3>1
    <3>4. \A j \in p + 1 .. n : s[j] \in W <=> s[j] \in V
      BY <1>4, <3>1
    <3>5. \A j \in p + 1 .. n : Run(s, p + 1, j - 1, W) <=> Run(s, p + 1, j - 1, V)
      <4>1. \A j \in p + 1 .. n : \A k \in p + 1 .. j - 1 : k \in p + 1 .. n
        BY <1>1
      <4> QED BY <3>4, <4>1 DEF Run
    <3>6. K \subseteq W <=> s[p] \in W /\ l[p] \in W
      BY DEF K
    <3> HIDE DEF W, T
    <3>7. CASE ~ K \subseteq W
      <4>1. T = W
        BY <2>2, <3>1, <3>2, <3>7 DEF ControlledBy
      <4> QED BY <1>1, <3>1, <3>3, <3>4, <3>6, <3>7, <4>1 DEF Lowered, n, T
    <3>8. CASE K \subseteq W
      <4>1. T = After(add, W)
        BY <2>2, <3>1, <3>2, <3>8 DEF ControlledBy
      <4>2. OneMore(r, W, T, Len(r))
        BY <2>3, <3>1, <4>1, AddOneAdds DEF add, r
      <4>3. \A q \in Qubits : (\A j \in p + 1 .. n : q # s[j]) => (q \in T <=> q \in W)
        BY <2>3, <4>2 DEF OneMore, AlikeOff
      <4>4. s[p] \in T /\ l[p] \in T
        <5>1. \A j \in p + 1 .. n : s[p] # s[j] /\ l[p] # s[j]
          BY <1>4
        <5> QED BY <1>1, <3>6, <3>8, <4>3, <5>1
      <4>5. ASSUME NEW j \in p + 1 .. n PROVE s[j] \in T <=> (s[j] \in V <=> ~ Run(s, p + 1, j - 1, V))
        <5>1. j - p \in 1 .. Len(r) /\ r[j - p] = s[j] /\ (Ones(r, (j - p) - 1, W) <=> Run(s, p + 1, j - 1, W))
          BY <2>0, OnesAbove DEF r, n
        <5>2. r[j - p] \in T <=> (r[j - p] \in W <=> ~ Ones(r, (j - p) - 1, W))
          BY <4>2, <5>1 DEF OneMore
        <5> QED BY <3>4, <3>5, <5>1, <5>2
      <4>6. \A q \in Qubits : q # l[p] /\ (\A j \in p + 1 .. n : q # s[j]) => (q \in T <=> q \in V)
        BY <3>1, <4>3
      <4>7. l[p] \in T <=> ~ (l[p] \in V <=> s[p] \in V)
        BY <3>1, <3>6, <3>8, <4>4
      <4> QED BY <4>4, <4>5, <4>6, <4>7 DEF Lowered, n, T
    <3> QED BY <3>7, <3>8
  <2> QED BY <2>4, <2>5 DEF c, D
<1> QED BY <1>6, <1>7

(* After i steps: the digits of the difference up to the i-th, and the       *)
(* borrow added to the rest of s.                                            *)
Borrowed(l, s, Cy, S, i, T) ==
  /\ \A q \in Qubits : q \notin SubtractionQubits(l, s) => (q \in T <=> q \in S)
  /\ \A j \in 1 .. i : l[j] \in T <=> Odd(s[j] \in S, l[j] \in S, Cy[j - 1])
  /\ \A j \in i + 1 .. Len(s) : l[j] \in T <=> l[j] \in S
  /\ \A j \in i + 1 .. Len(s) : s[j] \in T <=> (s[j] \in S <=> ~ (Cy[i] /\ Run(s, i + 1, j - 1, S)))

LEMMA BorrowRule ==
  ASSUME NEW a \in BOOLEAN, NEW b \in BOOLEAN, NEW y \in BOOLEAN, NEW sp \in BOOLEAN, NEW lp \in BOOLEAN,
         sp <=> (a <=> ~ y), lp <=> ~ (b <=> sp)
  PROVE  /\ lp <=> Odd(a, b, y)
         /\ sp /\ lp => ~ (y /\ a) /\ Most(a, ~ b, y)
         /\ ~ (sp /\ lp) => (Most(a, ~ b, y) <=> y /\ a)
BY DEF Odd, Most

LEMMA BorrowStep ==
  ASSUME NEW l, NEW s, SubtractionLayout(l, s), NEW p \in 1 .. Len(s), NEW S, NEW V, NEW T,
         NEW Cy, AreBorrows(Cy, s, l, S, Len(s)), Borrowed(l, s, Cy, S, p - 1, V), Lowered(l, s, p, V, T)
  PROVE  Borrowed(l, s, Cy, S, p, T)
<1> DEFINE n == Len(s)
           D == SubtractionQubits(l, s)
           a == s[p] \in S
           b == l[p] \in S
           y == Cy[p - 1]
           sp == s[p] \in T
           lp == l[p] \in T
<1>1. /\ n \in Nat /\ \A j \in 1 .. n : s[j] \in Qubits /\ l[j] \in Qubits /\ s[j] \in D /\ l[j] \in D
      /\ \A i, j \in 1 .. n : s[i] # l[j] /\ (s[i] = s[j] => i = j) /\ (l[i] = l[j] => i = j)
  BY SubtractionWires
<1>2. p - 1 \in 0 .. n /\ p \in 0 .. n /\ p - 1 + 1 = p
  BY <1>1
<1>3. y \in BOOLEAN /\ Cy[p] = Most(a, ~ b, y)
  BY <1>2 DEF AreBorrows
<1>4. /\ \A q \in Qubits : q \notin D => (q \in V <=> q \in S)
      /\ \A j \in 1 .. p - 1 : l[j] \in V <=> Odd(s[j] \in S, l[j] \in S, Cy[j - 1])
      /\ \A j \in p .. n : l[j] \in V <=> l[j] \in S
      /\ \A j \in p .. n : s[j] \in V <=> (s[j] \in S <=> ~ (y /\ Run(s, p, j - 1, S)))
  BY <1>2 DEF Borrowed
<1>5. /\ \A q \in Qubits : q # l[p] /\ (\A j \in p + 1 .. n : q # s[j]) => (q \in T <=> q \in V)
      /\ lp <=> ~ (l[p] \in V <=> s[p] \in V)
      /\ \A j \in p + 1 .. n : s[j] \in T <=> (s[j] \in V <=> ~ (sp /\ lp /\ Run(s, p + 1, j - 1, V)))
  BY DEF Lowered
<1>6. p \in p .. n /\ \A j \in p + 1 .. n : j \in p .. n /\ j \in 1 .. n /\ j # p
  BY <1>1
<1>7. (sp <=> s[p] \in V) /\ (s[p] \in V <=> (a <=> ~ y)) /\ (l[p] \in V <=> b)
  <2>1. Run(s, p, p - 1, S)
    BY <1>1 DEF Run
  <2>2. \A j \in p + 1 .. n : s[p] # s[j]
    BY <1>1, <1>6
  <2>3. s[p] # l[p] /\ s[p] \in Qubits
    BY <1>1
  <2>4. sp <=> s[p] \in V
    BY <1>5, <2>2, <2>3
  <2> QED BY <1>4, <1>6, <2>1, <2>4
<1>8. sp <=> (a <=> ~ y)
  BY <1>7
<1>9. lp <=> ~ (b <=> sp)
  BY <1>5, <1>7
<1>10. a \in BOOLEAN /\ b \in BOOLEAN /\ sp \in BOOLEAN /\ lp \in BOOLEAN
  OBVIOUS
<1>11. \A j \in 1 .. n : j # p => (l[j] \in T <=> l[j] \in V)
  <2>1. \A j \in 1 .. n : \A k \in p + 1 .. n : l[j] # s[k]
    BY <1>1, <1>6
  <2>2. \A j \in 1 .. n : j # p => l[j] # l[p]
    BY <1>1
  <2> QED BY <1>1, <1>5, <2>1, <2>2
<1>12. \A q \in Qubits : q \notin D => (q \in T <=> q \in S)
  <2>1. \A q : q \notin D => q # l[p] /\ \A j \in p + 1 .. n : q # s[j]
    BY <1>1, <1>6
  <2> QED BY <1>4, <1>5, <2>1
<1>13. ASSUME NEW j \in p + 1 .. n
       PROVE  /\ Run(s, p, j - 1, S) <=> a /\ Run(s, p + 1, j - 1, S)
              /\ (~ (y /\ a) => (Run(s, p + 1, j - 1, V) <=> Run(s, p + 1, j - 1, S)))
  <2>1. p \in p .. j - 1 /\ (\A k \in p + 1 .. j - 1 : k \in p .. j - 1 /\ k \in p .. n)
        /\ (\A k \in p .. j - 1 : k = p \/ k \in p + 1 .. j - 1)
    BY <1>1
  <2>2. Run(s, p, j - 1, S) <=> a /\ Run(s, p + 1, j - 1, S)
    BY <2>1 DEF Run
  <2>3. ASSUME ~ (y /\ a), NEW k \in p + 1 .. j - 1 PROVE s[k] \in V <=> s[k] \in S
    <3>1. k \in p .. n /\ k \in p + 1 .. n /\ p \in p .. k - 1
      BY <1>1
    <3>2. Run(s, p, k - 1, S) => a
      BY <3>1 DEF Run
    <3> QED BY <1>4, <2>3, <3>1, <3>2
  <2> QED BY <2>2, <2>3 DEF Run
<1>14. \A j \in p + 1 .. n : s[j] \in V <=> (s[j] \in S <=> ~ (y /\ a /\ Run(s, p + 1, j - 1, S)))
  BY <1>4, <1>6, <1>13
<1> HIDE DEF a, b, y, sp, lp
<1>15. /\ lp <=> Odd(a, b, y)
       /\ sp /\ lp => ~ (y /\ a) /\ Most(a, ~ b, y)
       /\ ~ (sp /\ lp) => (Most(a, ~ b, y) <=> y /\ a)
  BY <1>3, <1>8, <1>9, <1>10, BorrowRule
<1>16. \A j \in p + 1 .. n : s[j] \in T <=> (s[j] \in S <=> ~ (Cy[p] /\ Run(s, p + 1, j - 1, S)))
  <2> TAKE j \in p + 1 .. n
  <2>1. CASE sp /\ lp
    BY <1>3, <1>5, <1>13, <1>14, <1>15, <2>1
  <2>2. CASE ~ (sp /\ lp)
    BY <1>3, <1>5, <1>14, <1>15, <2>2
  <2> QED BY <2>1, <2>2
<1>17. \A j \in 1 .. p : l[j] \in T <=> Odd(s[j] \in S, l[j] \in S, Cy[j - 1])
  <2> TAKE j \in 1 .. p
  <2>1. CASE j = p
    BY <1>15, <2>1 DEF a, b, y, lp
  <2>2. CASE j # p
    <3>1. j \in 1 .. p - 1 /\ j \in 1 .. n
      BY <1>1, <2>2
    <3> QED BY <1>4, <1>11, <2>2, <3>1
  <2> QED BY <2>1, <2>2
<1>18. \A j \in p + 1 .. n : l[j] \in T <=> l[j] \in S
  BY <1>4, <1>6, <1>11
<1> QED BY <1>12, <1>16, <1>17, <1>18 DEF Borrowed, n, D

(* The register s as in T, everything else as in F.                          *)
Mixed(s, T, F) == {q \in Qubits : IF q \in AsSet(s) THEN q \in T ELSE q \in F}

LEMMA RaiseStepWorks ==
  ASSUME NEW l, NEW s, SubtractionLayout(l, s), NEW p \in 1 .. Len(s) - 1,
         NEW V \in SUBSET Qubits, NEW T \in SUBSET Qubits, Lowered(l, s, p, V, T),
         NEW F \in SUBSET Qubits, l[p] \in F <=> l[p] \in T
  PROVE  After(RaiseStep(l, s, p), Mixed(s, T, F)) = Mixed(s, V, F)
<1> DEFINE n == Len(s)
           r == Above(s, p)
           K == {s[p], l[p]}
           take == TakeOne(r)
           U == Mixed(s, T, F)
           Y == Mixed(s, V, F)
<1>1. /\ n \in Nat /\ Len(l) = n /\ s \in Seq(Qubits)
      /\ \A j \in 1 .. n : s[j] \in Qubits /\ l[j] \in Qubits
      /\ \A i, j \in 1 .. n : s[i] # l[j] /\ (s[i] = s[j] => i = j)
  BY SubtractionWires DEF SubtractionLayout
<1>2. AsSet(s) = {s[j] : j \in 1 .. n} /\ p \in 1 .. n /\ \A j \in p + 1 .. n : j \in 1 .. n /\ j # p
  BY <1>1, RegisterType DEF AsSet
<1>3. r \in Seq(Qubits) /\ Unrepeated(r) /\ r # <<>> /\ AsSet(r) = {s[j] : j \in p + 1 .. n} /\ Len(r) = n - p
  BY AboveQubits
<1>4. ControlledBy(RaiseStep(l, s, p), K, take)
  BY CarriedBorrow DEF RaiseStep
<1>5. /\ \A q \in Qubits : q # l[p] /\ (\A j \in p + 1 .. n : q # s[j]) => (q \in T <=> q \in V)
      /\ \A j \in p + 1 .. n : s[j] \in T <=> (s[j] \in V <=> ~ (s[p] \in T /\ l[p] \in T /\ Run(s, p + 1, j - 1, V)))
  BY DEF Lowered
<1> HIDE DEF n, r, take
<1>6. U \in SUBSET Qubits /\ Y \in SUBSET Qubits
  BY DEF Mixed
<1>7. \A j \in 1 .. n : (s[j] \in U <=> s[j] \in T) /\ (s[j] \in Y <=> s[j] \in V)
  BY <1>1, <1>2 DEF Mixed
<1>8. \A q \in Qubits : q \notin AsSet(s) => (q \in U <=> q \in F) /\ (q \in Y <=> q \in F)
  BY DEF Mixed
<1>9. l[p] \notin AsSet(s) /\ l[p] \in Qubits
  BY <1>1, <1>2
<1>10. K \subseteq U <=> s[p] \in T /\ l[p] \in T
  BY <1>2, <1>7, <1>8, <1>9
<1> HIDE DEF U, Y, K
<1>11. \A j \in 1 .. n : (\A k \in p + 1 .. n : j # k) => (s[j] \in T <=> s[j] \in V)
  <2>1. \A j \in 1 .. n : (\A k \in p + 1 .. n : j # k) => \A k \in p + 1 .. n : s[j] # s[k]
    BY <1>1, <1>2
  <2> QED BY <1>1, <1>2, <1>5, <2>1
<1>12. CASE ~ K \subseteq U
  <2>1. After(RaiseStep(l, s, p), U) = U
    BY <1>4, <1>6, <1>12 DEF ControlledBy
  <2>2. \A j \in 1 .. n : s[j] \in T <=> s[j] \in V
    BY <1>5, <1>10, <1>11, <1>12
  <2>3. \A q \in Qubits : q \in U <=> q \in Y
    BY <1>2, <1>7, <1>8, <2>2
  <2> QED BY <1>6, <2>1, <2>3 DEF U, Y
<1>13. CASE K \subseteq U
  <2>1. After(RaiseStep(l, s, p), U) = After(take, U)
    BY <1>4, <1>6, <1>13 DEF ControlledBy
  <2>2. AlikeOff(r, U, Y)
    <3>1. ASSUME NEW q \in Qubits, q \notin AsSet(r) PROVE q \in U <=> q \in Y
      <4>1. CASE q \notin AsSet(s)
        BY <1>8, <4>1
      <4>2. CASE q \in AsSet(s)
        <5>1. PICK j \in 1 .. n : q = s[j]
          BY <1>2, <4>2
        <5>2. \A k \in p + 1 .. n : j # k
          BY <1>3, <3>1, <5>1
        <5> QED BY <1>7, <1>11, <5>1, <5>2
      <4> QED BY <4>1, <4>2
    <3> QED BY <3>1 DEF AlikeOff
  <2>3. ASSUME NEW i \in 1 .. Len(r) PROVE r[i] \in U <=> (r[i] \in Y <=> ~ Ones(r, i - 1, Y))
    <3> DEFINE j == p + i
    <3>1. j \in p + 1 .. n /\ j - p = i /\ j \in 1 .. n
      BY <1>1, <1>2, <1>3
    <3> HIDE DEF j
    <3>2. r[i] = s[j] /\ (Ones(r, i - 1, Y) <=> Run(s, p + 1, j - 1, Y))
      BY <3>1, OnesAbove DEF r, n
    <3>3. Run(s, p + 1, j - 1, Y) <=> Run(s, p + 1, j - 1, V)
      <4>1. \A k \in p + 1 .. j - 1 : k \in 1 .. n
        BY <1>1, <3>1
      <4> QED BY <1>7, <4>1 DEF Run
    <3>4. s[j] \in T <=> (s[j] \in V <=> ~ Run(s, p + 1, j - 1, V))
      BY <1>5, <1>10, <1>13, <3>1
    <3> QED BY <1>7, <3>1, <3>2, <3>3, <3>4
  <2>4. OneMore(r, Y, U, Len(r))
    <3>1. Len(r) + 1 .. Len(r) = {}
      BY <1>3, LenProperties
    <3> QED BY <2>2, <2>3, <3>1 DEF OneMore
  <2>5. After(take, U) = Y
    BY <1>3, <1>6, <2>4, TakeOneTakes DEF take
  <2> QED BY <2>1, <2>5 DEF U, Y
<1> QED BY <1>12, <1>13

(* The way down the registers and the way back.                              *)
Downwards(l, s) == [i \in 1 .. Len(s) |-> LowerStep(l, s, i)]
Backwards(l, s) == [i \in 1 .. Len(s) - 1 |-> RaiseStep(l, s, Len(s) - i)]

LEMMA SubtractionParts ==
  ASSUME NEW l, NEW s, SubtractionLayout(l, s), NEW c0, c0 < 0
  PROVE  LET D == SubtractionQubits(l, s)
         IN  /\ Subtraction(l, s, c0) = FlattenSeq(Downwards(l, s)) \o FlattenSeq(Backwards(l, s))
             /\ Downwards(l, s) \in [1 .. Len(s) -> Seq(GatesOn(D, D))]
             /\ Backwards(l, s) \in [1 .. Len(s) - 1 -> Seq(GatesOn(D, D))]
<1> DEFINE n == Len(l)
           m == Len(s)
           D == SubtractionQubits(l, s)
           above(i) == SubSeq(s, i + 1, n)
           down(i) == CX(s[i], l[i]) \o (IF i = n THEN <<>> ELSE CU(AddOne(above(i)), {s[i], l[i]}))
           back(i) == CU(TakeOne(above(i)), {s[i], l[i]})
           downs == [i \in 1 .. n - 1 + 1 |-> down(1 + i - 1)]
           backs == [i \in 1 .. (n - 1) - 1 + 1 |-> back((n - 1) - i + 1)]
<1>1. n = m /\ m \in Nat /\ m >= 1
  BY SubtractionWires
<1>2. Subtraction(l, s, c0) = FlattenSeq(downs) \o FlattenSeq(backs)
  BY DEF Subtraction, Each, EachDown
<1>3. \A i : down(i) = LowerStep(l, s, i)
  BY <1>1 DEF LowerStep, Above
<1>4. \A i : back(i) = RaiseStep(l, s, i)
  BY <1>1 DEF RaiseStep, Above
<1> HIDE DEF down, back, n, m
<1>5. downs = [i \in 1 .. m |-> LowerStep(l, s, i)]
  <2>1. n - 1 + 1 = m /\ \A i \in 1 .. m : 1 + i - 1 = i
    BY <1>1
  <2> QED BY <1>3, <2>1
<1>6. backs = [i \in 1 .. m - 1 |-> RaiseStep(l, s, m - i)]
  <2>1. (n - 1) - 1 + 1 = m - 1 /\ \A i \in 1 .. m - 1 : (n - 1) - i + 1 = m - i
    BY <1>1
  <2> QED BY <1>4, <2>1
<1> HIDE DEF downs, backs
<1>7. Downwards(l, s) = downs /\ Backwards(l, s) = backs
  BY <1>5, <1>6 DEF Downwards, Backwards, m
<1>8. Downwards(l, s) \in [1 .. m -> Seq(GatesOn(D, D))]
  <2>1. \A i \in 1 .. m : LowerStep(l, s, i) \in Seq(GatesOn(D, D))
    BY LowerStepWorks DEF m
  <2> HIDE DEF D
  <2> QED BY <2>1 DEF Downwards, m
<1>9. Backwards(l, s) \in [1 .. m - 1 -> Seq(GatesOn(D, D))]
  <2>1. \A i \in 1 .. m - 1 : RaiseStep(l, s, i) \in Seq(GatesOn(D, D))
    BY CarriedBorrow DEF RaiseStep, m
  <2>2. \A i \in 1 .. m - 1 : m - i \in 1 .. m - 1
    BY <1>1
  <2> HIDE DEF D
  <2>3. \A i \in 1 .. m - 1 : RaiseStep(l, s, m - i) \in Seq(GatesOn(D, D))
    BY <2>1, <2>2
  <2> QED BY <2>3 DEF Backwards, m
<1> QED BY <1>2, <1>7, <1>8, <1>9 DEF m

LEMMA BorrowsExist ==
  ASSUME NEW n \in Nat, NEW A, NEW B, NEW S
  PROVE  \E f : AreBorrows(f, A, B, S, n)
<1> DEFINE step == [q \in BOOLEAN \X (1 .. n) |-> Most(A[q[2]] \in S, B[q[2]] \notin S, q[1])]
           x == FALSE
<1>1. step \in [BOOLEAN \X (1 .. n) -> BOOLEAN] /\ x \in BOOLEAN
  <2>1. \A q \in BOOLEAN \X (1 .. n) : Most(A[q[2]] \in S, B[q[2]] \notin S, q[1]) \in BOOLEAN
    BY DEF Most
  <2> QED BY <2>1
<1>2. PICK f \in [0 .. n -> BOOLEAN] : Recursion(f, n, x, step)
  <2> HIDE DEF step, x
  <2> QED BY <1>1, RecursionOverInterval
<1>3. \A i \in 1 .. n : f[i] = Most(A[i] \in S, B[i] \notin S, f[i - 1])
  <2>1. \A i \in 1 .. n : f[i - 1] \in BOOLEAN
    BY <1>2
  <2>2. \A i \in 1 .. n : step[<<f[i - 1], i>>] = Most(A[i] \in S, B[i] \notin S, f[i - 1])
    BY <2>1
  <2> HIDE DEF step
  <2> QED BY <1>2, <2>2 DEF Recursion
<1>4. f[0] = FALSE
  BY <1>2 DEF Recursion
<1> QED BY <1>2, <1>3, <1>4 DEF AreBorrows

(* The states on the way down, and back.                                     *)
WentDown(t, l, s, S) ==
  /\ t \in [0 .. Len(s) -> SUBSET Qubits] /\ t[0] = S
  /\ \A i \in 1 .. Len(s) : Lowered(l, s, i, t[i - 1], t[i])
WentBack(u, l, s, T) ==
  /\ u \in [0 .. Len(s) - 1 -> SUBSET Qubits] /\ u[0] = T
  /\ \A i \in 1 .. Len(s) - 1 : u[i] = After(RaiseStep(l, s, Len(s) - i), u[i - 1])

LEMMA SubtractionPath ==
  ASSUME NEW l, NEW s, SubtractionLayout(l, s), NEW c0, c0 < 0, NEW S \in SUBSET Qubits
  PROVE  \E t, u : /\ WentDown(t, l, s, S) /\ WentBack(u, l, s, t[Len(s)])
                   /\ After(Subtraction(l, s, c0), S) = u[Len(s) - 1]
<1> DEFINE n == Len(s)
           D == SubtractionQubits(l, s)
           downs == Downwards(l, s)
           backs == Backwards(l, s)
<1>1. n \in Nat /\ n >= 1 /\ D \in SUBSET Qubits /\ n - 1 \in Nat
  BY SubtractionWires
<1>2. /\ Subtraction(l, s, c0) = FlattenSeq(downs) \o FlattenSeq(backs)
      /\ downs \in [1 .. n -> Seq(GatesOn(D, D))] /\ backs \in [1 .. n - 1 -> Seq(GatesOn(D, D))]
  BY SubtractionParts
<1>3. \A i \in 1 .. n : downs[i] = LowerStep(l, s, i)
  BY DEF Downwards
<1>4. \A i \in 1 .. n - 1 : backs[i] = RaiseStep(l, s, n - i)
  BY DEF Backwards
<1> HIDE DEF n, D, downs, backs
<1>5. downs \in Seq(Seq(GatesOn(Qubits, Qubits))) /\ Len(downs) = n /\ FlattenSeq(downs) \in Seq(GatesOn(Qubits, Qubits))
  BY <1>1, <1>2, BlocksInRow
<1>6. backs \in Seq(Seq(GatesOn(Qubits, Qubits))) /\ Len(backs) = n - 1 /\ FlattenSeq(backs) \in Seq(GatesOn(Qubits, Qubits))
  <2> DEFINE m == n - 1
  <2>1. m \in Nat /\ backs \in [1 .. m -> Seq(GatesOn(D, D))]
    BY <1>1, <1>2
  <2> HIDE DEF m
  <2>2. backs \in Seq(Seq(GatesOn(Qubits, Qubits))) /\ Len(backs) = m /\ FlattenSeq(backs) \in Seq(GatesOn(Qubits, Qubits))
    BY <1>1, <2>1, BlocksInRow
  <2> QED BY <2>2 DEF m
<1>7. PICK t \in [0 .. n -> SUBSET Qubits] :
           /\ t[0] = S
           /\ \A i \in 1 .. n : t[i] = After(downs[i], t[i - 1])
           /\ After(FlattenSeq(downs), S) = t[n]
  BY <1>5, AfterEach
<1>8. t[n] \in SUBSET Qubits /\ \A i \in 1 .. n : t[i - 1] \in SUBSET Qubits
  BY <1>1, <1>7
<1>9. PICK u \in [0 .. n - 1 -> SUBSET Qubits] :
           /\ u[0] = t[n]
           /\ \A i \in 1 .. n - 1 : u[i] = After(backs[i], u[i - 1])
           /\ After(FlattenSeq(backs), t[n]) = u[n - 1]
  <2> DEFINE m == Len(backs)
  <2>1. m = n - 1
    BY <1>6
  <2>2. PICK u \in [0 .. m -> SUBSET Qubits] :
             /\ u[0] = t[n]
             /\ \A i \in 1 .. m : u[i] = After(backs[i], u[i - 1])
             /\ After(FlattenSeq(backs), t[n]) = u[m]
    BY <1>6, <1>8, AfterEach
  <2> HIDE DEF m
  <2> QED BY <2>1, <2>2
<1>10. WentDown(t, l, s, S)
  <2>1. ASSUME NEW i \in 1 .. n PROVE Lowered(l, s, i, t[i - 1], t[i])
    <3>1. t[i] = After(LowerStep(l, s, i), t[i - 1])
      BY <1>3, <1>7
    <3> QED BY <1>8, <3>1, LowerStepWorks DEF n
  <2> QED BY <1>7, <2>1 DEF WentDown, n
<1>11. WentBack(u, l, s, t[n])
  BY <1>4, <1>9 DEF WentBack, n
<1>12. After(Subtraction(l, s, c0), S) = u[n - 1]
  BY <1>2, <1>5, <1>6, <1>7, <1>9, AfterConcat
<1> QED BY <1>10, <1>11, <1>12 DEF n

LEMMA AllBorrowed ==
  ASSUME NEW l, NEW s, SubtractionLayout(l, s), NEW S \in SUBSET Qubits, NEW t, WentDown(t, l, s, S),
         NEW Cy, AreBorrows(Cy, s, l, S, Len(s))
  PROVE  \A i \in 0 .. Len(s) : Borrowed(l, s, Cy, S, i, t[i])
<1> DEFINE n == Len(s)
           I == {i \in Nat : i <= n => Borrowed(l, s, Cy, S, i, t[i])}
<1>1. n \in Nat /\ t[0] = S /\ \A i \in 1 .. n : Lowered(l, s, i, t[i - 1], t[i])
  BY SubtractionWires DEF WentDown
<1>2. 0 \in I
  <2>1. Cy[0] = FALSE
    BY DEF AreBorrows
  <2>2. Borrowed(l, s, Cy, S, 0, S)
    BY <2>1 DEF Borrowed
  <2> QED BY <1>1, <2>2
<1>3. ASSUME NEW j \in I, j < n PROVE j + 1 \in I
  <2> DEFINE i == j + 1
  <2>1. j \in Nat /\ j <= n /\ i \in 1 .. n /\ i - 1 = j /\ i \in Nat
    BY <1>1, <1>3
  <2>2. Borrowed(l, s, Cy, S, j, t[j])
    BY <2>1
  <2> HIDE DEF I, i
  <2>3. Borrowed(l, s, Cy, S, i - 1, t[j]) /\ Lowered(l, s, i, t[j], t[i]) /\ i \in 1 .. Len(s)
    BY <1>1, <2>1, <2>2 DEF n
  <2>4. Borrowed(l, s, Cy, S, i, t[i])
    BY <2>3, BorrowStep
  <2> QED BY <2>1, <2>4 DEF I, i
<1>4. 0 .. n \subseteq I
  <2>1. I \in SUBSET Nat
    OBVIOUS
  <2> HIDE DEF I
  <2> QED BY <1>1, <1>2, <1>3, <2>1, Induction
<1> QED BY <1>4 DEF n

LEMMA GivenBack ==
  ASSUME NEW l, NEW s, SubtractionLayout(l, s), NEW S \in SUBSET Qubits, NEW t, WentDown(t, l, s, S),
         NEW Cy, AreBorrows(Cy, s, l, S, Len(s)), NEW u, WentBack(u, l, s, t[Len(s)])
  PROVE  u[Len(s) - 1] = Mixed(s, S, t[Len(s)])
<1> DEFINE n == Len(s)
           F == t[n]
           I == {k \in Nat : k <= n - 1 => u[k] = Mixed(s, t[n - 1 - k], F)}
<1>1. /\ n \in Nat /\ n >= 1 /\ \A j \in 1 .. n : s[j] \in Qubits
      /\ \A i, j \in 1 .. n : s[i] # l[j]
  BY SubtractionWires
<1>2. t \in [0 .. n -> SUBSET Qubits] /\ t[0] = S /\ \A i \in 1 .. n : Lowered(l, s, i, t[i - 1], t[i])
  BY DEF WentDown
<1>3. u[0] = F /\ \A i \in 1 .. n - 1 : u[i] = After(RaiseStep(l, s, n - i), u[i - 1])
  BY DEF WentBack
<1>4. \A i \in 0 .. n : Borrowed(l, s, Cy, S, i, t[i])
  BY AllBorrowed
<1>s. AsSet(s) = {s[j] : j \in 1 .. n}
  BY <1>1, RegisterType DEF AsSet, SubtractionLayout
<1>5. F \in SUBSET Qubits /\ \A i \in 1 .. n : (l[i] \in F <=> l[i] \in t[i])
  <2>1. n \in 0 .. n
    BY <1>1
  <2>2. ASSUME NEW i \in 1 .. n PROVE l[i] \in F <=> l[i] \in t[i]
    <3>1. i \in 0 .. n /\ i \in 1 .. i
      BY <1>1
    <3>2. l[i] \in F <=> Odd(s[i] \in S, l[i] \in S, Cy[i - 1])
      BY <1>4, <2>1 DEF Borrowed
    <3>3. l[i] \in t[i] <=> Odd(s[i] \in S, l[i] \in S, Cy[i - 1])
      BY <1>4, <3>1 DEF Borrowed
    <3> QED BY <3>2, <3>3
  <2> QED BY <1>2, <2>1, <2>2
<1> HIDE DEF n
<1>6. 0 \in I
  <2>1. n \in 1 .. n /\ n - 1 \in 0 .. n /\ n - 1 - 0 = n - 1 /\ n + 1 .. n = {}
    BY <1>1
  <2>2. Lowered(l, s, n, t[n - 1], F)
    BY <1>2, <2>1
  <2>3. \A q \in Qubits : q # l[n] => (q \in F <=> q \in t[n - 1])
    BY <2>1, <2>2 DEF Lowered, n
  <2>4. l[n] \notin AsSet(s)
    BY <1>1, <1>s, <2>1
  <2> HIDE DEF F
  <2>5. F = Mixed(s, t[n - 1], F)
    BY <1>5, <2>3, <2>4 DEF Mixed
  <2> QED BY <1>3, <2>1, <2>5
<1>7. ASSUME NEW k \in I, k < n - 1 PROVE k + 1 \in I
  <2> DEFINE p == n - (k + 1)
  <2>1. k \in Nat /\ k <= n - 1 /\ k + 1 \in 1 .. n - 1 /\ (k + 1) - 1 = k
        /\ p \in 1 .. n - 1 /\ p \in 1 .. n /\ p \in 0 .. n /\ p - 1 \in 0 .. n
        /\ n - 1 - k = p /\ n - 1 - (k + 1) = p - 1 /\ k + 1 \in Nat
    BY <1>1, <1>7
  <2>2. u[k] = Mixed(s, t[p], F)
    BY <2>1
  <2>3. u[k + 1] = After(RaiseStep(l, s, p), u[k])
    BY <1>3, <2>1
  <2> HIDE DEF I, p, F
  <2>4. t[p - 1] \in SUBSET Qubits /\ t[p] \in SUBSET Qubits /\ Lowered(l, s, p, t[p - 1], t[p])
        /\ (l[p] \in F <=> l[p] \in t[p]) /\ F \in SUBSET Qubits
    BY <1>2, <1>5, <2>1
  <2>5. p \in 1 .. Len(s) - 1
    BY <2>1 DEF n
  <2>6. After(RaiseStep(l, s, p), Mixed(s, t[p], F)) = Mixed(s, t[p - 1], F)
    BY <2>4, <2>5, RaiseStepWorks
  <2>7. u[k + 1] = Mixed(s, t[n - 1 - (k + 1)], F)
    BY <2>1, <2>2, <2>3, <2>6
  <2> QED BY <2>1, <2>7 DEF I
<1>8. n - 1 \in I
  <2>1. I \in SUBSET Nat /\ n - 1 \in Nat
    BY <1>1
  <2> DEFINE m == n - 1
  <2>2. m \in Nat /\ I \in SUBSET Nat /\ 0 \in I /\ \A k \in I : k < m => k + 1 \in I
    BY <1>6, <1>7, <2>1
  <2> HIDE DEF I, m
  <2>3. 0 .. m \subseteq I
    BY <2>2, Induction
  <2> QED BY <2>2, <2>3 DEF m
<1>9. u[n - 1] = Mixed(s, t[n - 1 - (n - 1)], F)
  BY <1>1, <1>8
<1>10. n - 1 - (n - 1) = 0
  BY <1>1
<1> QED BY <1>2, <1>9, <1>10 DEF n, F

LEMMA SubtractionInPlace ==
  ASSUME NEW l, NEW s, SubtractionLayout(l, s), NEW c0, c0 < 0
  PROVE  LET c == Subtraction(l, s, c0)
             D == SubtractionQubits(l, s)
         IN  /\ D \in SUBSET Qubits /\ c \in Seq(GatesOn(D, D))
             /\ \A S \in SUBSET Qubits : After(c, S) = WithNumber(S, l, Number(l, S) - Number(s, S))
<1> DEFINE c == Subtraction(l, s, c0)
           D == SubtractionQubits(l, s)
           n == Len(s)
<1>1. /\ n \in Nat /\ n >= 1 /\ Len(l) = n /\ D \in SUBSET Qubits
      /\ \A j \in 1 .. n : l[j] \in Qubits /\ l[j] \in D
      /\ \A i, j \in 1 .. n : s[i] # l[j]
      /\ l \in Seq(Qubits) /\ s \in Seq(Qubits)
  BY SubtractionWires DEF SubtractionLayout
<1>2. AsSet(s) = {s[j] : j \in 1 .. n} /\ AsSet(l) = {l[j] : j \in 1 .. n} /\ D = AsSet(s) \cup AsSet(l)
  BY <1>1, RegisterType DEF AsSet, SubtractionQubits
<1>3. c \in Seq(GatesOn(D, D))
  <2> DEFINE downs == Downwards(l, s)
             backs == Backwards(l, s)
             m == n - 1
  <2>1. /\ c = FlattenSeq(downs) \o FlattenSeq(backs)
        /\ downs \in [1 .. n -> Seq(GatesOn(D, D))] /\ backs \in [1 .. m -> Seq(GatesOn(D, D))]
    BY SubtractionParts
  <2>2. m \in Nat
    BY <1>1
  <2> HIDE DEF c, D, n, m, downs, backs
  <2>3. FlattenSeq(downs) \in Seq(GatesOn(D, D)) /\ FlattenSeq(backs) \in Seq(GatesOn(D, D))
    BY <1>1, <2>1, <2>2, BlocksInRow
  <2> QED BY <2>1, <2>3, ConcatProperties
<1>4. ASSUME NEW S \in SUBSET Qubits
      PROVE  After(c, S) = WithNumber(S, l, Number(l, S) - Number(s, S))
  <2>1. PICK t, u : WentDown(t, l, s, S) /\ WentBack(u, l, s, t[n]) /\ After(c, S) = u[n - 1]
    BY SubtractionPath
  <2>2. PICK Cy : AreBorrows(Cy, s, l, S, n)
    BY <1>1, BorrowsExist
  <2> DEFINE T == t[n]
             R == Mixed(s, S, T)
  <2>3. After(c, S) = R
    BY <2>1, <2>2, GivenBack
  <2>4. Borrowed(l, s, Cy, S, n, T)
    <3>1. n \in 0 .. Len(s)
      BY <1>1
    <3> QED BY <2>1, <2>2, <3>1, AllBorrowed
  <2> HIDE DEF c, n, T, D
  <2>5. PICK fs : IsTail(fs, s, S) /\ Number(s, S) = fs[0]
    BY <1>1, NumberTail DEF n
  <2>6. PICK fl : IsTail(fl, l, S) /\ Number(l, S) = fl[0]
    BY <1>1, NumberTail
  <2> DEFINE N == fl[0] - fs[0]
             h == Halves(N, n)
  <2>7. N \in Int /\ N = Number(l, S) - Number(s, S)
    <3>1. 0 \in 0 .. n
      BY <1>1
    <3>2. fs[0] \in Nat /\ fl[0] \in Nat
      BY <1>1, <2>5, <2>6, <3>1 DEF IsTail, n
    <3> QED BY <2>5, <2>6, <3>2
  <2>8. IsHalved(h, N, n)
    BY <1>1, <2>7, HalvesAreHalved
  <2> HIDE DEF h
  <2>9. DifferenceDigits(s, l, Cy, S, h, n)
    <3>1. Differs(h, fs, fl, Cy, n)
      BY <1>1, <2>2, <2>5, <2>6, <2>8, DifferenceHalved DEF n
    <3> QED BY <1>1, <2>2, <2>5, <2>6, <3>1, DigitsOfDifference DEF n
  <2> HIDE DEF N
  <2>10. HoldsDigits(l, R, h)
    <3>1. ASSUME NEW j \in 1 .. n PROVE l[j] \in R <=> h[j - 1] % 2 = 1
      <4>1. l[j] \notin AsSet(s) /\ l[j] \in Qubits
        BY <1>1, <1>2
      <4>2. l[j] \in R <=> l[j] \in T
        BY <4>1 DEF Mixed
      <4>3. l[j] \in T <=> Odd(s[j] \in S, l[j] \in S, Cy[j - 1])
        BY <2>4 DEF Borrowed
      <4>4. h[j - 1] % 2 = 1 <=> Odd(s[j] \in S, l[j] \in S, Cy[j - 1])
        BY <2>9 DEF DifferenceDigits
      <4> QED BY <4>2, <4>3, <4>4
    <3> QED BY <1>1, <3>1 DEF HoldsDigits
  <2>11. AlikeOff(l, R, S)
    <3>1. ASSUME NEW q \in Qubits, q \notin AsSet(l) PROVE q \in R <=> q \in S
      <4>1. CASE q \in AsSet(s)
        BY <4>1 DEF Mixed
      <4>2. CASE q \notin AsSet(s)
        <5>1. q \in T <=> q \in S
          BY <1>2, <2>4, <3>1, <4>2 DEF Borrowed, D
        <5> QED BY <4>2, <5>1 DEF Mixed
      <4> QED BY <4>1, <4>2
    <3> QED BY <3>1 DEF AlikeOff
  <2>12. R \in SUBSET Qubits
    BY DEF Mixed
  <2> HIDE DEF R
  <2>13. R = WithNumber(S, l, N)
    BY <1>1, <2>7, <2>8, <2>10, <2>11, <2>12, NumberWritten
  <2> QED BY <2>3, <2>7, <2>13
<1> QED BY <1>1, <1>3, <1>4 DEF c, D

-----------------------------------------------------------------------------
(* Registers turned by the digits of others.                                 *)

Beside(a, b) ==
  a \in Seq(Qubits) /\ b \in Seq(Qubits) /\ Len(a) = Len(b) /\ Unrepeated(b) /\ Disjoint(a, b)
IsTurned(a, b, S, T) ==
  /\ \A j \in 1 .. Len(b) : b[j] \in T <=> ~ (b[j] \in S <=> a[j] \in S)
  /\ AlikeOff(b, T, S)
TurnedTo(a, b, S, i, T) ==
  /\ \A j \in 1 .. i : b[j] \in T <=> ~ (b[j] \in S <=> a[j] \in S)
  /\ \A j \in i + 1 .. Len(b) : b[j] \in T <=> b[j] \in S
  /\ AlikeOff(b, T, S)

LEMMA BesideQubits ==
  ASSUME NEW a, NEW b, Beside(a, b)
  PROVE  /\ Len(b) \in Nat /\ Len(a) = Len(b) /\ AsSet(a) \cup AsSet(b) \in SUBSET Qubits
         /\ \A i \in 1 .. Len(b) : /\ a[i] \in Qubits /\ a[i] \in AsSet(a) /\ a[i] \notin AsSet(b)
                                   /\ b[i] \in Qubits /\ b[i] \in AsSet(b)
         /\ \A i, j \in 1 .. Len(b) : b[i] = b[j] => i = j
<1>1. a \in Seq(Qubits) /\ b \in Seq(Qubits) /\ Len(a) = Len(b) /\ Unrepeated(b) /\ Disjoint(a, b)
  BY DEF Beside
<1>2. /\ Len(b) \in Nat /\ DOMAIN b = 1 .. Len(b) /\ AsSet(b) \in SUBSET Qubits
      /\ \A i \in 1 .. Len(b) : b[i] \in Qubits /\ b[i] \in AsSet(b)
  BY <1>1, RegisterType
<1>3. /\ AsSet(a) \in SUBSET Qubits
      /\ \A i \in 1 .. Len(b) : a[i] \in Qubits /\ a[i] \in AsSet(a)
  BY <1>1, RegisterType
<1>4. \A i \in 1 .. Len(b) : a[i] \notin AsSet(b)
  BY <1>1, <1>3 DEF Disjoint
<1>5. \A i, j \in 1 .. Len(b) : b[i] = b[j] => i = j
  BY <1>1, <1>2 DEF Unrepeated
<1> QED BY <1>1, <1>2, <1>3, <1>4, <1>5

LEMMA TurnStep ==
  ASSUME NEW a, NEW b, Beside(a, b), NEW i \in 1 .. Len(b), NEW S, NEW T, TurnedTo(a, b, S, i - 1, T),
         NEW R, R = IF a[i] \in T THEN Toggle(T, b[i]) ELSE T
  PROVE  TurnedTo(a, b, S, i, R)
<1>1. /\ Len(b) \in Nat /\ \A k \in 1 .. Len(b) : /\ a[k] \in Qubits /\ a[k] \notin AsSet(b)
                                                  /\ b[k] \in Qubits /\ b[k] \in AsSet(b)
      /\ \A k, j \in 1 .. Len(b) : b[k] = b[j] => k = j
  BY BesideQubits
<1>2. /\ \A j \in 1 .. i - 1 : b[j] \in T <=> ~ (b[j] \in S <=> a[j] \in S)
      /\ \A j \in (i - 1) + 1 .. Len(b) : b[j] \in T <=> b[j] \in S
      /\ \A q \in Qubits : q \notin AsSet(b) => (q \in T <=> q \in S)
  BY DEF TurnedTo, AlikeOff
<1>3. \A q : q # b[i] => (q \in R <=> q \in T)
  BY Toggled
<1>4. b[i] \in R <=> ~ (b[i] \in T <=> a[i] \in T)
  BY Toggled
<1>5. (a[i] \in T <=> a[i] \in S) /\ (b[i] \in T <=> b[i] \in S)
  BY <1>1, <1>2
<1>6. ASSUME NEW j \in 1 .. i PROVE b[j] \in R <=> ~ (b[j] \in S <=> a[j] \in S)
  <2>1. CASE j = i
    BY <1>4, <1>5, <2>1
  <2>2. CASE j # i
    <3>1. j \in 1 .. i - 1 /\ j \in 1 .. Len(b) /\ b[j] # b[i]
      BY <1>1, <2>2
    <3> QED BY <1>2, <1>3, <3>1
  <2> QED BY <2>1, <2>2
<1>7. ASSUME NEW j \in i + 1 .. Len(b) PROVE b[j] \in R <=> b[j] \in S
  <2>1. j \in (i - 1) + 1 .. Len(b) /\ j \in 1 .. Len(b) /\ j # i
    BY <1>1
  <2>2. b[j] # b[i]
    BY <1>1, <2>1
  <2> QED BY <1>2, <1>3, <2>1, <2>2
<1>8. AlikeOff(b, R, S)
  <2>1. ASSUME NEW q \in Qubits, q \notin AsSet(b) PROVE q \in R <=> q \in S
    <3>1. q # b[i]
      BY <1>1, <2>1
    <3> QED BY <1>2, <1>3, <2>1, <3>1
  <2> QED BY <2>1 DEF AlikeOff
<1> QED BY <1>6, <1>7, <1>8 DEF TurnedTo

LEMMA CXsParts ==
  ASSUME NEW a, NEW b, Beside(a, b)
  PROVE  LET D == AsSet(a) \cup AsSet(b)
             ss == [i \in 1 .. Len(b) |-> <<NotGate(b[i], {a[i]})>>]
         IN  /\ CXs(a, b) = FlattenSeq(ss)
             /\ ss \in [1 .. Len(b) -> Seq(GatesOn(D, D))]
<1> DEFINE n == Len(b)
           D == AsSet(a) \cup AsSet(b)
           ss == [i \in 1 .. n |-> <<NotGate(b[i], {a[i]})>>]
<1>1. n \in Nat /\ \A i \in 1 .. n : /\ a[i] \in D /\ b[i] \in D /\ a[i] # b[i]
  BY BesideQubits
<1>2. \A i \in 1 .. n : <<NotGate(b[i], {a[i]})>> \in Seq(GatesOn(D, D))
  <2>1. \A i \in 1 .. n : NotGate(b[i], {a[i]}) \in GatesOn(D, D)
    <3> HIDE DEF D
    <3>1. \A i \in 1 .. n : {a[i]} \in SUBSET D /\ b[i] \notin {a[i]} /\ b[i] \in D
      BY <1>1
    <3> QED BY <3>1, GateType
  <2> DEFINE G == GatesOn(D, D)
  <2>2. \A i \in 1 .. n : NotGate(b[i], {a[i]}) \in G
    BY <2>1
  <2> HIDE DEF D, G
  <2>3. \A i \in 1 .. n : <<NotGate(b[i], {a[i]})>> \in Seq(G)
    BY <2>2
  <2> QED BY <2>3 DEF G
<1>3. CXs(a, b) = FlattenSeq(ss)
  <2>1. n - 1 + 1 = n
    BY <1>1
  <2>2. CXs(a, b) = FlattenSeq([i \in 1 .. n - 1 + 1 |-> CX(a[1 + i - 1], b[1 + i - 1])])
    BY DEF CXs, Each
  <2>3. \A i \in 1 .. n : CX(a[1 + i - 1], b[1 + i - 1]) = <<NotGate(b[i], {a[i]})>>
    <3>1. \A i \in 1 .. n : 1 + i - 1 = i
      BY <1>1
    <3> QED BY <3>1, OneCX
  <2>4. [i \in 1 .. n |-> CX(a[1 + i - 1], b[1 + i - 1])] = ss
    BY <2>3
  <2> HIDE DEF ss, n
  <2> QED BY <2>1, <2>2, <2>4
<1>4. ss \in [1 .. n -> Seq(GatesOn(D, D))]
  <2> HIDE DEF n, D
  <2> QED BY <1>2
<1> QED BY <1>3, <1>4

LEMMA CXsTurn ==
  ASSUME NEW a, NEW b, Beside(a, b), NEW S \in SUBSET Qubits
  PROVE  After(CXs(a, b), S) \in SUBSET Qubits /\ IsTurned(a, b, S, After(CXs(a, b), S))
<1> DEFINE n == Len(b)
           D == AsSet(a) \cup AsSet(b)
           ss == [i \in 1 .. n |-> <<NotGate(b[i], {a[i]})>>]
<1>1. /\ n \in Nat /\ D \in SUBSET Qubits
      /\ \A i \in 1 .. n : a[i] \in Qubits /\ b[i] \in Qubits /\ a[i] # b[i]
  BY BesideQubits
<1>2. CXs(a, b) = FlattenSeq(ss) /\ ss \in [1 .. n -> Seq(GatesOn(D, D))]
  BY CXsParts
<1>3. ss \in Seq(Seq(GatesOn(Qubits, Qubits))) /\ Len(ss) = n
  <2> HIDE DEF ss, n, D
  <2> QED BY <1>1, <1>2, BlocksInRow
<1>4. \A i \in 1 .. n : ss[i] = <<NotGate(b[i], {a[i]})>>
  OBVIOUS
<1> HIDE DEF ss, n, D
<1>5. PICK t \in [0 .. n -> SUBSET Qubits] :
           /\ t[0] = S
           /\ \A i \in 1 .. n : t[i] = After(ss[i], t[i - 1])
           /\ After(FlattenSeq(ss), S) = t[n]
  BY <1>3, AfterEach
<1> DEFINE I == {i \in Nat : i <= n => TurnedTo(a, b, S, i, t[i])}
<1>6. 0 \in I
  <2>1. 1 .. 0 = {}
    OBVIOUS
  <2> QED BY <1>5, <2>1 DEF TurnedTo, AlikeOff
<1>7. ASSUME NEW i \in I, i < n PROVE i + 1 \in I
  <2> DEFINE k == i + 1
  <2>1. k \in 1 .. n /\ k - 1 = i /\ k - 1 \in 0 .. n /\ i <= n /\ k \in Nat
    BY <1>1, <1>7
  <2>2. TurnedTo(a, b, S, k - 1, t[k - 1])
    BY <2>1
  <2> HIDE DEF I, k
  <2>3. a[k] \in Qubits /\ b[k] \in Qubits /\ {a[k]} \in SUBSET Qubits /\ b[k] \notin {a[k]} /\ t[k - 1] \in SUBSET Qubits
    BY <1>1, <1>5, <2>1
  <2>4. t[k] = IF {a[k]} \subseteq t[k - 1] THEN Toggle(t[k - 1], b[k]) ELSE t[k - 1]
    <3>1. t[k] = After(<<NotGate(b[k], {a[k]})>>, t[k - 1])
      BY <1>4, <1>5, <2>1
    <3> DEFINE T == t[k - 1]
               K == {a[k]}
    <3>2. T \in SUBSET Qubits /\ K \in SUBSET Qubits /\ b[k] \notin K /\ b[k] \in Qubits
      BY <2>3
    <3>3. t[k] = After(<<NotGate(b[k], K)>>, T)
      BY <3>1
    <3> HIDE DEF T, K
    <3>4. t[k] = IF K \subseteq T THEN Toggle(T, b[k]) ELSE T
      BY <3>2, <3>3, AfterNot
    <3> QED BY <3>4 DEF T, K
  <2>5. t[k] = IF a[k] \in t[k - 1] THEN Toggle(t[k - 1], b[k]) ELSE t[k - 1]
    BY <2>4
  <2>6. k \in 1 .. Len(b)
    BY <2>1 DEF n
  <2>7. TurnedTo(a, b, S, k, t[k])
    BY <2>2, <2>5, <2>6, TurnStep
  <2> QED BY <2>1, <2>7 DEF I, k
<1>8. TurnedTo(a, b, S, n, t[n])
  <2>1. I \in SUBSET Nat
    OBVIOUS
  <2> HIDE DEF I
  <2>2. 0 .. n \subseteq I
    BY <1>1, <1>6, <1>7, <2>1, Induction
  <2> QED BY <1>1, <2>2 DEF I
<1>9. IsTurned(a, b, S, t[n])
  BY <1>8 DEF TurnedTo, IsTurned, n
<1> QED BY <1>1, <1>2, <1>5, <1>9

LEMMA CXsType ==
  ASSUME NEW a, NEW b, Beside(a, b)
  PROVE  LET D == AsSet(a) \cup AsSet(b)
         IN  D \in SUBSET Qubits /\ CXs(a, b) \in Seq(GatesOn(D, D)) /\ CXs(a, b) \in Seq(GatesOn(Qubits, Qubits))
<1> DEFINE n == Len(b)
           D == AsSet(a) \cup AsSet(b)
           ss == [i \in 1 .. n |-> <<NotGate(b[i], {a[i]})>>]
<1>1. n \in Nat /\ D \in SUBSET Qubits
  BY BesideQubits
<1>2. CXs(a, b) = FlattenSeq(ss) /\ ss \in [1 .. n -> Seq(GatesOn(D, D))]
  BY CXsParts
<1> HIDE DEF ss, n, D
<1>3. CXs(a, b) \in Seq(GatesOn(D, D)) /\ CXs(a, b) \in Seq(GatesOn(Qubits, Qubits))
  BY <1>1, <1>2, BlocksInRow
<1> QED BY <1>1, <1>3 DEF D

(* A number read digit by digit from one register and written to another.    *)
LEMMA TailIsHalved ==
  ASSUME NEW r \in Seq(Qubits), NEW S, NEW f, IsTail(f, r, S)
  PROVE  /\ IsHalved(f, f[0], Len(r)) /\ f[0] \in Int
         /\ \A j \in 1 .. Len(r) : f[j - 1] % 2 = 1 <=> r[j] \in S
<1> DEFINE n == Len(r)
<1>1. n \in Nat
  BY LenProperties
<1>2. f \in [0 .. n -> Nat] /\ \A j \in 1 .. n : f[j - 1] = 2 * f[j] + Bit(r[j], S)
  BY DEF IsTail
<1> HIDE DEF n
<1>3. ASSUME NEW j \in 1 .. n
      PROVE  f[j] = f[j - 1] \div 2 /\ (f[j - 1] % 2 = 1 <=> r[j] \in S)
  <2>1. f[j] \in Nat /\ f[j - 1] = 2 * f[j] + Bit(r[j], S)
    BY <1>1, <1>2
  <2>2. CASE r[j] \in S
    <3>1. f[j - 1] = 2 * f[j] + 1
      BY <2>1, <2>2 DEF Bit
    <3> QED BY <2>1, <2>2, <3>1
  <2>3. CASE r[j] \notin S
    <3>1. f[j - 1] = 2 * f[j]
      BY <2>1, <2>3 DEF Bit
    <3> QED BY <2>1, <2>3, <3>1
  <2> QED BY <2>2, <2>3
<1>4. f \in [0 .. n -> Int] /\ f[0] \in Int
  BY <1>1, <1>2
<1> QED BY <1>3, <1>4 DEF IsHalved, n

AlikeDigits(r, R, s, S) == \A j \in 1 .. Len(r) : r[j] \in R <=> s[j] \in S

LEMMA NumberCopied ==
  ASSUME NEW r \in Seq(Qubits), NEW s \in Seq(Qubits), Len(r) = Len(s), NEW S \in SUBSET Qubits,
         NEW R \in SUBSET Qubits, NEW V, AlikeDigits(r, R, s, V), AlikeOff(r, R, S)
  PROVE  R = WithNumber(S, r, Number(s, V))
<1>1. Len(s) \in Nat
  BY LenProperties
<1>2. PICK f : IsTail(f, s, V) /\ Number(s, V) = f[0]
  BY <1>1, NumberTail
<1> DEFINE N == f[0]
<1>3. IsHalved(f, N, Len(r)) /\ N \in Int /\ \A j \in 1 .. Len(r) : f[j - 1] % 2 = 1 <=> s[j] \in V
  BY <1>2, TailIsHalved
<1>4. HoldsDigits(r, R, f)
  BY <1>3 DEF HoldsDigits, AlikeDigits
<1> HIDE DEF N
<1>5. R = WithNumber(S, r, N)
  BY <1>3, <1>4, NumberWritten
<1> QED BY <1>2, <1>5 DEF N

LEMMA SameDigits ==
  ASSUME NEW r \in Seq(Qubits), NEW s \in Seq(Qubits), Len(r) = Len(s), NEW S
  PROVE  Number(r, S) = Number(s, S) <=> AlikeDigits(r, S, s, S)
<1> DEFINE n == Len(r)
<1>1. n \in Nat /\ Len(s) = n
  BY LenProperties
<1>2. PICK f : IsTail(f, r, S) /\ Number(r, S) = f[0]
  BY <1>1, NumberTail
<1>3. PICK g : IsTail(g, s, S) /\ Number(s, S) = g[0]
  BY <1>1, NumberTail
<1>4. ASSUME AlikeDigits(r, S, s, S) PROVE Number(r, S) = Number(s, S)
  <2>1. \A j \in 1 .. n : Bit(r[j], S) = Bit(s[j], S)
    BY <1>4 DEF AlikeDigits, Bit
  <2>2. IsTail(f, s, S)
    BY <1>1, <1>2, <2>1 DEF IsTail
  <2> QED BY <1>1, <1>2, <2>2, TailIsNumber
<1>5. ASSUME Number(r, S) = Number(s, S) PROVE AlikeDigits(r, S, s, S)
  <2>1. IsHalved(f, f[0], n) /\ \A j \in 1 .. n : f[j - 1] % 2 = 1 <=> r[j] \in S
    BY <1>2, TailIsHalved
  <2>2. IsHalved(g, f[0], n) /\ \A j \in 1 .. n : g[j - 1] % 2 = 1 <=> s[j] \in S
    BY <1>1, <1>2, <1>3, <1>5, TailIsHalved
  <2> HIDE DEF n
  <2>3. \A j \in 0 .. n : f[j] = g[j]
    BY <1>1, <2>1, <2>2, SameHalves
  <2>4. \A j \in 1 .. n : r[j] \in S <=> s[j] \in S
    BY <1>1, <2>1, <2>2, <2>3
  <2> QED BY <2>4 DEF AlikeDigits, n
<1> QED BY <1>4, <1>5

-----------------------------------------------------------------------------
(* Swaps.                                                                    *)

SwapLayout(a, b) == Beside(a, b) /\ Unrepeated(a)
SwapQubits(a, b) == AsSet(a) \cup AsSet(b)
Swap(a, b) == CXs(a, b) \o CXs(b, a) \o CXs(a, b)

LEMMA SwapBothWays == ASSUME NEW a, NEW b, SwapLayout(a, b) PROVE Beside(a, b) /\ Beside(b, a)
BY DEF SwapLayout, Beside, Disjoint

LEMMA SwapType ==
  ASSUME NEW a, NEW b, SwapLayout(a, b)
  PROVE  SwapQubits(a, b) \in SUBSET Qubits /\ Swap(a, b) \in Seq(GatesOn(SwapQubits(a, b), SwapQubits(a, b)))
<1> DEFINE D == SwapQubits(a, b)
           G == GatesOn(D, D)
<1>1. Beside(a, b) /\ Beside(b, a)
  BY SwapBothWays
<1>2. AsSet(a) \cup AsSet(b) = D /\ AsSet(b) \cup AsSet(a) = D
  BY DEF SwapQubits
<1>3. D \in SUBSET Qubits /\ CXs(a, b) \in Seq(G) /\ CXs(b, a) \in Seq(G)
  BY <1>1, <1>2, CXsType
<1> HIDE DEF D, G
<1>4. Swap(a, b) \in Seq(G)
  BY <1>3, ConcatProperties DEF Swap
<1> QED BY <1>3, <1>4 DEF D, G

LEMMA SwapDigits ==
  ASSUME NEW a, NEW b, SwapLayout(a, b), NEW S \in SUBSET Qubits
  PROVE  /\ After(Swap(a, b), S) \in SUBSET Qubits
         /\ AlikeDigits(a, After(Swap(a, b), S), b, S) /\ AlikeDigits(b, After(Swap(a, b), S), a, S)
         /\ \A q \in Qubits : q \notin SwapQubits(a, b) => (q \in After(Swap(a, b), S) <=> q \in S)
<1> DEFINE c == CXs(a, b)
           d == CXs(b, a)
           n == Len(b)
           T == After(c, S)
           U == After(d, T)
           R == After(c, U)
<1>1. Beside(a, b) /\ Beside(b, a)
  BY SwapBothWays
<1>2. c \in Seq(GatesOn(Qubits, Qubits)) /\ d \in Seq(GatesOn(Qubits, Qubits))
  BY <1>1, CXsType
<1>3. T \in SUBSET Qubits /\ IsTurned(a, b, S, T)
  BY <1>1, CXsTurn
<1>4. U \in SUBSET Qubits /\ IsTurned(b, a, T, U)
  <2> HIDE DEF T
  <2> QED BY <1>1, <1>3, CXsTurn
<1>5. R \in SUBSET Qubits /\ IsTurned(a, b, U, R)
  <2> HIDE DEF U
  <2> QED BY <1>1, <1>4, CXsTurn
<1>6. After(Swap(a, b), S) = R
  <2> HIDE DEF c, d
  <2> DEFINE e == c \o d
  <2>1. e \in Seq(GatesOn(Qubits, Qubits))
    BY <1>2, ConcatProperties
  <2>2. After(e, S) = U
    BY <1>2, AfterConcat
  <2> HIDE DEF e
  <2>3. After(e \o c, S) = After(c, After(e, S))
    BY <1>2, <2>1, AfterConcat
  <2>4. After(e \o c, S) = R
    BY <2>2, <2>3
  <2>5. Swap(a, b) = e \o c
    BY DEF Swap, c, d, e
  <2> QED BY <2>4, <2>5
<1> HIDE DEF T, U, R, c, d
<1>7. /\ n \in Nat /\ Len(a) = n
      /\ \A j \in 1 .. n : /\ a[j] \in Qubits /\ a[j] \in AsSet(a) /\ a[j] \notin AsSet(b)
                           /\ b[j] \in Qubits /\ b[j] \in AsSet(b) /\ b[j] \notin AsSet(a)
  <2>1. /\ n \in Nat /\ Len(a) = n
        /\ \A j \in 1 .. n : /\ a[j] \in Qubits /\ a[j] \in AsSet(a) /\ a[j] \notin AsSet(b)
                             /\ b[j] \in Qubits /\ b[j] \in AsSet(b)
    BY <1>1, BesideQubits
  <2>2. \A j \in 1 .. n : b[j] \notin AsSet(a)
    BY <1>1, <2>1, BesideQubits
  <2> QED BY <2>1, <2>2
<1> HIDE DEF n
<1>8. ASSUME NEW j \in 1 .. n PROVE (a[j] \in R <=> b[j] \in S) /\ (b[j] \in R <=> a[j] \in S)
  <2>1. (b[j] \in T <=> ~ (b[j] \in S <=> a[j] \in S)) /\ (a[j] \in T <=> a[j] \in S)
    BY <1>3, <1>7 DEF IsTurned, AlikeOff, n
  <2>2. (a[j] \in U <=> ~ (a[j] \in T <=> b[j] \in T)) /\ (b[j] \in U <=> b[j] \in T)
    BY <1>4, <1>7 DEF IsTurned, AlikeOff, n
  <2>3. (b[j] \in R <=> ~ (b[j] \in U <=> a[j] \in U)) /\ (a[j] \in R <=> a[j] \in U)
    BY <1>5, <1>7 DEF IsTurned, AlikeOff, n
  <2> QED BY <2>1, <2>2, <2>3
<1>9. \A q \in Qubits : q \notin SwapQubits(a, b) => (q \in R <=> q \in S)
  BY <1>3, <1>4, <1>5 DEF IsTurned, AlikeOff, SwapQubits
<1>10. AlikeDigits(a, R, b, S) /\ AlikeDigits(b, R, a, S)
  BY <1>7, <1>8 DEF AlikeDigits, n
<1> QED BY <1>5, <1>6, <1>9, <1>10

LEMMA SwapSwaps ==
  ASSUME NEW a, NEW b, SwapLayout(a, b), NEW S \in SUBSET Qubits
  PROVE  After(Swap(a, b), S) = WithNumber(WithNumber(S, a, Number(b, S)), b, Number(a, S))
<1> DEFINE R == After(Swap(a, b), S)
           M == Mixed(a, R, S)
<1>1. a \in Seq(Qubits) /\ b \in Seq(Qubits) /\ Len(a) = Len(b)
  BY DEF SwapLayout, Beside
<1>2. /\ R \in SUBSET Qubits
      /\ AlikeDigits(a, R, b, S) /\ AlikeDigits(b, R, a, S)
      /\ \A q \in Qubits : q \notin SwapQubits(a, b) => (q \in R <=> q \in S)
  BY SwapDigits
<1> HIDE DEF R
<1>3. M \in SUBSET Qubits /\ \A q \in Qubits : q \in M <=> IF q \in AsSet(a) THEN q \in R ELSE q \in S
  BY DEF Mixed
<1>4. \A j \in 1 .. Len(a) : a[j] \in Qubits /\ a[j] \in AsSet(a)
  BY <1>1, RegisterType
<1> HIDE DEF M
<1>5. AlikeDigits(a, M, b, S)
  BY <1>2, <1>3, <1>4 DEF AlikeDigits
<1>6. AlikeOff(a, M, S)
  BY <1>3 DEF AlikeOff
<1>7. M = WithNumber(S, a, Number(b, S))
  BY <1>1, <1>3, <1>5, <1>6, NumberCopied
<1>8. AlikeOff(b, R, M)
  BY <1>2, <1>3 DEF AlikeOff, SwapQubits
<1>9. R = WithNumber(M, b, Number(a, S))
  BY <1>1, <1>2, <1>3, <1>8, NumberCopied
<1> QED BY <1>7, <1>9 DEF R

-----------------------------------------------------------------------------
(* Equality: the digits of b that differ from those of a are 1 once a has    *)
(* turned b, and flag is flipped where none are.                             *)

EqualityLayout(a, b, flag) ==
  Beside(a, b) /\ flag \in Qubits /\ flag \notin AsSet(a) \cup AsSet(b)
EqualityOf(a, b, flip) == CXs(a, b) \o Between(b, flip) \o CXs(a, b)

(* What flip is to do to flag, as long as the qubits of Z are 0.             *)
FlipsWhere(flip, flag, K, Z) ==
  /\ flip \in Seq(GatesOn(Qubits, Qubits))
  /\ \A T \in SUBSET Qubits : T \cap Z = {} => After(flip, T) = IF K \subseteq T THEN Toggle(T, flag) ELSE T

LEMMA FlippedBetween ==
  ASSUME NEW a, NEW b, NEW flag, EqualityLayout(a, b, flag), NEW Z, Z \cap AsSet(b) = {},
         NEW flip, FlipsWhere(flip, flag, AsSet(b), Z), NEW T \in SUBSET Qubits, T \cap Z = {}
  PROVE  LET R == After(Between(b, flip), T)
             none == \A j \in 1 .. Len(b) : b[j] \notin T
         IN  /\ R \in SUBSET Qubits
             /\ \A q \in Qubits : q # flag => (q \in R <=> q \in T)
             /\ flag \in R <=> (flag \in T <=> ~ none)
<1> DEFINE B == AsSet(b)
           C == Complemented(T, B)
           V == After(flip, C)
           R == After(Between(b, flip), T)
           none == \A j \in 1 .. Len(b) : b[j] \notin T
<1>1. Beside(a, b) /\ flag \in Qubits /\ flag \notin B
  BY DEF EqualityLayout
<1>2. b \in Seq(Qubits) /\ Unrepeated(b)
  BY <1>1 DEF Beside
<1>3. B \in SUBSET Qubits /\ B = {b[j] : j \in 1 .. Len(b)}
  BY <1>2, RegisterType DEF AsSet
<1>4. flip \in Seq(GatesOn(Qubits, Qubits))
  BY DEF FlipsWhere
<1>5. C \in SUBSET Qubits /\ R = Complemented(V, B)
  BY <1>2, <1>4, AfterBetween
<1>6. \A q : q \in C <=> IF q \in B THEN q \notin T ELSE q \in T
  BY DEF Complemented
<1>7. C \cap Z = {}
  BY <1>6
<1> HIDE DEF C, B
<1>8. V = IF B \subseteq C THEN Toggle(C, flag) ELSE C
  BY <1>5, <1>7 DEF FlipsWhere, B
<1>9. B \subseteq C <=> none
  BY <1>3, <1>6
<1> HIDE DEF V, none
<1>10. \A q : q \in Complemented(V, B) <=> IF q \in B THEN q \notin V ELSE q \in V
  BY DEF Complemented
<1>11. \A q : q \in V <=> IF q = flag /\ none THEN q \notin C ELSE q \in C
  <2>1. CASE none
    BY <1>8, <1>9, <2>1, Toggled
  <2>2. CASE ~ none
    BY <1>8, <1>9, <2>2
  <2> QED BY <2>1, <2>2
<1> HIDE DEF R
<1>12. V \in SUBSET Qubits
  <2>1. CASE none
    BY <1>1, <1>5, <1>8, <1>9, <2>1 DEF Toggle
  <2>2. CASE ~ none
    BY <1>5, <1>8, <1>9, <2>2
  <2> QED BY <2>1, <2>2
<1>13. R \in SUBSET Qubits
  BY <1>3, <1>5, <1>12 DEF Complemented
<1>14. \A q \in Qubits : q # flag => (q \in R <=> q \in T)
  BY <1>5, <1>6, <1>10, <1>11
<1>15. flag \in R <=> (flag \in T <=> ~ none)
  <2>1. flag \in R <=> flag \in V
    BY <1>1, <1>5, <1>10
  <2>2. flag \in V <=> IF none THEN flag \notin C ELSE flag \in C
    BY <1>11
  <2>3. flag \in C <=> flag \in T
    BY <1>1, <1>6
  <2>4. none \in BOOLEAN
    BY DEF none
  <2> QED BY <2>1, <2>2, <2>3, <2>4
<1> QED BY <1>13, <1>14, <1>15 DEF R, none

LEMMA EqualityChecks ==
  ASSUME NEW a, NEW b, NEW flag, EqualityLayout(a, b, flag), NEW Z, Z \cap AsSet(b) = {},
         NEW flip, FlipsWhere(flip, flag, AsSet(b), Z), NEW S \in SUBSET Qubits, S \cap Z = {}
  PROVE  After(EqualityOf(a, b, flip), S) = Flip(S, flag, Number(a, S) = Number(b, S))
<1> DEFINE c == CXs(a, b)
           m == Between(b, flip)
           n == Len(b)
           T == After(c, S)
           U == After(m, T)
           R == After(c, U)
           same == Number(a, S) = Number(b, S)
           F == Flip(S, flag, same)
<1>1. Beside(a, b) /\ flag \in Qubits /\ flag \notin AsSet(a) \cup AsSet(b)
  BY DEF EqualityLayout
<1>2. a \in Seq(Qubits) /\ b \in Seq(Qubits) /\ Len(a) = Len(b) /\ Unrepeated(b)
  BY <1>1 DEF Beside
<1>3. /\ n \in Nat
      /\ \A j \in 1 .. n : /\ a[j] \in Qubits /\ a[j] \in AsSet(a) /\ a[j] \notin AsSet(b)
                           /\ b[j] \in Qubits /\ b[j] \in AsSet(b)
  BY <1>1, BesideQubits
<1>4. c \in Seq(GatesOn(Qubits, Qubits))
  BY <1>1, CXsType
<1>5. m \in Seq(GatesOn(Qubits, Qubits))
  <2> DEFINE Q == Qubits
  <2>1. flip \in Seq(GatesOn(Q, Q)) /\ Q \in SUBSET Qubits
    BY DEF FlipsWhere
  <2>2. AsSet(b) \in SUBSET Qubits
    BY <1>2, RegisterType
  <2>3. Q \cup AsSet(b) = Qubits
    BY <2>2
  <2> HIDE DEF Q
  <2>4. m \in Seq(GatesOn(Q \cup AsSet(b), Q))
    BY <1>2, <2>1, BetweenType
  <2> QED BY <2>3, <2>4 DEF Q
<1>6. T \in SUBSET Qubits /\ IsTurned(a, b, S, T)
  BY <1>1, CXsTurn
<1>7. same <=> \A j \in 1 .. n : a[j] \in S <=> b[j] \in S
  BY <1>2, SameDigits DEF AlikeDigits
<1> HIDE DEF T, c, same
<1>8. T \cap Z = {}
  BY <1>6 DEF IsTurned, AlikeOff
<1>9. (\A j \in 1 .. n : b[j] \notin T) <=> same
  BY <1>6, <1>7 DEF IsTurned
<1>10. /\ U \in SUBSET Qubits
       /\ \A q \in Qubits : q # flag => (q \in U <=> q \in T)
       /\ flag \in U <=> (flag \in T <=> ~ same)
  <2> DEFINE none == \A j \in 1 .. Len(b) : b[j] \notin T
  <2>1. /\ U \in SUBSET Qubits
        /\ \A q \in Qubits : q # flag => (q \in U <=> q \in T)
        /\ flag \in U <=> (flag \in T <=> ~ none)
    BY <1>6, <1>8, FlippedBetween
  <2>2. none <=> same
    BY <1>9
  <2> HIDE DEF none, U
  <2> QED BY <2>1, <2>2
<1> HIDE DEF m, U
<1>11. R \in SUBSET Qubits /\ IsTurned(a, b, U, R)
  BY <1>1, <1>10, CXsTurn DEF c
<1> HIDE DEF R, n
<1>12. After(EqualityOf(a, b, flip), S) = R
  <2> DEFINE e == c \o m
  <2>1. e \in Seq(GatesOn(Qubits, Qubits))
    BY <1>4, <1>5, ConcatProperties
  <2>2. After(e, S) = U
    BY <1>4, <1>5, AfterConcat DEF T, U
  <2>3. EqualityOf(a, b, flip) = e \o c
    BY DEF EqualityOf, c, m
  <2> HIDE DEF e
  <2>4. After(e \o c, S) = After(c, After(e, S))
    BY <1>4, <2>1, AfterConcat
  <2> QED BY <2>2, <2>3, <2>4 DEF R
<1>13. \A q : q \in F <=> IF q = flag /\ same THEN q \notin S ELSE q \in S
  <2>1. CASE same
    BY <2>1, Toggled DEF Flip
  <2>2. CASE ~ same
    BY <2>2 DEF Flip
  <2> QED BY <2>1, <2>2
<1>14. F \in SUBSET Qubits
  BY <1>1 DEF Flip, Toggle
<1> HIDE DEF F
<1>15. ASSUME NEW q \in Qubits PROVE q \in R <=> q \in F
  <2>1. CASE q = flag
    <3>1. (flag \in T <=> flag \in S) /\ (flag \in R <=> flag \in U)
      BY <1>1, <1>6, <1>11 DEF IsTurned, AlikeOff
    <3>2. flag \in F <=> IF same THEN flag \notin S ELSE flag \in S
      BY <1>13
    <3>3. same \in BOOLEAN
      BY DEF same
    <3> QED BY <1>10, <2>1, <3>1, <3>2, <3>3
  <2>2. CASE q # flag /\ q \notin AsSet(b)
    <3>1. (q \in T <=> q \in S) /\ (q \in R <=> q \in U)
      BY <1>6, <1>11, <2>2 DEF IsTurned, AlikeOff
    <3> QED BY <1>10, <1>13, <2>2, <3>1
  <2>3. CASE q # flag /\ q \in AsSet(b)
    <3>1. PICK j \in 1 .. n : q = b[j]
      BY <1>2, <1>3, <2>3, RegisterType DEF AsSet, n
    <3>2. a[j] # flag /\ a[j] \in Qubits /\ a[j] \notin AsSet(b)
      BY <1>1, <1>3
    <3>3. (b[j] \in T <=> ~ (b[j] \in S <=> a[j] \in S)) /\ (a[j] \in T <=> a[j] \in S)
      BY <1>6, <3>1, <3>2 DEF IsTurned, AlikeOff, n
    <3>4. b[j] \in R <=> ~ (b[j] \in U <=> a[j] \in U)
      BY <1>11 DEF IsTurned, n
    <3>5. (b[j] \in U <=> b[j] \in T) /\ (a[j] \in U <=> a[j] \in T)
      BY <1>10, <2>3, <3>1, <3>2
    <3>6. b[j] \in F <=> b[j] \in S
      BY <1>13, <2>3, <3>1
    <3> QED BY <3>1, <3>3, <3>4, <3>5, <3>6
  <2> QED BY <2>1, <2>2, <2>3
<1>16. R = F
  BY <1>11, <1>14, <1>15
<1> QED BY <1>12, <1>16 DEF F, same

-----------------------------------------------------------------------------
(* A ladder of ancillas: ancilla i is 1 where the first i + 1 controls are;  *)
(* the last one lets u run, and the way back clears them.                    *)

LadderLayout(c, z) ==
  /\ c \in Seq(Qubits) /\ z \in Seq(Qubits) /\ Len(c) >= 2 /\ Len(z) = Len(c) - 1
  /\ Unrepeated(z) /\ Disjoint(c, z)
LadderQubits(c, z) == AsSet(c) \cup AsSet(z)
RungControls(c, z, i) == IF i = 1 THEN {c[1], c[2]} ELSE {c[i + 1], z[i - 1]}
Rung(c, z, i) == <<NotGate(z[i], RungControls(c, z, i))>>

LEMMA LadderWires ==
  ASSUME NEW c, NEW z, LadderLayout(c, z)
  PROVE  /\ Len(z) \in Nat /\ Len(z) >= 1 /\ Len(c) = Len(z) + 1 /\ LadderQubits(c, z) \in SUBSET Qubits
         /\ AsSet(c) = {c[i] : i \in 1 .. Len(z) + 1}
         /\ \A i \in 1 .. Len(z) + 1 : c[i] \in Qubits /\ c[i] \in LadderQubits(c, z) /\ c[i] \notin AsSet(z)
         /\ \A i \in 1 .. Len(z) : z[i] \in Qubits /\ z[i] \in LadderQubits(c, z) /\ z[i] \in AsSet(z)
         /\ \A i, j \in 1 .. Len(z) : z[i] = z[j] => i = j
<1>1. /\ c \in Seq(Qubits) /\ z \in Seq(Qubits) /\ Len(c) >= 2 /\ Len(z) = Len(c) - 1
      /\ Unrepeated(z) /\ Disjoint(c, z)
  BY DEF LadderLayout
<1>2. /\ Len(c) \in Nat /\ DOMAIN c = 1 .. Len(c) /\ AsSet(c) \in SUBSET Qubits
      /\ \A i \in 1 .. Len(c) : c[i] \in Qubits /\ c[i] \in AsSet(c)
  BY <1>1, RegisterType
<1>3. /\ Len(z) \in Nat /\ DOMAIN z = 1 .. Len(z) /\ AsSet(z) \in SUBSET Qubits
      /\ \A i \in 1 .. Len(z) : z[i] \in Qubits /\ z[i] \in AsSet(z)
  BY <1>1, RegisterType
<1>4. Len(c) = Len(z) + 1 /\ Len(z) >= 1
  BY <1>1, <1>2, <1>3
<1>5. AsSet(c) = {c[i] : i \in 1 .. Len(z) + 1}
  BY <1>2, <1>4 DEF AsSet
<1>6. \A i \in 1 .. Len(z) + 1 : c[i] \in Qubits /\ c[i] \in LadderQubits(c, z) /\ c[i] \notin AsSet(z)
  BY <1>1, <1>2, <1>4 DEF LadderQubits, Disjoint
<1>7. \A i \in 1 .. Len(z) : z[i] \in LadderQubits(c, z)
  BY <1>3 DEF LadderQubits
<1>8. \A i, j \in 1 .. Len(z) : z[i] = z[j] => i = j
  BY <1>1, <1>3 DEF Unrepeated
<1>9. LadderQubits(c, z) \in SUBSET Qubits
  BY <1>2, <1>3 DEF LadderQubits
<1> QED BY <1>3, <1>4, <1>5, <1>6, <1>7, <1>8, <1>9

LEMMA RungActs ==
  ASSUME NEW c, NEW z, LadderLayout(c, z), NEW i \in 1 .. Len(z)
  PROVE  LET D == LadderQubits(c, z)
             K == RungControls(c, z, i)
         IN  /\ K \in SUBSET D /\ K \in SUBSET Qubits /\ z[i] \notin K /\ z[i] \in D
             /\ Rung(c, z, i) \in Seq(GatesOn(D, D))
             /\ Rung(c, z, i) \in Seq(GatesOn(Qubits, Qubits))
             /\ \A T \in SUBSET Qubits : After(Rung(c, z, i), T) = IF K \subseteq T THEN Toggle(T, z[i]) ELSE T
<1> DEFINE D == LadderQubits(c, z)
           K == RungControls(c, z, i)
           q == z[i]
           g == Rung(c, z, i)
<1>1. /\ Len(z) \in Nat /\ D \in SUBSET Qubits
      /\ \A j \in 1 .. Len(z) + 1 : c[j] \in Qubits /\ c[j] \in D /\ c[j] \notin AsSet(z)
      /\ \A j \in 1 .. Len(z) : z[j] \in Qubits /\ z[j] \in D /\ z[j] \in AsSet(z)
      /\ \A j, k \in 1 .. Len(z) : z[j] = z[k] => j = k
  BY LadderWires
<1> HIDE DEF D
<1>2. K \in SUBSET D /\ q \notin K /\ q \in D /\ q \in Qubits
  <2>1. CASE i = 1
    <3>1. 1 \in 1 .. Len(z) + 1 /\ 2 \in 1 .. Len(z) + 1
      BY <1>1
    <3>2. c[1] \in D /\ c[2] \in D /\ c[1] # q /\ c[2] # q
      BY <1>1, <3>1
    <3>3. K = {c[1], c[2]}
      BY <2>1 DEF RungControls
    <3> QED BY <1>1, <3>2, <3>3
  <2>2. CASE i # 1
    <3>1. i + 1 \in 1 .. Len(z) + 1 /\ i - 1 \in 1 .. Len(z) /\ i - 1 # i
      BY <1>1, <2>2
    <3>2. c[i + 1] \in D /\ z[i - 1] \in D /\ c[i + 1] # q /\ z[i - 1] # q
      BY <1>1, <3>1
    <3>3. K = {c[i + 1], z[i - 1]}
      BY <2>2 DEF RungControls
    <3> QED BY <1>1, <3>2, <3>3
  <2> QED BY <2>1, <2>2
<1>3. g = <<NotGate(q, K)>>
  BY DEF Rung
<1> HIDE DEF K, q, g
<1>4. K \in SUBSET Qubits
  BY <1>1, <1>2
<1>5. /\ g \in Seq(GatesOn(Qubits, Qubits))
      /\ \A T \in SUBSET Qubits : After(g, T) = IF K \subseteq T THEN Toggle(T, q) ELSE T
  BY <1>2, <1>3, <1>4, AfterNot
<1>6. g \in Seq(GatesOn(D, D))
  <2> DEFINE G == GatesOn(D, D)
  <2>1. NotGate(q, K) \in G
    BY <1>2, GateType
  <2> HIDE DEF G
  <2>2. <<NotGate(q, K)>> \in Seq(G)
    BY <2>1
  <2> QED BY <1>3, <2>2 DEF G
<1> QED BY <1>2, <1>4, <1>5, <1>6 DEF D, K, q, g

(* Up the ladder and down again. *)
WentUp(t, c, z, S) ==
  /\ t \in [0 .. Len(z) -> SUBSET Qubits] /\ t[0] = S
  /\ \A i \in 1 .. Len(z) : t[i] = After(Rung(c, z, i), t[i - 1])
CameDown(d, c, z, T) ==
  /\ d \in [0 .. Len(z) -> SUBSET Qubits] /\ d[0] = T
  /\ \A i \in 1 .. Len(z) : d[i] = After(Rung(c, z, Len(z) - i + 1), d[i - 1])

(* The controls above the first two, with the rungs they are on. *)
Upper(c, z) == [i \in 1 .. Len(z) - 1 |-> Rung(c, z, i + 1)]
UpperBack(c, z) == [i \in 1 .. Len(z) - 1 |-> Rung(c, z, Len(z) - i + 1)]

LEMMA LadderParts ==
  ASSUME NEW c, NEW z, LadderLayout(c, z), NEW u
  PROVE  LET first == Rung(c, z, 1)
         IN  /\ MultiControlledUWithAncilla(c, z, u) =
                  first \o FlattenSeq(Upper(c, z)) \o CU(u, {z[Len(z)]}) \o FlattenSeq(UpperBack(c, z)) \o first
             /\ Upper(c, z) \in [1 .. Len(z) - 1 -> Seq(GatesOn(LadderQubits(c, z), LadderQubits(c, z)))]
             /\ UpperBack(c, z) \in [1 .. Len(z) - 1 -> Seq(GatesOn(LadderQubits(c, z), LadderQubits(c, z)))]
<1> DEFINE m == Len(z)
           n == Len(c)
           toffoli(p, q, target) == CU(X(target), {p, q})
           next(i) == toffoli(c[i], z[i - 2], z[i - 1])
           first == Rung(c, z, 1)
           D == LadderQubits(c, z)
<1>1. m \in Nat /\ m >= 1 /\ n = m + 1
  BY LadderWires
<1>2. toffoli(c[1], c[2], z[1]) = first
  BY OneControlled DEF Rung, RungControls
<1>3. \A i \in 2 .. m : next(i + 1) = Rung(c, z, i)
  <2>1. ASSUME NEW i \in 2 .. m PROVE next(i + 1) = Rung(c, z, i)
    <3>1. (i + 1) - 2 = i - 1 /\ (i + 1) - 1 = i /\ i # 1
      BY <1>1
    <3>2. next(i + 1) = CU(X(z[i]), {c[i + 1], z[i - 1]})
      BY <3>1
    <3>3. Rung(c, z, i) = <<NotGate(z[i], {c[i + 1], z[i - 1]})>>
      BY <3>1 DEF Rung, RungControls
    <3> QED BY <3>2, <3>3, OneControlled
  <2> QED BY <2>1
<1>4. Each(3, n, next) = FlattenSeq(Upper(c, z))
  <2>1. n - 3 + 1 = m - 1
    BY <1>1
  <2>2. Each(3, n, next) = FlattenSeq([i \in 1 .. n - 3 + 1 |-> next(3 + i - 1)])
    BY DEF Each
  <2>3. \A i \in 1 .. m - 1 : next(3 + i - 1) = Rung(c, z, i + 1)
    <3>1. \A i \in 1 .. m - 1 : 3 + i - 1 = (i + 1) + 1 /\ i + 1 \in 2 .. m
      BY <1>1
    <3> HIDE DEF next
    <3> QED BY <1>3, <3>1
  <2>4. [i \in 1 .. m - 1 |-> next(3 + i - 1)] = Upper(c, z)
    <3> HIDE DEF next
    <3> QED BY <2>3 DEF Upper
  <2> HIDE DEF next, m, n
  <2> QED BY <2>1, <2>2, <2>4
<1>5. EachDown(n, 3, next) = FlattenSeq(UpperBack(c, z))
  <2>1. n - 3 + 1 = m - 1
    BY <1>1
  <2>2. EachDown(n, 3, next) = FlattenSeq([i \in 1 .. n - 3 + 1 |-> next(n - i + 1)])
    BY DEF EachDown
  <2>3. \A i \in 1 .. m - 1 : next(n - i + 1) = Rung(c, z, m - i + 1)
    <3>1. \A i \in 1 .. m - 1 : n - i + 1 = (m - i + 1) + 1 /\ m - i + 1 \in 2 .. m
      BY <1>1
    <3> HIDE DEF next
    <3> QED BY <1>3, <3>1
  <2>4. [i \in 1 .. m - 1 |-> next(n - i + 1)] = UpperBack(c, z)
    <3> HIDE DEF next
    <3> QED BY <2>3 DEF UpperBack
  <2> HIDE DEF next, m, n
  <2> QED BY <2>1, <2>2, <2>4
<1>6. MultiControlledUWithAncilla(c, z, u) =
        first \o FlattenSeq(Upper(c, z)) \o CU(u, {z[m]}) \o FlattenSeq(UpperBack(c, z)) \o first
  <2>1. MultiControlledUWithAncilla(c, z, u) =
          toffoli(c[1], c[2], z[1]) \o Each(3, n, next) \o CU(u, {z[m]}) \o EachDown(n, 3, next)
            \o toffoli(c[1], c[2], z[1])
    BY DEF MultiControlledUWithAncilla
  <2> HIDE DEF next, toffoli, first, m, n
  <2> QED BY <1>2, <1>4, <1>5, <2>1
<1>7. \A i \in 1 .. m : Rung(c, z, i) \in Seq(GatesOn(D, D))
  BY RungActs
<1>8. \A i \in 1 .. m - 1 : i + 1 \in 1 .. m /\ m - i + 1 \in 1 .. m
  BY <1>1
<1> HIDE DEF D
<1>9. Upper(c, z) \in [1 .. m - 1 -> Seq(GatesOn(D, D))]
  BY <1>7, <1>8 DEF Upper
<1>10. UpperBack(c, z) \in [1 .. m - 1 -> Seq(GatesOn(D, D))]
  BY <1>7, <1>8 DEF UpperBack
<1> QED BY <1>6, <1>9, <1>10 DEF D

LEMMA LadderUp ==
  ASSUME NEW c, NEW z, LadderLayout(c, z), NEW S \in SUBSET Qubits
  PROVE  /\ Rung(c, z, 1) \o FlattenSeq(Upper(c, z)) \in Seq(GatesOn(LadderQubits(c, z), LadderQubits(c, z)))
         /\ \E t : WentUp(t, c, z, S) /\ After(Rung(c, z, 1) \o FlattenSeq(Upper(c, z)), S) = t[Len(z)]
<1> DEFINE m == Len(z)
           D == LadderQubits(c, z)
           g == Rung(c, z, 1)
           ss == Upper(c, z)
           k == m - 1
<1>1. m \in Nat /\ m >= 1 /\ k \in Nat /\ 1 \in 1 .. m /\ D \in SUBSET Qubits
  BY LadderWires
<1>2. g \in Seq(GatesOn(D, D)) /\ g \in Seq(GatesOn(Qubits, Qubits))
  BY <1>1, RungActs
<1>3. ss \in [1 .. k -> Seq(GatesOn(D, D))]
  BY LadderParts
<1>4. \A i \in 1 .. k : ss[i] = Rung(c, z, i + 1)
  BY DEF Upper
<1> HIDE DEF ss, g, D, k
<1>5. /\ ss \in Seq(Seq(GatesOn(Qubits, Qubits))) /\ Len(ss) = k
      /\ FlattenSeq(ss) \in Seq(GatesOn(D, D)) /\ FlattenSeq(ss) \in Seq(GatesOn(Qubits, Qubits))
  BY <1>1, <1>3, BlocksInRow
<1>6. g \o FlattenSeq(ss) \in Seq(GatesOn(D, D))
  BY <1>2, <1>5, ConcatProperties
<1> DEFINE T == After(g, S)
<1>7. T \in SUBSET Qubits
  BY <1>2, AfterType
<1> HIDE DEF T
<1>8. PICK v \in [0 .. k -> SUBSET Qubits] :
          /\ v[0] = T
          /\ \A i \in 1 .. k : v[i] = After(ss[i], v[i - 1])
          /\ After(FlattenSeq(ss), T) = v[k]
  BY <1>5, <1>7, AfterEach
<1> DEFINE t == [j \in 0 .. m |-> IF j = 0 THEN S ELSE v[j - 1]]
<1>9. \A j \in 1 .. m : j - 1 \in 0 .. k /\ j \in 0 .. m /\ j # 0 /\ t[j] = v[j - 1]
  BY <1>1 DEF k
<1>10. t \in [0 .. m -> SUBSET Qubits] /\ t[0] = S
  <2>1. ASSUME NEW j \in 0 .. m PROVE (IF j = 0 THEN S ELSE v[j - 1]) \in SUBSET Qubits
    <3>1. CASE j = 0
      BY <3>1
    <3>2. CASE j # 0
      <4>1. j \in 1 .. m
        BY <1>1, <3>2
      <4>2. v[j - 1] \in SUBSET Qubits
        BY <1>8, <1>9, <4>1
      <4> QED BY <3>2, <4>2
    <3> QED BY <3>1, <3>2
  <2>2. 0 \in 0 .. m
    BY <1>1
  <2> QED BY <2>1, <2>2
<1> HIDE DEF t
<1>11. ASSUME NEW j \in 1 .. m PROVE t[j] = After(Rung(c, z, j), t[j - 1])
  <2>1. CASE j = 1
    <3>1. t[1] = v[0] /\ t[1 - 1] = S
      BY <1>1, <1>9, <1>10
    <3> QED BY <1>8, <2>1, <3>1 DEF T, g
  <2>2. CASE j # 1
    <3>1. j - 1 \in 1 .. k /\ j - 1 \in 1 .. m /\ (j - 1) + 1 = j
      BY <1>1, <2>2 DEF k
    <3>2. t[j] = v[j - 1] /\ t[j - 1] = v[(j - 1) - 1]
      BY <1>9, <3>1
    <3>3. v[j - 1] = After(ss[j - 1], v[(j - 1) - 1])
      BY <1>8, <3>1
    <3>4. ss[j - 1] = Rung(c, z, j)
      BY <1>4, <3>1
    <3> QED BY <3>2, <3>3, <3>4
  <2> QED BY <2>1, <2>2
<1>12. After(g \o FlattenSeq(ss), S) = t[m]
  <2>1. After(g \o FlattenSeq(ss), S) = After(FlattenSeq(ss), T)
    BY <1>2, <1>5, AfterConcat DEF T
  <2>2. m \in 1 .. m
    BY <1>1
  <2> QED BY <1>8, <1>9, <2>1, <2>2 DEF k
<1>13. WentUp(t, c, z, S)
  BY <1>10, <1>11 DEF WentUp, m
<1> QED BY <1>6, <1>12, <1>13 DEF g, ss, D, m

LEMMA LadderDown ==
  ASSUME NEW c, NEW z, LadderLayout(c, z), NEW S \in SUBSET Qubits
  PROVE  LET T == After(FlattenSeq(UpperBack(c, z)), S)
         IN  /\ T \in SUBSET Qubits
             /\ FlattenSeq(UpperBack(c, z)) \in Seq(GatesOn(LadderQubits(c, z), LadderQubits(c, z)))
             /\ \E d : CameDown(d, c, z, S) /\ After(Rung(c, z, 1), T) = d[Len(z)]
<1> DEFINE m == Len(z)
           D == LadderQubits(c, z)
           g == Rung(c, z, 1)
           ss == UpperBack(c, z)
           k == m - 1
           T == After(FlattenSeq(ss), S)
<1>1. m \in Nat /\ m >= 1 /\ k \in Nat /\ 1 \in 1 .. m /\ D \in SUBSET Qubits
  BY LadderWires
<1>2. g \in Seq(GatesOn(Qubits, Qubits))
  BY <1>1, RungActs
<1>3. ss \in [1 .. k -> Seq(GatesOn(D, D))]
  BY LadderParts
<1>4. \A i \in 1 .. k : ss[i] = Rung(c, z, m - i + 1)
  BY DEF UpperBack
<1> HIDE DEF ss, g, D, k
<1>5. /\ ss \in Seq(Seq(GatesOn(Qubits, Qubits))) /\ Len(ss) = k
      /\ FlattenSeq(ss) \in Seq(GatesOn(D, D)) /\ FlattenSeq(ss) \in Seq(GatesOn(Qubits, Qubits))
  BY <1>1, <1>3, BlocksInRow
<1>6. T \in SUBSET Qubits
  BY <1>5, AfterType
<1>7. PICK v \in [0 .. k -> SUBSET Qubits] :
          /\ v[0] = S
          /\ \A i \in 1 .. k : v[i] = After(ss[i], v[i - 1])
          /\ T = v[k]
  BY <1>5, AfterEach
<1> HIDE DEF T
<1> DEFINE d == [j \in 0 .. m |-> IF j = m THEN After(g, T) ELSE v[j]]
<1>8. \A j \in 0 .. k : j \in 0 .. m /\ j # m /\ d[j] = v[j]
  BY <1>1 DEF k
<1>9. d \in [0 .. m -> SUBSET Qubits] /\ d[0] = S /\ d[m] = After(g, T)
  <2>1. After(g, T) \in SUBSET Qubits
    BY <1>2, <1>6, AfterType
  <2>2. ASSUME NEW j \in 0 .. m PROVE (IF j = m THEN After(g, T) ELSE v[j]) \in SUBSET Qubits
    <3>1. CASE j = m
      BY <2>1, <3>1
    <3>2. CASE j # m
      <4>1. j \in 0 .. k
        BY <1>1, <3>2 DEF k
      <4>2. v[j] \in SUBSET Qubits
        BY <1>7, <4>1
      <4> QED BY <3>2, <4>2
    <3> QED BY <3>1, <3>2
  <2>3. 0 \in 0 .. k /\ m \in 0 .. m
    BY <1>1
  <2>4. d[0] = S
    BY <1>7, <1>8, <2>3
  <2> QED BY <2>2, <2>3, <2>4
<1> HIDE DEF d
<1>10. ASSUME NEW j \in 1 .. m PROVE d[j] = After(Rung(c, z, m - j + 1), d[j - 1])
  <2>1. CASE j = m
    <3>1. m - j + 1 = 1 /\ j - 1 = k /\ k \in 0 .. k
      BY <1>1, <2>1 DEF k
    <3>2. d[j - 1] = T
      BY <1>7, <1>8, <3>1
    <3> QED BY <1>9, <2>1, <3>1, <3>2 DEF g
  <2>2. CASE j # m
    <3>1. j \in 1 .. k /\ j \in 0 .. k /\ j - 1 \in 0 .. k
      BY <1>1, <2>2 DEF k
    <3>2. d[j] = v[j] /\ d[j - 1] = v[j - 1]
      BY <1>8, <3>1
    <3>3. v[j] = After(ss[j], v[j - 1]) /\ ss[j] = Rung(c, z, m - j + 1)
      BY <1>4, <1>7, <3>1
    <3> QED BY <3>2, <3>3
  <2> QED BY <2>1, <2>2
<1>11. CameDown(d, c, z, S)
  BY <1>9, <1>10 DEF CameDown, m
<1> QED BY <1>5, <1>6, <1>9, <1>11 DEF g, ss, D, T, m

(* What the ancillas hold i rungs up.                                        *)
AllOn(c, j, S) == \A k \in 1 .. j + 1 : c[k] \in S
Climbed(c, z, S, i, T) ==
  /\ \A j \in 1 .. i : z[j] \in T <=> AllOn(c, j, S)
  /\ \A j \in i + 1 .. Len(z) : z[j] \notin T
  /\ AlikeOff(z, T, S)

LEMMA ClimbStep ==
  ASSUME NEW c, NEW z, LadderLayout(c, z), NEW S, NEW i \in 1 .. Len(z),
         NEW T \in SUBSET Qubits, Climbed(c, z, S, i - 1, T)
  PROVE  Climbed(c, z, S, i, After(Rung(c, z, i), T))
<1> DEFINE m == Len(z)
           K == RungControls(c, z, i)
           R == After(Rung(c, z, i), T)
<1>1. /\ m \in Nat
      /\ \A j \in 1 .. m + 1 : c[j] \in Qubits /\ c[j] \notin AsSet(z)
      /\ \A j \in 1 .. m : z[j] \in Qubits /\ z[j] \in AsSet(z)
      /\ \A j, k \in 1 .. m : z[j] = z[k] => j = k
  BY LadderWires
<1>2. R = IF K \subseteq T THEN Toggle(T, z[i]) ELSE T
  BY RungActs
<1>3. /\ \A j \in 1 .. i - 1 : z[j] \in T <=> AllOn(c, j, S)
      /\ \A j \in (i - 1) + 1 .. m : z[j] \notin T
      /\ \A q \in Qubits : q \notin AsSet(z) => (q \in T <=> q \in S)
  BY DEF Climbed, AlikeOff
<1>4. K \subseteq T <=> AllOn(c, i, S)
  <2>1. \A j \in 1 .. m + 1 : c[j] \in T <=> c[j] \in S
    BY <1>1, <1>3
  <2>2. CASE i = 1
    <3>1. 1 \in 1 .. m + 1 /\ 2 \in 1 .. m + 1 /\ 1 .. i + 1 = {1, 2}
      BY <1>1, <2>2
    <3>2. K = {c[1], c[2]}
      BY <2>2 DEF RungControls
    <3>3. AllOn(c, i, S) <=> c[1] \in S /\ c[2] \in S
      BY <3>1 DEF AllOn
    <3>4. K \subseteq T <=> c[1] \in T /\ c[2] \in T
      BY <3>2
    <3> QED BY <2>1, <3>1, <3>3, <3>4
  <2>3. CASE i # 1
    <3>1. i + 1 \in 1 .. m + 1 /\ i - 1 \in 1 .. i - 1 /\ (i - 1) + 1 = i /\ 1 .. i + 1 = (1 .. i) \cup {i + 1}
      BY <1>1, <2>3
    <3>2. K = {c[i + 1], z[i - 1]}
      BY <2>3 DEF RungControls
    <3>3. z[i - 1] \in T <=> AllOn(c, i - 1, S)
      BY <1>3, <3>1
    <3>4. AllOn(c, i - 1, S) <=> \A k \in 1 .. i : c[k] \in S
      BY <3>1 DEF AllOn
    <3>5. AllOn(c, i, S) <=> (\A k \in 1 .. i : c[k] \in S) /\ c[i + 1] \in S
      BY <3>1 DEF AllOn
    <3>6. K \subseteq T <=> c[i + 1] \in T /\ z[i - 1] \in T
      BY <3>2
    <3> QED BY <2>1, <3>1, <3>3, <3>4, <3>5, <3>6
  <2> QED BY <2>2, <2>3
<1>5. z[i] \notin T
  BY <1>1, <1>3
<1> HIDE DEF K, R
<1>6. \A q : q # z[i] => (q \in R <=> q \in T)
  BY <1>2, Toggled
<1>7. z[i] \in R <=> AllOn(c, i, S)
  <2>1. CASE K \subseteq T
    BY <1>2, <1>4, <1>5, <2>1, Toggled
  <2>2. CASE ~ K \subseteq T
    BY <1>2, <1>4, <1>5, <2>2
  <2> QED BY <2>1, <2>2
<1>8. \A j \in 1 .. i : z[j] \in R <=> AllOn(c, j, S)
  <2>1. ASSUME NEW j \in 1 .. i, j # i PROVE z[j] \in R <=> AllOn(c, j, S)
    <3>1. j \in 1 .. i - 1 /\ j \in 1 .. m /\ z[j] # z[i]
      BY <1>1, <2>1
    <3> QED BY <1>3, <1>6, <3>1
  <2> QED BY <1>7, <2>1
<1>9. \A j \in i + 1 .. m : z[j] \notin R
  <2>1. ASSUME NEW j \in i + 1 .. m PROVE z[j] \notin R
    <3>1. j \in (i - 1) + 1 .. m /\ j \in 1 .. m /\ j # i
      BY <1>1
    <3>2. z[j] # z[i]
      BY <1>1, <3>1
    <3> QED BY <1>3, <1>6, <3>1, <3>2
  <2> QED BY <2>1
<1>10. \A q \in Qubits : q \notin AsSet(z) => (q \in R <=> q \in S)
  BY <1>1, <1>3, <1>6
<1> QED BY <1>8, <1>9, <1>10 DEF Climbed, AlikeOff, R, m

LEMMA AllClimbed ==
  ASSUME NEW c, NEW z, LadderLayout(c, z), NEW S \in SUBSET Qubits, S \cap AsSet(z) = {},
         NEW t, WentUp(t, c, z, S)
  PROVE  Climbed(c, z, S, Len(z), t[Len(z)])
<1> DEFINE m == Len(z)
           I == {i \in Nat : i <= m => Climbed(c, z, S, i, t[i])}
<1>1. m \in Nat /\ \A j \in 1 .. m : z[j] \in AsSet(z)
  BY LadderWires
<1>2. /\ t \in [0 .. m -> SUBSET Qubits] /\ t[0] = S
      /\ \A i \in 1 .. m : t[i] = After(Rung(c, z, i), t[i - 1])
  BY DEF WentUp
<1>3. 0 \in I
  <2>1. 1 .. 0 = {} /\ \A j \in 0 + 1 .. m : z[j] \notin S
    BY <1>1
  <2> QED BY <1>2, <2>1 DEF Climbed, AlikeOff
<1>4. ASSUME NEW i \in I, i < m PROVE i + 1 \in I
  <2> DEFINE k == i + 1
             T == t[k - 1]
  <2>1. k \in 1 .. m /\ k - 1 = i /\ k - 1 \in 0 .. m /\ i <= m /\ k \in Nat
    BY <1>1, <1>4
  <2>2. Climbed(c, z, S, k - 1, T)
    BY <2>1
  <2>3. T \in SUBSET Qubits /\ t[k] = After(Rung(c, z, k), T)
    BY <1>2, <2>1
  <2> HIDE DEF I, k, T
  <2>4. Climbed(c, z, S, k, t[k])
    BY <2>1, <2>2, <2>3, ClimbStep
  <2> QED BY <2>1, <2>4 DEF I, k
<1> QED
  <2>1. I \in SUBSET Nat
    OBVIOUS
  <2> HIDE DEF I
  <2>2. 0 .. m \subseteq I
    BY <1>1, <1>3, <1>4, <2>1, Induction
  <2> QED BY <1>1, <2>2 DEF I

(* A rung taken twice is as if it had not been.                              *)
LEMMA RungTwice ==
  ASSUME NEW c, NEW z, LadderLayout(c, z), NEW i \in 1 .. Len(z), NEW T \in SUBSET Qubits
  PROVE  After(Rung(c, z, i), After(Rung(c, z, i), T)) = T
<1> DEFINE K == RungControls(c, z, i)
           g == Rung(c, z, i)
           q == z[i]
           R == After(g, T)
<1>1. /\ K \in SUBSET Qubits /\ q \notin K /\ g \in Seq(GatesOn(Qubits, Qubits))
      /\ \A V \in SUBSET Qubits : After(g, V) = IF K \subseteq V THEN Toggle(V, q) ELSE V
  BY RungActs
<1> HIDE DEF K, g, q
<1>2. R \in SUBSET Qubits
  BY <1>1, AfterType
<1>3. R = IF K \subseteq T THEN Toggle(T, q) ELSE T
  BY <1>1
<1> HIDE DEF R
<1>4. CASE K \subseteq T
  <2>1. R = Toggle(T, q)
    BY <1>3, <1>4
  <2>2. K \subseteq R
    BY <1>1, <1>4, <2>1, Toggled
  <2>3. After(g, R) = Toggle(R, q)
    BY <1>1, <1>2, <2>2
  <2>4. Toggle(R, q) = T
    BY <2>1 DEF Toggle
  <2> QED BY <2>3, <2>4 DEF g, R
<1>5. CASE ~ K \subseteq T
  <2>1. R = T
    BY <1>3, <1>5
  <2>2. After(g, R) = R
    BY <1>1, <1>2, <1>5, <2>1
  <2> QED BY <2>1, <2>2 DEF g, R
<1> QED BY <1>4, <1>5

(* What was done to other qubits on top of the ladder is still there below.  *)
LEMMA BackDown ==
  ASSUME NEW c, NEW z, LadderLayout(c, z), NEW W \in SUBSET Qubits, W \cap LadderQubits(c, z) = {},
         NEW S \in SUBSET Qubits, NEW t, WentUp(t, c, z, S),
         NEW d, CameDown(d, c, z, Complemented(t[Len(z)], W))
  PROVE  d[Len(z)] = Complemented(S, W)
<1> DEFINE m == Len(z)
           D == LadderQubits(c, z)
           I == {i \in Nat : i <= m => d[i] = Complemented(t[m - i], W)}
<1>1. m \in Nat /\ D \in SUBSET Qubits
  BY LadderWires
<1>2. /\ t \in [0 .. m -> SUBSET Qubits] /\ t[0] = S
      /\ \A i \in 1 .. m : t[i] = After(Rung(c, z, i), t[i - 1])
  BY DEF WentUp
<1>3. /\ d[0] = Complemented(t[m], W)
      /\ \A i \in 1 .. m : d[i] = After(Rung(c, z, m - i + 1), d[i - 1])
  BY DEF CameDown
<1>4. 0 \in I
  BY <1>1, <1>3
<1>5. ASSUME NEW i \in I, i < m PROVE i + 1 \in I
  <2> DEFINE k == m - i
             g == Rung(c, z, k)
             T == t[k - 1]
             V == t[k]
  <2>1. /\ k \in 1 .. m /\ k \in 0 .. m /\ k - 1 \in 0 .. m /\ i + 1 \in 1 .. m /\ (i + 1) - 1 = i /\ i <= m
        /\ m - (i + 1) + 1 = k /\ m - (i + 1) = k - 1 /\ i + 1 \in Nat
    BY <1>1, <1>5
  <2>2. d[i] = Complemented(V, W)
    BY <2>1
  <2>3. T \in SUBSET Qubits /\ V \in SUBSET Qubits /\ V = After(g, T)
    BY <1>2, <2>1
  <2>4. d[i + 1] = After(g, d[i])
    BY <1>3, <2>1
  <2>5. g \in Seq(GatesOn(D, D))
    BY <2>1, RungActs
  <2>6. After(g, V) = T
    <3> HIDE DEF T, V, k
    <3>1. After(g, After(g, T)) = T
      BY <2>1, <2>3, RungTwice
    <3> QED BY <2>3, <3>1
  <2> HIDE DEF I, k, g, T, V, D
  <2>7. W \cap (D \cup D) = {}
    BY DEF D
  <2>8. After(g, Complemented(V, W)) = Complemented(After(g, V), W)
    BY <1>1, <2>3, <2>5, <2>7, Elsewhere
  <2>9. d[i + 1] = Complemented(T, W)
    BY <2>2, <2>4, <2>6, <2>8
  <2> QED BY <2>1, <2>9 DEF I, T
<1> QED
  <2>1. I \in SUBSET Nat
    OBVIOUS
  <2> HIDE DEF I
  <2>2. 0 .. m \subseteq I
    BY <1>1, <1>4, <1>5, <2>1, Induction
  <2>3. m \in I
    BY <1>1, <2>2
  <2>4. d[m] = Complemented(t[m - m], W) /\ m - m = 0
    BY <1>1, <2>3 DEF I
  <2> QED BY <1>2, <2>4

WorksOnTop(c, z, u, S, T, V) ==
  /\ V \in SUBSET Qubits /\ Complemented(S, V) \cap LadderQubits(c, z) = {}
  /\ After(CU(u, {z[Len(z)]}), T) = Complemented(T, Complemented(S, V))

(* On top of the ladder u runs where all controls are on.                    *)
LEMMA OnTop ==
  ASSUME NEW c, NEW z, LadderLayout(c, z), NEW E \in SUBSET Qubits, E \cap LadderQubits(c, z) = {},
         NEW u \in Seq(GatesOn(E, E)), NEW S \in SUBSET Qubits, S \cap AsSet(z) = {},
         NEW T \in SUBSET Qubits, Climbed(c, z, S, Len(z), T)
  PROVE  WorksOnTop(c, z, u, S, T, IF AsSet(c) \subseteq S THEN After(u, S) ELSE S)
<1> DEFINE m == Len(z)
           last == {z[m]}
           v == CU(u, last)
           A == After(u, S)
           on == AsSet(c) \subseteq S
           Z == Complemented(S, T)
           D == LadderQubits(c, z)
<1>1. /\ m \in 1 .. m /\ AsSet(c) = {c[i] : i \in 1 .. m + 1} /\ z[m] \in Qubits /\ z[m] \in D
      /\ D \in SUBSET Qubits
  <2>1. /\ m \in Nat /\ m >= 1 /\ AsSet(c) = {c[i] : i \in 1 .. m + 1} /\ D \in SUBSET Qubits
        /\ \A i \in 1 .. m : z[i] \in Qubits /\ z[i] \in D
    BY LadderWires
  <2>2. m \in 1 .. m
    BY <2>1
  <2> QED BY <2>1, <2>2
<1>2. z[m] \in T <=> on
  <2>1. z[m] \in T <=> AllOn(c, m, S)
    BY <1>1 DEF Climbed
  <2>2. on <=> \A i \in 1 .. m + 1 : c[i] \in S
    BY <1>1
  <2> QED BY <2>1, <2>2 DEF AllOn
<1>3. last \in SUBSET Qubits /\ last \cap E = {}
  BY <1>1
<1>4. v \in Seq(GatesOn(E, E \cup last)) /\ ControlledBy(v, last, u)
  <2> HIDE DEF last
  <2> QED BY <1>3, ControlsAdded
<1>5. v \in Seq(GatesOn(Qubits, Qubits)) /\ u \in Seq(GatesOn(Qubits, Qubits))
  <2> HIDE DEF v, last
  <2>1. E \cup last \in SUBSET Qubits
    BY <1>3
  <2> QED BY <1>4, <2>1, AnyGates
<1>6. After(v, T) = IF on THEN After(u, T) ELSE T
  <2>1. last \subseteq T <=> on
    BY <1>2
  <2> HIDE DEF v, on
  <2> QED BY <1>4, <2>1 DEF ControlledBy
<1>7. A \in SUBSET Qubits /\ A \ E = S \ E
  <2>1. A \in SUBSET Qubits
    BY <1>5, AfterType
  <2>2. A \ E = S \ E
    BY Untouched
  <2> QED BY <2>1, <2>2
<1>8. Z \in SUBSET Qubits /\ Z \cap (E \cup E) = {}
  <2>1. \A q \in Qubits : q \notin AsSet(z) => (q \in T <=> q \in S)
    BY DEF Climbed, AlikeOff
  <2>2. Z \in SUBSET Qubits
    BY DEF Complemented
  <2>3. AsSet(z) \subseteq D
    BY DEF LadderQubits
  <2> QED BY <2>1, <2>2, <2>3 DEF Complemented
<1>9. Complemented(S, Z) = T
  BY DEF Complemented
<1> HIDE DEF A, Z, D, last, on
<1>10. After(u, T) = Complemented(A, Z)
  BY <1>8, <1>9, Elsewhere DEF A
<1>11. CASE on
  <2>1. After(v, T) = Complemented(A, Z)
    BY <1>6, <1>10, <1>11
  <2>2. Complemented(A, Z) = Complemented(T, Complemented(S, A))
    BY <1>9 DEF Complemented
  <2>3. Complemented(S, A) \cap D = {}
    BY <1>7 DEF Complemented, D
  <2> HIDE DEF v
  <2>4. WorksOnTop(c, z, u, S, T, A)
    BY <1>7, <2>1, <2>2, <2>3 DEF WorksOnTop, v, D, last, m
  <2> QED BY <1>11, <2>4 DEF on, A
<1>12. CASE ~ on
  <2>1. After(v, T) = T
    BY <1>6, <1>12
  <2>2. Complemented(S, S) = {} /\ Complemented(T, {}) = T
    BY DEF Complemented
  <2> HIDE DEF v
  <2>3. WorksOnTop(c, z, u, S, T, S)
    BY <2>1, <2>2 DEF WorksOnTop, v, last, m
  <2> QED BY <1>12, <2>3 DEF on
<1> QED BY <1>11, <1>12

LEMMA MultiControlledRuns ==
  ASSUME NEW c, NEW z, LadderLayout(c, z), NEW E \in SUBSET Qubits, E \cap LadderQubits(c, z) = {},
         NEW u \in Seq(GatesOn(E, E))
  PROVE  LET l == MultiControlledUWithAncilla(c, z, u)
         IN  /\ l \in Seq(GatesOn(Qubits, Qubits))
             /\ \A S \in SUBSET Qubits : S \cap AsSet(z) = {} =>
                  After(l, S) = IF AsSet(c) \subseteq S THEN After(u, S) ELSE S
<1> DEFINE l == MultiControlledUWithAncilla(c, z, u)
           m == Len(z)
           D == LadderQubits(c, z)
           Q == Seq(GatesOn(Qubits, Qubits))
           g == Rung(c, z, 1)
           up == g \o FlattenSeq(Upper(c, z))
           v == CU(u, {z[m]})
           back == FlattenSeq(UpperBack(c, z))
           top == up \o v
           most == top \o back
<1>1. l = most \o g
  BY LadderParts
<1>2. m \in Nat /\ 1 \in 1 .. m /\ D \in SUBSET Qubits
  BY LadderWires
<1>3. g \in Q
  BY <1>2, RungActs
<1>4. up \in Q
  <2>1. up \in Seq(GatesOn(D, D))
    BY LadderUp
  <2> HIDE DEF up, D
  <2> QED BY <1>2, <2>1, AnyGates
<1>5. back \in Q
  <2>1. back \in Seq(GatesOn(D, D))
    BY LadderDown
  <2> HIDE DEF back, D
  <2> QED BY <1>2, <2>1, AnyGates
<1>6. v \in Q
  <2>1. z[m] \in Qubits /\ z[m] \in D
    <3>1. m \in 1 .. m
      BY <1>2
    <3> QED BY <3>1, LadderWires
  <2> DEFINE last == {z[m]}
  <2>2. last \in SUBSET Qubits /\ last \cap E = {}
    BY <2>1
  <2>3. v = CU(u, last)
    OBVIOUS
  <2> HIDE DEF last, v
  <2>4. v \in Seq(GatesOn(E, E \cup last)) /\ E \cup last \in SUBSET Qubits
    BY <2>2, <2>3, ControlsAdded
  <2> QED BY <2>4, AnyGates
<1> HIDE DEF g, up, v, back
<1>7. top \in Q /\ most \in Q
  BY <1>4, <1>5, <1>6, ConcatProperties
<1>8. l \in Q
  <2> HIDE DEF most
  <2> QED BY <1>1, <1>3, <1>7, ConcatProperties
<1>9. ASSUME NEW S \in SUBSET Qubits, S \cap AsSet(z) = {}
      PROVE  After(l, S) = IF AsSet(c) \subseteq S THEN After(u, S) ELSE S
  <2> DEFINE V == IF AsSet(c) \subseteq S THEN After(u, S) ELSE S
             W == Complemented(S, V)
  <2>1. PICK t : WentUp(t, c, z, S) /\ After(up, S) = t[m]
    BY LadderUp DEF up, g
  <2> DEFINE T == t[m]
  <2>2. T \in SUBSET Qubits /\ Climbed(c, z, S, m, T)
    <3>1. m \in 0 .. m
      BY <1>2
    <3>2. T \in SUBSET Qubits
      BY <2>1, <3>1 DEF WentUp
    <3> QED BY <1>9, <2>1, <3>2, AllClimbed
  <2>3. V \in SUBSET Qubits /\ W \cap D = {} /\ After(v, T) = Complemented(T, W)
    <3> HIDE DEF T
    <3>1. WorksOnTop(c, z, u, S, T, V)
      BY <1>9, <2>2, OnTop
    <3> HIDE DEF V
    <3> QED BY <3>1 DEF WorksOnTop, v
  <2> HIDE DEF V
  <2>4. W \in SUBSET Qubits /\ Complemented(T, W) \in SUBSET Qubits /\ Complemented(S, W) = V
    BY <2>2, <2>3 DEF Complemented
  <2> HIDE DEF W, D
  <2> DEFINE Y == Complemented(T, W)
             P == After(back, Y)
  <2>5. PICK d : CameDown(d, c, z, Y) /\ After(g, P) = d[m]
    <3> HIDE DEF Y
    <3> QED BY <2>4, LadderDown DEF back, g, Y
  <2>6. d[m] = V
    <3>1. d[m] = Complemented(S, W)
      BY <2>1, <2>3, <2>4, <2>5, BackDown DEF D
    <3> QED BY <2>4, <3>1
  <2> HIDE DEF T, Y, P
  <2>7. After(top, S) = Y
    <3>1. After(up \o v, S) = After(v, After(up, S))
      BY <1>4, <1>6, AfterConcat
    <3> QED BY <2>1, <2>3, <3>1 DEF T, Y
  <2> HIDE DEF top
  <2>8. After(most, S) = P
    <3>1. After(top \o back, S) = After(back, After(top, S))
      BY <1>5, <1>7, AfterConcat
    <3> QED BY <2>7, <3>1 DEF P
  <2> HIDE DEF most
  <2>9. After(most \o g, S) = After(g, After(most, S))
    BY <1>3, <1>7, AfterConcat
  <2> QED BY <1>1, <2>5, <2>6, <2>8, <2>9 DEF V
<1> QED BY <1>8, <1>9

LEMMA MultiControlledType ==
  ASSUME NEW c, NEW z, LadderLayout(c, z), NEW E \in SUBSET Qubits, E \cap LadderQubits(c, z) = {},
         NEW u \in Seq(GatesOn(E, E))
  PROVE  LET D == E \cup LadderQubits(c, z)
         IN  MultiControlledUWithAncilla(c, z, u) \in Seq(GatesOn(D, D))
<1> DEFINE l == MultiControlledUWithAncilla(c, z, u)
           m == Len(z)
           L == LadderQubits(c, z)
           D == E \cup L
           Q == Seq(GatesOn(D, D))
           g == Rung(c, z, 1)
           up == g \o FlattenSeq(Upper(c, z))
           v == CU(u, {z[m]})
           back == FlattenSeq(UpperBack(c, z))
           top == up \o v
           most == top \o back
<1>1. l = most \o g
  BY LadderParts
<1>2. m \in 1 .. m /\ 1 \in 1 .. m /\ z[m] \in Qubits /\ z[m] \in L
  <2>1. m \in 1 .. m /\ 1 \in 1 .. m
    BY LadderWires
  <2> QED BY <2>1, LadderWires
<1>3. g \in Seq(GatesOn(L, L))
  BY <1>2, RungActs
<1>4. up \in Seq(GatesOn(L, L)) /\ back \in Seq(GatesOn(L, L))
  BY <1>2, LadderUp, LadderDown
<1>5. v \in Seq(GatesOn(E, D))
  <2> DEFINE last == {z[m]}
  <2>1. last \in SUBSET Qubits /\ last \cap E = {} /\ E \cup last \subseteq D
    BY <1>2
  <2>2. v = CU(u, last)
    OBVIOUS
  <2> HIDE DEF last, v, D
  <2>3. v \in Seq(GatesOn(E, E \cup last))
    BY <2>1, <2>2, ControlsAdded
  <2> QED BY <2>1, <2>3, WiderGates
<1>6. L \subseteq D /\ E \subseteq D /\ D \subseteq D
  OBVIOUS
<1> HIDE DEF g, up, v, back, D, L
<1>7. g \in Q /\ up \in Q /\ back \in Q /\ v \in Q
  BY <1>3, <1>4, <1>5, <1>6, WiderGates
<1> HIDE DEF Q
<1>8. top \in Q
  BY <1>7, ConcatProperties DEF Q
<1> HIDE DEF top
<1>9. most \in Q
  BY <1>7, <1>8, ConcatProperties DEF Q
<1> HIDE DEF most
<1>10. l \in Q
  BY <1>1, <1>7, <1>9, ConcatProperties DEF Q
<1> QED BY <1>10 DEF Q, D, L

-----------------------------------------------------------------------------
(* EqualityChecker with and without ancillas.                                *)

EqualityRegisters(a, b, flag, z) ==
  /\ EqualityLayout(a, b, flag) /\ z \in Seq(Qubits)
  /\ z # <<>> => LadderLayout(b, z) /\ flag \notin AsSet(z) /\ Disjoint(a, z)
EqualityQubits(a, b, flag, z) == {flag} \cup AsSet(a) \cup AsSet(b) \cup AsSet(z)
FlipOf(b, flag, z) ==
  IF z = <<>> THEN CU(X(flag), AsSet(b)) ELSE MultiControlledUWithAncilla(b, z, X(flag))

LEMMA EqualityWires ==
  ASSUME NEW a, NEW b, NEW flag, NEW z, EqualityRegisters(a, b, flag, z)
  PROVE  /\ EqualityLayout(a, b, flag) /\ Beside(a, b) /\ b \in Seq(Qubits) /\ Unrepeated(b)
         /\ flag \in Qubits /\ flag \notin AsSet(b) /\ AsSet(b) \in SUBSET Qubits /\ AsSet(z) \in SUBSET Qubits
         /\ AsSet(z) \cap AsSet(b) = {} /\ EqualityQubits(a, b, flag, z) \in SUBSET Qubits
<1>1. EqualityLayout(a, b, flag) /\ z \in Seq(Qubits) /\ (z # <<>> => LadderLayout(b, z))
  BY DEF EqualityRegisters
<1>2. Beside(a, b) /\ flag \in Qubits /\ flag \notin AsSet(a) \cup AsSet(b)
  BY <1>1 DEF EqualityLayout
<1>3. a \in Seq(Qubits) /\ b \in Seq(Qubits) /\ Unrepeated(b)
  BY <1>2 DEF Beside
<1>4. AsSet(a) \in SUBSET Qubits /\ AsSet(b) \in SUBSET Qubits /\ AsSet(z) \in SUBSET Qubits
  BY <1>1, <1>3, RegisterType
<1>5. AsSet(z) \cap AsSet(b) = {}
  <2>1. CASE z = <<>>
    BY <2>1 DEF AsSet
  <2>2. CASE z # <<>>
    BY <1>1, <2>2 DEF LadderLayout, Disjoint
  <2> QED BY <2>1, <2>2
<1>6. EqualityQubits(a, b, flag, z) \in SUBSET Qubits
  BY <1>2, <1>4 DEF EqualityQubits
<1> QED BY <1>1, <1>2, <1>3, <1>4, <1>5, <1>6

LEMMA OneNot ==
  ASSUME NEW q \in Qubits
  PROVE  /\ X(q) \in Seq(GatesOn({q}, {q}))
         /\ \A S \in SUBSET Qubits : After(X(q), S) = Toggle(S, q)
<1>1. X(q) = <<NotGate(q, {})>>
  BY OneX
<1>2. q \notin {} /\ {} \in SUBSET Qubits
  OBVIOUS
<1>3. X(q) \in Seq(GatesOn({q}, {}))
  BY <1>1, <1>2, AfterNot
<1>4. X(q) \in Seq(GatesOn({q}, {q}))
  <2>1. {q} \subseteq {q} /\ {} \subseteq {q}
    OBVIOUS
  <2> QED BY <1>3, <2>1, WiderGates
<1>5. ASSUME NEW S \in SUBSET Qubits PROVE After(X(q), S) = Toggle(S, q)
  <2> DEFINE K == {}
             g == <<NotGate(q, K)>>
  <2>1. X(q) = g /\ q \notin K /\ K \in SUBSET Qubits /\ K \subseteq S
    BY <1>1
  <2> HIDE DEF K
  <2>2. After(g, S) = IF K \subseteq S THEN Toggle(S, q) ELSE S
    BY <2>1, AfterNot
  <2> HIDE DEF g
  <2> QED BY <2>1, <2>2
<1> QED BY <1>4, <1>5

LEMMA FlipFlips ==
  ASSUME NEW a, NEW b, NEW flag, NEW z, EqualityRegisters(a, b, flag, z)
  PROVE  LET D == EqualityQubits(a, b, flag, z)
         IN  /\ FlipOf(b, flag, z) \in Seq(GatesOn(D, D))
             /\ FlipsWhere(FlipOf(b, flag, z), flag, AsSet(b), AsSet(z))
<1> DEFINE D == EqualityQubits(a, b, flag, z)
           K == AsSet(b)
           Z == AsSet(z)
           f == FlipOf(b, flag, z)
<1>1. /\ b \in Seq(Qubits) /\ flag \in Qubits /\ flag \notin K /\ K \in SUBSET Qubits /\ Z \in SUBSET Qubits
      /\ D \in SUBSET Qubits
  BY EqualityWires
<1>2. flag \in D /\ K \subseteq D /\ Z \subseteq D
  BY DEF EqualityQubits
<1>3. CASE z = <<>>
  <2>1. f = <<NotGate(flag, K)>>
    BY <1>3, OneControlled DEF FlipOf
  <2> HIDE DEF f, K, D, Z
  <2>2. f \in Seq(GatesOn({flag}, K)) /\ f \in Seq(GatesOn(Qubits, Qubits))
        /\ \A T \in SUBSET Qubits : After(f, T) = IF K \subseteq T THEN Toggle(T, flag) ELSE T
    BY <1>1, <2>1, AfterNot
  <2>3. f \in Seq(GatesOn(D, D))
    <3>1. {flag} \subseteq D /\ K \subseteq D
      BY <1>2
    <3> QED BY <2>2, <3>1, WiderGates
  <2>4. FlipsWhere(f, flag, K, Z)
    BY <2>2 DEF FlipsWhere
  <2> QED BY <2>3, <2>4 DEF f, K, D, Z
<1>4. CASE z # <<>>
  <2> DEFINE E == {flag}
             L == LadderQubits(b, z)
             u == X(flag)
  <2>1. LadderLayout(b, z) /\ flag \notin Z
    BY <1>4 DEF EqualityRegisters
  <2>2. L = K \cup Z
    BY DEF LadderQubits
  <2>3. E \in SUBSET Qubits /\ E \cap L = {} /\ E \cup L \subseteq D
    BY <1>1, <1>2, <2>1, <2>2
  <2>4. u \in Seq(GatesOn(E, E)) /\ \A S \in SUBSET Qubits : After(u, S) = Toggle(S, flag)
    BY <1>1, OneNot
  <2>5. f = MultiControlledUWithAncilla(b, z, u)
    BY <1>4 DEF FlipOf
  <2> HIDE DEF f, K, D, Z, u, E
  <2>6. f \in Seq(GatesOn(Qubits, Qubits))
        /\ \A S \in SUBSET Qubits : S \cap Z = {} => After(f, S) = IF K \subseteq S THEN After(u, S) ELSE S
    BY <2>1, <2>3, <2>4, <2>5, MultiControlledRuns DEF K, Z
  <2>7. f \in Seq(GatesOn(E \cup L, E \cup L))
    BY <2>1, <2>3, <2>4, <2>5, MultiControlledType
  <2> HIDE DEF L
  <2>8. f \in Seq(GatesOn(D, D))
    BY <2>3, <2>7, WiderGates
  <2>9. FlipsWhere(f, flag, K, Z)
    BY <2>4, <2>6 DEF FlipsWhere
  <2> QED BY <2>8, <2>9 DEF f, K, D, Z
<1> QED BY <1>3, <1>4

LEMMA EqualityType ==
  ASSUME NEW a, NEW b, NEW flag, NEW z, EqualityRegisters(a, b, flag, z)
  PROVE  LET D == EqualityQubits(a, b, flag, z)
         IN  EqualityOf(a, b, FlipOf(b, flag, z)) \in Seq(GatesOn(D, D))
<1> DEFINE D == EqualityQubits(a, b, flag, z)
           Q == Seq(GatesOn(D, D))
           c == CXs(a, b)
           f == FlipOf(b, flag, z)
           m == Between(b, f)
           B == AsSet(a) \cup AsSet(b)
<1>1. b \in Seq(Qubits) /\ Unrepeated(b) /\ Beside(a, b) /\ D \in SUBSET Qubits
  BY EqualityWires
<1>2. B \subseteq D /\ D \cup AsSet(b) = D
  BY DEF EqualityQubits
<1>3. f \in Q
  BY FlipFlips
<1>4. c \in Seq(GatesOn(B, B))
  BY <1>1, CXsType
<1> HIDE DEF D, c, f, B
<1>5. c \in Q
  BY <1>2, <1>4, WiderGates
<1>6. m \in Seq(GatesOn(D \cup AsSet(b), D))
  BY <1>1, <1>3, BetweenType
<1>7. m \in Q
  BY <1>2, <1>6
<1>8. EqualityOf(a, b, f) = (c \o m) \o c
  BY DEF EqualityOf, c
<1> HIDE DEF m, Q
<1>9. c \o m \in Q
  BY <1>5, <1>7, ConcatProperties DEF Q
<1>10. (c \o m) \o c \in Q
  BY <1>5, <1>9, ConcatProperties DEF Q
<1> QED BY <1>8, <1>10 DEF Q, D, f

LEMMA EqualityFlips ==
  ASSUME NEW a, NEW b, NEW flag, NEW z, EqualityRegisters(a, b, flag, z),
         NEW S \in SUBSET Qubits, S \cap AsSet(z) = {}
  PROVE  After(EqualityOf(a, b, FlipOf(b, flag, z)), S) = Flip(S, flag, Number(a, S) = Number(b, S))
<1>1. EqualityLayout(a, b, flag) /\ AsSet(z) \cap AsSet(b) = {}
  BY EqualityWires
<1>2. FlipsWhere(FlipOf(b, flag, z), flag, AsSet(b), AsSet(z))
  BY FlipFlips
<1> QED BY <1>1, <1>2, EqualityChecks

-----------------------------------------------------------------------------
(* Two registers loaded from two others.                                     *)

LoadLayout(s, d, r, e) ==
  Beside(s, d) /\ Beside(r, e) /\ Disjoint(d, e) /\ Disjoint(r, d)
Loads(s, d, r, e) == CXs(s, d) \o CXs(r, e)

LEMMA LoadsLoad ==
  ASSUME NEW s, NEW d, NEW r, NEW e, LoadLayout(s, d, r, e), NEW S \in SUBSET Qubits,
         S \cap (AsSet(d) \cup AsSet(e)) = {}
  PROVE  /\ Loads(s, d, r, e) \in Seq(GatesOn(Qubits, Qubits))
         /\ After(Loads(s, d, r, e), S) = WithNumber(WithNumber(S, e, Number(r, S)), d, Number(s, S))
<1> DEFINE x == CXs(s, d)
           y == CXs(r, e)
           T == After(x, S)
           R == After(y, T)
           M == Mixed(e, R, S)
<1>1. Beside(s, d) /\ Beside(r, e) /\ Disjoint(d, e) /\ Disjoint(r, d)
  BY DEF LoadLayout
<1>2. x \in Seq(GatesOn(Qubits, Qubits)) /\ y \in Seq(GatesOn(Qubits, Qubits))
  BY <1>1, CXsType
<1>3. T \in SUBSET Qubits /\ IsTurned(s, d, S, T)
  BY <1>1, CXsTurn
<1> HIDE DEF T
<1>4. R \in SUBSET Qubits /\ IsTurned(r, e, T, R)
  BY <1>1, <1>3, CXsTurn
<1> HIDE DEF R
<1>5. After(Loads(s, d, r, e), S) = R /\ Loads(s, d, r, e) \in Seq(GatesOn(Qubits, Qubits))
  <2> HIDE DEF x, y
  <2>1. Loads(s, d, r, e) = x \o y
    BY DEF Loads, x, y
  <2> QED BY <1>2, <2>1, AfterConcat, ConcatProperties DEF R, T
<1>6. /\ \A j \in 1 .. Len(d) : s[j] \in Qubits /\ s[j] \notin AsSet(d) /\ d[j] \in Qubits /\ d[j] \in AsSet(d)
      /\ \A j \in 1 .. Len(e) : r[j] \in Qubits /\ r[j] \in AsSet(r) /\ e[j] \in Qubits /\ e[j] \in AsSet(e)
  BY <1>1, BesideQubits
<1>7. d \in Seq(Qubits) /\ e \in Seq(Qubits) /\ r \in Seq(Qubits) /\ s \in Seq(Qubits)
      /\ Len(d) = Len(s) /\ Len(e) = Len(r)
  BY <1>1 DEF Beside
<1>8. ASSUME NEW j \in 1 .. Len(d) PROVE d[j] \in R <=> s[j] \in S
  <2>1. d[j] \in T <=> ~ (d[j] \in S <=> s[j] \in S)
    BY <1>3 DEF IsTurned
  <2>2. d[j] \notin S
    BY <1>6
  <2>3. d[j] \in R <=> d[j] \in T
    BY <1>1, <1>4, <1>6 DEF IsTurned, AlikeOff, Disjoint
  <2> QED BY <2>1, <2>2, <2>3
<1>9. ASSUME NEW j \in 1 .. Len(e) PROVE e[j] \in R <=> r[j] \in S
  <2>1. e[j] \in R <=> ~ (e[j] \in T <=> r[j] \in T)
    BY <1>4 DEF IsTurned
  <2>2. (e[j] \in T <=> e[j] \in S) /\ (r[j] \in T <=> r[j] \in S)
    BY <1>1, <1>3, <1>6 DEF IsTurned, AlikeOff, Disjoint
  <2>3. e[j] \notin S
    BY <1>6
  <2> QED BY <2>1, <2>2, <2>3
<1>10. \A q \in Qubits : q \notin AsSet(d) /\ q \notin AsSet(e) => (q \in R <=> q \in S)
  BY <1>3, <1>4 DEF IsTurned, AlikeOff
<1>11. M \in SUBSET Qubits /\ \A q \in Qubits : q \in M <=> IF q \in AsSet(e) THEN q \in R ELSE q \in S
  BY DEF Mixed
<1> HIDE DEF M
<1>12. M = WithNumber(S, e, Number(r, S))
  <2>1. AlikeDigits(e, M, r, S)
    BY <1>6, <1>9, <1>11 DEF AlikeDigits
  <2>2. AlikeOff(e, M, S)
    BY <1>11 DEF AlikeOff
  <2> QED BY <1>7, <1>11, <2>1, <2>2, NumberCopied
<1>13. R = WithNumber(M, d, Number(s, S))
  <2>1. AlikeDigits(d, R, s, S)
    BY <1>8 DEF AlikeDigits
  <2>2. AlikeOff(d, R, M)
    BY <1>10, <1>11 DEF AlikeOff
  <2> QED BY <1>4, <1>7, <1>11, <2>1, <2>2, NumberCopied
<1> QED BY <1>5, <1>12, <1>13

-----------------------------------------------------------------------------
(* The calls of the arithmetic blocks.                                       *)

Uncontrolled(k) == Optional(k, "on") = <<>> /\ Optional(k, "off") = <<>>
Controlled(k, D) == {"on", "off"} \subseteq DOMAIN k /\ Controls(k.on, k.off, D)
Empty(k, qubits) == qubits \cap AsSet(k.free) = {}

(* What a caller has to see to: for the blocks that look at their registers  *)
(* themselves only that these are registers, and that the ancilla is 0.      *)
AdderCall(k) ==
  /\ k.block = "RippleCarryAdder" /\ Uncontrolled(k)
  /\ k.adder \in Seq(Qubits) /\ k.sum \in Seq(Qubits) /\ k.ancilla \in Qubits
  /\ k.adder # <<>> /\ k.noOverflow \in BOOLEAN

ControlledAdditionCall(k) ==
  /\ k.block = "ControlledAddition" /\ k.noOverflow \in BOOLEAN
  /\ AdderLayout(k.adder, k.sum, k.ancilla)
  /\ Controlled(k, AdderQubits(k.adder, k.sum, k.ancilla))
  /\ ControlledRoom(k.adder, k.sum, k.on, k.off, k.noOverflow)

(* A subtraction is made without an ancilla unless it is given one.          *)
SubtractionRegisters(k) ==
  /\ k.larger \in Seq(Qubits) /\ k.smaller \in Seq(Qubits) /\ k.larger # <<>>
  /\ k.ancilla \in Int
  /\ k.ancilla >= 0 =>
       k.ancilla \notin AsSet(k.larger) \cup AsSet(k.smaller) /\ Empty(k, {k.ancilla})
SubtractionSpan(k) ==
  IF k.ancilla < 0 THEN SubtractionQubits(k.larger, k.smaller)
                   ELSE AdderQubits(k.smaller, k.larger, k.ancilla)
SubtractionCall(k) == k.block = "Subtraction" /\ Uncontrolled(k) /\ SubtractionRegisters(k)
ControlledSubtractionCall(k) ==
  /\ k.block = "ControlledSubtraction" /\ SubtractionRegisters(k)
  /\ Controlled(k, SubtractionSpan(k))

MultiplicationRegisters(k) ==
  /\ MultiplyLayout(k.a, k.b, k.result, k.ancilla)
  /\ Empty(k, {k.ancilla} \cup AsSet(k.result))
MultiplicationCall(k) == k.block = "Multiplication" /\ Uncontrolled(k) /\ MultiplicationRegisters(k)
ControlledMultiplicationCall(k) ==
  /\ k.block = "ControlledMultiplication" /\ MultiplicationRegisters(k)
  /\ Controlled(k, MultiplyQubits(k.a, k.b, k.result, k.ancilla))

CompareCall(k) ==
  /\ k.block = "CompareGT" /\ Uncontrolled(k)
  /\ k.a \in Seq(Qubits) /\ k.b \in Seq(Qubits) /\ k.a # <<>>
  /\ k.flag \in Qubits /\ k.ancilla \in Qubits
  /\ ~ Refused(k) => Empty(k, {k.ancilla})

SwapCall(k) ==
  /\ k.block = "ControlledSwap" /\ SwapLayout(k.a, k.b)
  /\ Controlled(k, SwapQubits(k.a, k.b))

EqualityCall(k) ==
  /\ k.block = "EqualityChecker" /\ EqualityRegisters(k.a, k.b, k.flag, k.ancilla)
  /\ Empty(k, AsSet(k.ancilla))
  /\ Controlled(k, EqualityQubits(k.a, k.b, k.flag, k.ancilla))

(* The decoder's: the letter is compared with the one before it, loaded from *)
(* the string, or loaded into it.                                            *)
RepeatCall(k) ==
  /\ k.block = "InitRepeatFlag" /\ Uncontrolled(k) /\ k.iteration \in Nat
  /\ EqualityLayout(k.letter, Part(k.string, k.iteration - 1, Len(k.letter)), k.repeats[k.iteration + 1])

LetterOf(k) == Part(k.string, k.iteration, Len(k.letter))
MetricOf(k) == Part(k.metric, k.iteration, Len(k.nextMetric))
QPrimeCall(k) ==
  /\ k.block = "QPrime" /\ Uncontrolled(k)
  /\ LoadLayout(MetricOf(k), k.nextMetric, LetterOf(k), k.letter)
  /\ Empty(k, AsSet(k.nextMetric) \cup AsSet(k.letter))
UPrimeCall(k) ==
  /\ k.block = "UPrime" /\ Uncontrolled(k)
  /\ LoadLayout(k.nextMetric, MetricOf(k), k.letter, LetterOf(k))
  /\ Empty(k, AsSet(MetricOf(k)) \cup AsSet(LetterOf(k)))

WellCalled(k) ==
  /\ AsSet(k.free) \subseteq Qubits
  /\ \/ AdderCall(k) \/ ControlledAdditionCall(k)
     \/ SubtractionCall(k) \/ ControlledSubtractionCall(k)
     \/ MultiplicationCall(k) \/ ControlledMultiplicationCall(k)
     \/ CompareCall(k) \/ SwapCall(k) \/ EqualityCall(k)
     \/ RepeatCall(k) \/ QPrimeCall(k) \/ UPrimeCall(k)

(* What the circuit of such a call is to be.                                 *)
Result(k, S) == IF Holds(S, Optional(k, "on"), Optional(k, "off")) THEN BlockResult(k, S) ELSE S
Works(k) ==
  /\ CircuitOf(k) \in Seq(GatesOn(Qubits, Qubits))
  /\ \A S \in SUBSET AsSet(k.free) : After(CircuitOf(k), S) = Result(k, S)

LEMMA NotOverlapping ==
  ASSUME NEW a \in Seq(Qubits), NEW b \in Seq(Qubits), ~ Overlapping(a, b)
  PROVE  Unrepeated(a) /\ Unrepeated(b) /\ Disjoint(a, b)
BY DistinctRegister DEF Overlapping

LEMMA AnyCircuit ==
  ASSUME NEW D \in SUBSET Qubits, NEW c \in Seq(GatesOn(D, D))
  PROVE  c \in Seq(GatesOn(Qubits, Qubits))
BY AnyGates

LEMMA AdderWorks == ASSUME NEW k, AsSet(k.free) \subseteq Qubits, AdderCall(k), ~ Refused(k) PROVE Works(k)
<1>1. /\ k.block = "RippleCarryAdder" /\ Uncontrolled(k) /\ k.noOverflow \in BOOLEAN
      /\ k.adder \in Seq(Qubits) /\ k.sum \in Seq(Qubits) /\ k.ancilla \in Qubits /\ k.adder # <<>>
  BY DEF AdderCall
<1>2. ~ RippleCarryAdderRefuses(k.adder, k.sum, k.ancilla, k.noOverflow)
  BY <1>1 DEF Refused
<1>3. CircuitOf(k) = RippleCarryAdder(k.adder, k.sum, k.ancilla, k.noOverflow)
  BY <1>1 DEF CircuitOf, ArithmeticOf
<1>4. \A S : BlockResult(k, S) = Added(k.adder, k.sum, k.ancilla, k.noOverflow, S)
  BY <1>1 DEF BlockResult, ArithmeticResult, Added
<1>5. Len(k.adder) \in Nat /\ Len(k.sum) \in Nat
  BY <1>1, LenProperties
<1>6. AdderLayout(k.adder, k.sum, k.ancilla)
  <2>1. ~ Overlapping(k.adder, k.sum) /\ Len(k.adder) <= Len(k.sum) /\ k.ancilla \notin AsSet(k.adder) \cup AsSet(k.sum)
    BY <1>2, <1>5 DEF RippleCarryAdderRefuses
  <2>2. Unrepeated(k.adder) /\ Unrepeated(k.sum) /\ Disjoint(k.adder, k.sum)
    BY <1>1, <2>1, NotOverlapping
  <2> QED BY <1>1, <2>1, <2>2 DEF AdderLayout
<1>7. k.noOverflow \/ Len(k.adder) + 1 <= Len(k.sum)
  BY <1>2, <1>5 DEF RippleCarryAdderRefuses
<1>8. Adds(CircuitOf(k), k.adder, k.sum, k.ancilla, k.noOverflow)
  BY <1>1, <1>3, <1>6, <1>7, RippleCarryAdderAdds
<1>9. CircuitOf(k) \in Seq(GatesOn(Qubits, Qubits))
  BY <1>8, AnyCircuit DEF Adds
<1>10. \A S \in SUBSET Qubits : After(CircuitOf(k), S) = Added(k.adder, k.sum, k.ancilla, k.noOverflow, S)
  BY <1>8 DEF Adds
<1>11. \A S \in SUBSET Qubits : Result(k, S) = BlockResult(k, S)
  BY <1>1, NoControls DEF Result, Uncontrolled
<1> QED BY <1>4, <1>9, <1>10, <1>11 DEF Works

LEMMA ControlledAdditionWorks ==
  ASSUME NEW k, AsSet(k.free) \subseteq Qubits, ControlledAdditionCall(k) PROVE Works(k)
<1> DEFINE D == AdderQubits(k.adder, k.sum, k.ancilla)
           K == D \cup AsSet(k.on) \cup AsSet(k.off)
<1>1. /\ k.block = "ControlledAddition" /\ k.noOverflow \in BOOLEAN
      /\ AdderLayout(k.adder, k.sum, k.ancilla)
      /\ {"on", "off"} \subseteq DOMAIN k /\ Controls(k.on, k.off, D)
      /\ ControlledRoom(k.adder, k.sum, k.on, k.off, k.noOverflow)
  BY DEF ControlledAdditionCall, Controlled
<1>2. Optional(k, "on") = k.on /\ Optional(k, "off") = k.off
  BY <1>1 DEF Optional
<1>3. CircuitOf(k) = ControlledAddition(k.adder, k.sum, k.ancilla, k.on, k.off, k.noOverflow)
  BY <1>1 DEF CircuitOf, ArithmeticOf
<1>4. \A S : BlockResult(k, S) = Added(k.adder, k.sum, k.ancilla, k.noOverflow, S)
  BY <1>1 DEF BlockResult, ArithmeticResult, Added
<1>5. AddsWhere(CircuitOf(k), k.adder, k.sum, k.ancilla, k.on, k.off, k.noOverflow)
  BY <1>1, <1>3, ControlledAdditionAdds
<1>6. D \in SUBSET Qubits
  <2>1. AsSet(k.adder) \in SUBSET Qubits /\ AsSet(k.sum) \in SUBSET Qubits /\ k.ancilla \in Qubits
    BY <1>1, RegisterType DEF AdderLayout
  <2> QED BY <2>1 DEF AdderQubits
<1>7. K \in SUBSET Qubits
  <2> HIDE DEF D
  <2> QED BY <1>1, <1>6, ControlsType
<1>8. CircuitOf(k) \in Seq(GatesOn(Qubits, Qubits))
  <2>1. CircuitOf(k) \in Seq(GatesOn(K, K))
    BY <1>5 DEF AddsWhere
  <2> HIDE DEF K
  <2> QED BY <1>7, <2>1, AnyCircuit
<1>9. \A S \in SUBSET Qubits : After(CircuitOf(k), S)
        = IF Holds(S, k.on, k.off) THEN Added(k.adder, k.sum, k.ancilla, k.noOverflow, S) ELSE S
  BY <1>5 DEF AddsWhere
<1> HIDE DEF D, K
<1> QED BY <1>2, <1>4, <1>8, <1>9 DEF Works, Result

LEMMA SubtractionOfCall ==
  ASSUME NEW k, AsSet(k.free) \subseteq Qubits, SubtractionRegisters(k),
         ~ SubtractionRefuses(k.larger, k.smaller)
  PROVE  LET c == Subtraction(k.larger, k.smaller, k.ancilla)
             D == SubtractionSpan(k)
         IN  /\ D \in SUBSET Qubits /\ c \in Seq(GatesOn(D, D))
             /\ \A S \in SUBSET AsSet(k.free) :
                  After(c, S) = WithNumber(S, k.larger, Number(k.larger, S) - Number(k.smaller, S))
<1> DEFINE c == Subtraction(k.larger, k.smaller, k.ancilla)
           D == SubtractionSpan(k)
<1>1. /\ k.larger \in Seq(Qubits) /\ k.smaller \in Seq(Qubits) /\ k.larger # <<>>
      /\ k.ancilla \in Int
      /\ k.ancilla >= 0 =>
           k.ancilla \notin AsSet(k.larger) \cup AsSet(k.smaller) /\ Empty(k, {k.ancilla})
  BY DEF SubtractionRegisters
<1>2. Len(k.larger) = Len(k.smaller) /\ ~ Overlapping(k.larger, k.smaller)
  BY DEF SubtractionRefuses
<1>3. Unrepeated(k.larger) /\ Unrepeated(k.smaller) /\ Disjoint(k.smaller, k.larger)
  BY <1>1, <1>2, NotOverlapping DEF Disjoint
<1>4. CASE k.ancilla < 0
  <2>1. SubtractionLayout(k.larger, k.smaller)
    BY <1>1, <1>2, <1>3 DEF SubtractionLayout
  <2>2. D = SubtractionQubits(k.larger, k.smaller)
    BY <1>4 DEF SubtractionSpan
  <2>3. D \in SUBSET Qubits /\ c \in Seq(GatesOn(D, D))
    BY <1>1, <1>4, <2>1, <2>2, SubtractionInPlace
  <2>4. \A S \in SUBSET Qubits :
          After(c, S) = WithNumber(S, k.larger, Number(k.larger, S) - Number(k.smaller, S))
    BY <1>1, <1>4, <2>1, SubtractionInPlace
  <2> HIDE DEF c, D
  <2>5. \A S \in SUBSET AsSet(k.free) :
          After(c, S) = WithNumber(S, k.larger, Number(k.larger, S) - Number(k.smaller, S))
    BY <2>4
  <2> QED BY <2>3, <2>5 DEF c, D
<1>5. CASE k.ancilla >= 0
  <2>1. k.smaller # <<>> /\ Len(k.smaller) <= Len(k.larger)
    BY <1>1, <1>2, EmptySeq, LenProperties
  <2>2. AdderLayout(k.smaller, k.larger, k.ancilla)
    BY <1>1, <1>3, <1>5, <2>1 DEF AdderLayout, Qubits
  <2>3. D = AdderQubits(k.smaller, k.larger, k.ancilla)
    BY <1>1, <1>5 DEF SubtractionSpan
  <2>4. D \in SUBSET Qubits /\ c \in Seq(GatesOn(D, D))
    BY <1>2, <1>5, <2>2, <2>3, SubtractionSubtracts
  <2>5. \A S \in SUBSET Qubits : k.ancilla \notin S =>
          After(c, S) = WithNumber(S, k.larger, Number(k.larger, S) - Number(k.smaller, S))
    BY <1>2, <1>5, <2>2, SubtractionSubtracts
  <2>6. \A S \in SUBSET AsSet(k.free) : S \in SUBSET Qubits /\ k.ancilla \notin S
    BY <1>1, <1>5 DEF Empty
  <2> HIDE DEF c, D
  <2>7. \A S \in SUBSET AsSet(k.free) :
          After(c, S) = WithNumber(S, k.larger, Number(k.larger, S) - Number(k.smaller, S))
    BY <2>5, <2>6
  <2> QED BY <2>4, <2>7 DEF c, D
<1> QED BY <1>1, <1>4, <1>5

LEMMA SubtractionWorks ==
  ASSUME NEW k, AsSet(k.free) \subseteq Qubits, SubtractionCall(k), ~ Refused(k) PROVE Works(k)
<1> DEFINE D == SubtractionSpan(k)
           c == Subtraction(k.larger, k.smaller, k.ancilla)
<1>1. k.block = "Subtraction" /\ Uncontrolled(k) /\ SubtractionRegisters(k)
  BY DEF SubtractionCall
<1>2. ~ SubtractionRefuses(k.larger, k.smaller)
  BY <1>1 DEF Refused
<1>3. CircuitOf(k) = c
  BY <1>1 DEF CircuitOf, ArithmeticOf
<1>4. \A S : BlockResult(k, S) = WithNumber(S, k.larger, Number(k.larger, S) - Number(k.smaller, S))
  BY <1>1 DEF BlockResult, ArithmeticResult
<1>5. D \in SUBSET Qubits /\ c \in Seq(GatesOn(D, D))
  BY <1>1, <1>2, SubtractionOfCall
<1>6. \A S \in SUBSET AsSet(k.free) : After(c, S) = BlockResult(k, S)
  BY <1>1, <1>2, <1>4, SubtractionOfCall
<1> HIDE DEF c, D
<1>7. c \in Seq(GatesOn(Qubits, Qubits))
  BY <1>5, AnyCircuit
<1>8. \A S : Result(k, S) = BlockResult(k, S)
  BY <1>1, NoControls DEF Result, Uncontrolled
<1> QED BY <1>3, <1>6, <1>7, <1>8 DEF Works

(* A circuit that does what it is to, run under controls.                    *)
LEMMA UnderControls ==
  ASSUME NEW k, {"on", "off"} \subseteq DOMAIN k, NEW D \in SUBSET Qubits, Controls(k.on, k.off, D),
         NEW c \in Seq(GatesOn(D, D)), CircuitOf(k) = Conditioned(c, k.on, k.off), AsSet(k.free) \subseteq Qubits,
         \A S \in SUBSET AsSet(k.free) : After(c, S) = BlockResult(k, S)
  PROVE  Works(k)
<1> DEFINE d == Conditioned(c, k.on, k.off)
           K == D \cup AsSet(k.on) \cup AsSet(k.off)
<1>1. Optional(k, "on") = k.on /\ Optional(k, "off") = k.off
  BY DEF Optional
<1>2. K \in SUBSET Qubits
  BY ControlsType
<1>3. d \in Seq(GatesOn(K, K))
  BY ConditionedType
<1>4. \A S \in SUBSET Qubits : After(d, S) = IF Holds(S, k.on, k.off) THEN After(c, S) ELSE S
  BY ConditionedRuns
<1> HIDE DEF d, K
<1>5. d \in Seq(GatesOn(Qubits, Qubits))
  BY <1>2, <1>3, AnyCircuit
<1>6. \A S \in SUBSET AsSet(k.free) : After(d, S) = Result(k, S)
  <2>1. \A S \in SUBSET AsSet(k.free) : S \in SUBSET Qubits
    OBVIOUS
  <2> QED BY <1>1, <1>4, <2>1 DEF Result
<1> QED BY <1>5, <1>6 DEF Works, d

LEMMA ControlledSubtractionWorks ==
  ASSUME NEW k, AsSet(k.free) \subseteq Qubits, ControlledSubtractionCall(k), ~ Refused(k) PROVE Works(k)
<1> DEFINE D == SubtractionSpan(k)
           c == Subtraction(k.larger, k.smaller, k.ancilla)
<1>1. k.block = "ControlledSubtraction" /\ SubtractionRegisters(k)
      /\ {"on", "off"} \subseteq DOMAIN k /\ Controls(k.on, k.off, D)
  BY DEF ControlledSubtractionCall, Controlled
<1>2. ~ SubtractionRefuses(k.larger, k.smaller)
  BY <1>1 DEF Refused
<1>3. CircuitOf(k) = Conditioned(c, k.on, k.off)
  BY <1>1 DEF CircuitOf, ArithmeticOf, ControlledSubtraction
<1>4. \A S : BlockResult(k, S) = WithNumber(S, k.larger, Number(k.larger, S) - Number(k.smaller, S))
  BY <1>1 DEF BlockResult, ArithmeticResult
<1>5. D \in SUBSET Qubits /\ c \in Seq(GatesOn(D, D))
  BY <1>1, <1>2, SubtractionOfCall
<1>6. \A S \in SUBSET AsSet(k.free) : After(c, S) = BlockResult(k, S)
  BY <1>1, <1>2, <1>4, SubtractionOfCall
<1> HIDE DEF c, D
<1> QED BY <1>1, <1>3, <1>5, <1>6, UnderControls

LEMMA MultiplicationOfCall ==
  ASSUME NEW k, MultiplicationRegisters(k), AsSet(k.free) \subseteq Qubits
  PROVE  LET c == Multiplication(k.a, k.b, k.result, k.ancilla)
             D == MultiplyQubits(k.a, k.b, k.result, k.ancilla)
         IN  /\ D \in SUBSET Qubits /\ c \in Seq(GatesOn(D, D))
             /\ \A S \in SUBSET AsSet(k.free) :
                  After(c, S) = WithNumber(S, k.result, Number(k.a, S) * Number(k.b, S))
<1> DEFINE c == Multiplication(k.a, k.b, k.result, k.ancilla)
           D == MultiplyQubits(k.a, k.b, k.result, k.ancilla)
<1>1. MultiplyLayout(k.a, k.b, k.result, k.ancilla) /\ Empty(k, {k.ancilla} \cup AsSet(k.result))
  BY DEF MultiplicationRegisters
<1>2. D \in SUBSET Qubits /\ c \in Seq(GatesOn(D, D))
  BY <1>1, MultiplicationMultiplies
<1>3. \A S \in SUBSET AsSet(k.free) : S \in SUBSET Qubits /\ k.ancilla \notin S /\ S \cap AsSet(k.result) = {}
  BY <1>1 DEF Empty
<1>4. \A S \in SUBSET Qubits : k.ancilla \notin S /\ S \cap AsSet(k.result) = {} =>
        After(c, S) = WithNumber(S, k.result, Number(k.a, S) * Number(k.b, S))
  BY <1>1, MultiplicationMultiplies
<1> HIDE DEF c, D
<1>5. \A S \in SUBSET AsSet(k.free) : After(c, S) = WithNumber(S, k.result, Number(k.a, S) * Number(k.b, S))
  BY <1>3, <1>4
<1> QED BY <1>2, <1>5 DEF c, D

LEMMA MultiplicationWorks ==
  ASSUME NEW k, AsSet(k.free) \subseteq Qubits, MultiplicationCall(k) PROVE Works(k)
<1> DEFINE D == MultiplyQubits(k.a, k.b, k.result, k.ancilla)
           c == Multiplication(k.a, k.b, k.result, k.ancilla)
<1>1. k.block = "Multiplication" /\ Uncontrolled(k) /\ MultiplicationRegisters(k)
  BY DEF MultiplicationCall
<1>2. CircuitOf(k) = c
  BY <1>1 DEF CircuitOf, ArithmeticOf
<1>3. \A S : BlockResult(k, S) = WithNumber(S, k.result, Number(k.a, S) * Number(k.b, S))
  BY <1>1 DEF BlockResult, ArithmeticResult
<1>4. D \in SUBSET Qubits /\ c \in Seq(GatesOn(D, D))
  BY <1>1, MultiplicationOfCall
<1>5. \A S \in SUBSET AsSet(k.free) : After(c, S) = BlockResult(k, S)
  BY <1>1, <1>3, MultiplicationOfCall
<1> HIDE DEF c, D
<1>6. c \in Seq(GatesOn(Qubits, Qubits))
  BY <1>4, AnyCircuit
<1>7. \A S : Result(k, S) = BlockResult(k, S)
  BY <1>1, NoControls DEF Result, Uncontrolled
<1> QED BY <1>2, <1>5, <1>6, <1>7 DEF Works

LEMMA ControlledMultiplicationWorks ==
  ASSUME NEW k, AsSet(k.free) \subseteq Qubits, ControlledMultiplicationCall(k) PROVE Works(k)
<1> DEFINE D == MultiplyQubits(k.a, k.b, k.result, k.ancilla)
           c == Multiplication(k.a, k.b, k.result, k.ancilla)
<1>1. k.block = "ControlledMultiplication" /\ MultiplicationRegisters(k)
      /\ {"on", "off"} \subseteq DOMAIN k /\ Controls(k.on, k.off, D)
  BY DEF ControlledMultiplicationCall, Controlled
<1>2. CircuitOf(k) = Conditioned(c, k.on, k.off)
  BY <1>1 DEF CircuitOf, ArithmeticOf, ControlledMultiplication
<1>3. \A S : BlockResult(k, S) = WithNumber(S, k.result, Number(k.a, S) * Number(k.b, S))
  BY <1>1 DEF BlockResult, ArithmeticResult
<1>4. D \in SUBSET Qubits /\ c \in Seq(GatesOn(D, D))
  BY <1>1, MultiplicationOfCall
<1>5. \A S \in SUBSET AsSet(k.free) : After(c, S) = BlockResult(k, S)
  BY <1>1, <1>3, MultiplicationOfCall
<1> HIDE DEF c, D
<1> QED BY <1>1, <1>2, <1>4, <1>5, UnderControls

LEMMA CompareWorks ==
  ASSUME NEW k, AsSet(k.free) \subseteq Qubits, CompareCall(k), ~ Refused(k) PROVE Works(k)
<1> DEFINE D == AdderQubits(k.b, k.a \o <<k.flag>>, k.ancilla)
           c == CompareGT(k.a, k.b, k.flag, k.ancilla)
<1>1. /\ k.block = "CompareGT" /\ Uncontrolled(k)
      /\ k.a \in Seq(Qubits) /\ k.b \in Seq(Qubits) /\ k.a # <<>>
      /\ k.flag \in Qubits /\ k.ancilla \in Qubits /\ Empty(k, {k.ancilla})
  BY DEF CompareCall
<1>2. ~ CompareGTRefuses(k.a, k.b, k.flag, k.ancilla)
  BY <1>1 DEF Refused
<1>3. CircuitOf(k) = c
  BY <1>1 DEF CircuitOf, ArithmeticOf
<1>4. \A S : BlockResult(k, S) = Flip(S, k.flag, Number(k.a, S) > Number(k.b, S))
  BY <1>1 DEF BlockResult, ArithmeticResult
<1>5. CompareLayout(k.a, k.b, k.flag, k.ancilla)
  <2>1. Len(k.a) = Len(k.b) /\ ~ Overlapping(k.a, k.b) /\ k.flag # k.ancilla
        /\ k.flag \notin AsSet(k.a) \cup AsSet(k.b) /\ k.ancilla \notin AsSet(k.a) \cup AsSet(k.b)
    BY <1>2 DEF CompareGTRefuses
  <2>2. Unrepeated(k.a) /\ Unrepeated(k.b) /\ Disjoint(k.a, k.b)
    BY <1>1, <2>1, NotOverlapping
  <2>3. k.b # <<>>
    BY <1>1, <2>1, EmptySeq
  <2> QED BY <1>1, <2>1, <2>2, <2>3 DEF CompareLayout
<1>6. D \in SUBSET Qubits /\ c \in Seq(GatesOn(D, D))
  BY <1>5, CompareGTCompares
<1>7. \A S \in SUBSET AsSet(k.free) : After(c, S) = BlockResult(k, S)
  <2>1. \A S \in SUBSET AsSet(k.free) : S \in SUBSET Qubits /\ k.ancilla \notin S
    BY <1>1 DEF Empty
  <2>2. \A S \in SUBSET Qubits : k.ancilla \notin S =>
          After(c, S) = Flip(S, k.flag, Number(k.a, S) > Number(k.b, S))
    BY <1>5, CompareGTCompares
  <2> HIDE DEF c
  <2> QED BY <1>4, <2>1, <2>2
<1> HIDE DEF c, D
<1>8. c \in Seq(GatesOn(Qubits, Qubits))
  BY <1>6, AnyCircuit
<1>9. \A S : Result(k, S) = BlockResult(k, S)
  BY <1>1, NoControls DEF Result, Uncontrolled
<1> QED BY <1>3, <1>7, <1>8, <1>9 DEF Works

LEMMA SwapWorks ==
  ASSUME NEW k, AsSet(k.free) \subseteq Qubits, SwapCall(k) PROVE Works(k)
<1> DEFINE D == SwapQubits(k.a, k.b)
           c == Swap(k.a, k.b)
<1>1. k.block = "ControlledSwap" /\ SwapLayout(k.a, k.b)
      /\ {"on", "off"} \subseteq DOMAIN k /\ Controls(k.on, k.off, D)
  BY DEF SwapCall, Controlled
<1>2. CircuitOf(k) = Conditioned(c, k.on, k.off)
  BY <1>1 DEF CircuitOf, ControlledSwap, Swap
<1>3. \A S : BlockResult(k, S) = WithNumber(WithNumber(S, k.a, Number(k.b, S)), k.b, Number(k.a, S))
  BY <1>1 DEF BlockResult
<1>4. D \in SUBSET Qubits /\ c \in Seq(GatesOn(D, D))
  BY <1>1, SwapType
<1>5. \A S \in SUBSET AsSet(k.free) : After(c, S) = BlockResult(k, S)
  <2>1. \A S \in SUBSET Qubits : After(c, S) = WithNumber(WithNumber(S, k.a, Number(k.b, S)), k.b, Number(k.a, S))
    BY <1>1, SwapSwaps
  <2> HIDE DEF c
  <2> QED BY <1>3, <2>1
<1> HIDE DEF c, D
<1> QED BY <1>1, <1>2, <1>4, <1>5, UnderControls

LEMMA EqualityWorks ==
  ASSUME NEW k, AsSet(k.free) \subseteq Qubits, EqualityCall(k) PROVE Works(k)
<1> DEFINE D == EqualityQubits(k.a, k.b, k.flag, k.ancilla)
           f == FlipOf(k.b, k.flag, k.ancilla)
           c == EqualityOf(k.a, k.b, f)
<1>1. k.block = "EqualityChecker" /\ EqualityRegisters(k.a, k.b, k.flag, k.ancilla)
      /\ Empty(k, AsSet(k.ancilla))
      /\ {"on", "off"} \subseteq DOMAIN k /\ Controls(k.on, k.off, D)
  BY DEF EqualityCall, Controlled
<1>2. CircuitOf(k) = Conditioned(c, k.on, k.off)
  <2>1. CircuitOf(k) = EqualityChecker(k.a, k.b, k.flag, k.on, k.off, k.ancilla)
    BY <1>1 DEF CircuitOf
  <2> QED BY <2>1 DEF EqualityChecker, EqualityOf, FlipOf
<1>3. \A S : BlockResult(k, S) = Flip(S, k.flag, Number(k.a, S) = Number(k.b, S))
  BY <1>1 DEF BlockResult
<1>4. D \in SUBSET Qubits /\ c \in Seq(GatesOn(D, D))
  BY <1>1, EqualityWires, EqualityType
<1>5. \A S \in SUBSET AsSet(k.free) : After(c, S) = BlockResult(k, S)
  <2>1. \A S \in SUBSET Qubits : S \cap AsSet(k.ancilla) = {} =>
          After(c, S) = Flip(S, k.flag, Number(k.a, S) = Number(k.b, S))
    BY <1>1, EqualityFlips
  <2>2. \A S \in SUBSET AsSet(k.free) : S \in SUBSET Qubits /\ S \cap AsSet(k.ancilla) = {}
    BY <1>1 DEF Empty
  <2> HIDE DEF c
  <2> QED BY <1>3, <2>1, <2>2
<1> HIDE DEF c, D
<1> QED BY <1>1, <1>2, <1>4, <1>5, UnderControls

(* A circuit without controls that does what it is to.                       *)
LEMMA Unconditional ==
  ASSUME NEW k, Uncontrolled(k), CircuitOf(k) \in Seq(GatesOn(Qubits, Qubits)),
         \A S \in SUBSET AsSet(k.free) : After(CircuitOf(k), S) = BlockResult(k, S)
  PROVE  Works(k)
<1>1. \A S : Result(k, S) = BlockResult(k, S)
  BY NoControls DEF Result, Uncontrolled
<1> QED BY <1>1 DEF Works

LEMMA RepeatWorks ==
  ASSUME NEW k, AsSet(k.free) \subseteq Qubits, RepeatCall(k) PROVE Works(k)
<1> DEFINE a == k.letter
           n == Len(k.letter)
           b == Part(k.string, k.iteration - 1, n)
           flag == k.repeats[k.iteration + 1]
           none == <<>>
           f == FlipOf(b, flag, none)
           e == EqualityOf(a, b, f)
           c == Conditioned(e, none, none)
           D == EqualityQubits(a, b, flag, none)
<1>1. k.block = "InitRepeatFlag" /\ Uncontrolled(k) /\ k.iteration \in Nat /\ EqualityLayout(a, b, flag)
  BY DEF RepeatCall
<1>2. CircuitOf(k) = c
  <2>1. CircuitOf(k) = InitRepeatFlag(k.iteration, k.string, k.letter, k.repeats)
    BY <1>1 DEF CircuitOf
  <2>2. (k.iteration - 1) + 1 = k.iteration
    BY <1>1
  <2>3. b = SubSeq(k.string, (k.iteration - 1) * n + 1, k.iteration * n)
    BY <2>2 DEF Part
  <2>4. CircuitOf(k) = EqualityChecker(a, b, flag, <<>>, <<>>, <<>>)
    BY <2>1, <2>3 DEF InitRepeatFlag
  <2> QED BY <2>4 DEF EqualityChecker, EqualityOf, FlipOf
<1>3. \A S : BlockResult(k, S) = Flip(S, flag, Number(a, S) = Number(b, S))
  BY <1>1 DEF BlockResult, DecoderResult
<1>4. none \in Seq(Qubits) /\ AsSet(none) = {} /\ Unrepeated(none) /\ Disjoint(none, none) /\ DOMAIN none = {}
  BY DEF AsSet, Unrepeated, Disjoint
<1>5. EqualityRegisters(a, b, flag, none)
  BY <1>1, <1>4 DEF EqualityRegisters
<1> HIDE DEF a, n, b, flag
<1>6. D \in SUBSET Qubits /\ e \in Seq(GatesOn(D, D))
  <2> HIDE DEF none
  <2> QED BY <1>5, EqualityWires, EqualityType
<1>7. \A S \in SUBSET Qubits : After(e, S) = Flip(S, flag, Number(a, S) = Number(b, S))
  <2> HIDE DEF none
  <2>1. \A S \in SUBSET Qubits : S \cap AsSet(none) = {}
    BY <1>4
  <2> QED BY <1>5, <2>1, EqualityFlips
<1> HIDE DEF e, D
<1>8. Controls(none, none, D)
  BY <1>4 DEF Controls
<1>9. \A S : Holds(S, none, none)
  BY NoControls
<1> HIDE DEF none
<1>10. c \in Seq(GatesOn(Qubits, Qubits))
  <2> DEFINE K == D \cup AsSet(none) \cup AsSet(none)
  <2>1. c \in Seq(GatesOn(K, K)) /\ K \in SUBSET Qubits
    BY <1>6, <1>8, ConditionedType, ControlsType
  <2> HIDE DEF K, c
  <2> QED BY <2>1, AnyCircuit
<1>11. \A S \in SUBSET Qubits : After(c, S) = After(e, S)
  BY <1>6, <1>8, <1>9, ConditionedRuns
<1> HIDE DEF c
<1>12. \A S \in SUBSET AsSet(k.free) : After(c, S) = BlockResult(k, S)
  BY <1>3, <1>7, <1>11
<1> QED BY <1>1, <1>2, <1>10, <1>12, Unconditional

LEMMA LoadWorks ==
  ASSUME NEW k, AsSet(k.free) \subseteq Qubits, Uncontrolled(k),
         NEW s, NEW d, NEW r, NEW e, LoadLayout(s, d, r, e), Empty(k, AsSet(d) \cup AsSet(e)),
         CircuitOf(k) = Loads(s, d, r, e),
         \A S : BlockResult(k, S) = WithNumber(WithNumber(S, e, Number(r, S)), d, Number(s, S))
  PROVE  Works(k)
<1>1. CircuitOf(k) \in Seq(GatesOn(Qubits, Qubits))
  <2> DEFINE S == {}
  <2>1. S \in SUBSET Qubits /\ S \cap (AsSet(d) \cup AsSet(e)) = {}
    OBVIOUS
  <2> HIDE DEF S
  <2> QED BY <2>1, LoadsLoad
<1>2. \A S \in SUBSET AsSet(k.free) : S \in SUBSET Qubits /\ S \cap (AsSet(d) \cup AsSet(e)) = {}
  BY DEF Empty
<1>3. \A S \in SUBSET AsSet(k.free) : After(CircuitOf(k), S) = BlockResult(k, S)
  BY <1>2, LoadsLoad
<1> QED BY <1>1, <1>3, Unconditional

LEMMA QPrimeWorks ==
  ASSUME NEW k, AsSet(k.free) \subseteq Qubits, QPrimeCall(k) PROVE Works(k)
<1> DEFINE s == MetricOf(k)
           d == k.nextMetric
           r == LetterOf(k)
           e == k.letter
<1>1. k.block = "QPrime" /\ Uncontrolled(k) /\ LoadLayout(s, d, r, e) /\ Empty(k, AsSet(d) \cup AsSet(e))
  BY DEF QPrimeCall
<1>2. CircuitOf(k) = Loads(s, d, r, e)
  BY <1>1 DEF CircuitOf, QPrime, Loads, MetricOf, LetterOf
<1>3. \A S : BlockResult(k, S) = WithNumber(WithNumber(S, e, Number(r, S)), d, Number(s, S))
  BY <1>1 DEF BlockResult, DecoderResult, MetricOf, LetterOf
<1> HIDE DEF s, d, r, e
<1> QED BY <1>1, <1>2, <1>3, LoadWorks

LEMMA UPrimeWorks ==
  ASSUME NEW k, AsSet(k.free) \subseteq Qubits, UPrimeCall(k) PROVE Works(k)
<1> DEFINE s == k.nextMetric
           d == MetricOf(k)
           r == k.letter
           e == LetterOf(k)
<1>1. k.block = "UPrime" /\ Uncontrolled(k) /\ LoadLayout(s, d, r, e) /\ Empty(k, AsSet(d) \cup AsSet(e))
  BY DEF UPrimeCall
<1>2. CircuitOf(k) = Loads(s, d, r, e)
  BY <1>1 DEF CircuitOf, UPrime, Loads, MetricOf, LetterOf
<1>3. \A S : BlockResult(k, S) = WithNumber(WithNumber(S, e, Number(r, S)), d, Number(s, S))
  BY <1>1 DEF BlockResult, DecoderResult, MetricOf, LetterOf
<1> HIDE DEF s, d, r, e
<1> QED BY <1>1, <1>2, <1>3, LoadWorks

LEMMA CallsWork == ASSUME NEW k, WellCalled(k), ~ Refused(k) PROVE Works(k)
<1>1. AsSet(k.free) \subseteq Qubits
  BY DEF WellCalled
<1> QED BY <1>1, AdderWorks, ControlledAdditionWorks, SubtractionWorks, ControlledSubtractionWorks,
           MultiplicationWorks, ControlledMultiplicationWorks, CompareWorks, SwapWorks, EqualityWorks,
           RepeatWorks, QPrimeWorks, UPrimeWorks DEF WellCalled

-----------------------------------------------------------------------------
(* The run: a circuit of X gates takes a basis state along its path.         *)

CallCircuit == Circuit[call]
AlongThePath ==
  LET c == CallCircuit
  IN  \/ pc = Before /\ state = Basis(input)
      \/ pc \in 0 .. Len(c) /\ state = Basis(Path(c, input)[pc])
      \/ pc = Over /\ state = Basis(After(c, input))
OnTheWay ==
  /\ call \in DOMAIN CallList
  /\ WellCalled(Made) => input \in SUBSET AsSet(Made.free) /\ AlongThePath

LEMMA CallCircuits ==
  ASSUME call \in DOMAIN CallList, WellCalled(Made)
  PROVE  /\ CallCircuit \in Seq(GatesOn(Qubits, Qubits))
         /\ Refused(Made) => CallCircuit = <<>>
         /\ ~ Refused(Made) => CallCircuit = CircuitOf(Made)
<1>1. CallCircuit = Expanded(Made)
  BY DEF CallCircuit, Circuit, ForEach, Made
<1>2. Refused(Made) => CallCircuit = <<>>
  BY <1>1 DEF Expanded
<1>3. ~ Refused(Made) => CallCircuit = CircuitOf(Made) /\ Works(Made)
  BY <1>1, CallsWork DEF Expanded
<1>4. <<>> \in Seq(GatesOn(Qubits, Qubits))
  BY EmptySeq
<1> QED BY <1>2, <1>3, <1>4 DEF Works

LEMMA NextGate ==
  ASSUME NEW c \in Seq(GatesOn(Qubits, Qubits)), pc \in 0 .. Len(c), NEW g \in Pending(c)
  PROVE  pc + 1 \in 1 .. Len(c) /\ g = c[pc + 1] /\ g \in GatesOn(Qubits, Qubits)
<1>1. DOMAIN c = 1 .. Len(c) /\ \A i \in 1 .. Len(c) : c[i] \in GatesOn(Qubits, Qubits)
  BY LenProperties, ElementOfSeq
<1> QED BY <1>1 DEF Pending

LEMMA GateActs ==
  ASSUME NEW g \in GatesOn(Qubits, Qubits), NEW S \in SUBSET Qubits
  PROVE  Outcomes(g, Basis(S)) = {Basis(Act(g, S))} /\ WellFormed(g, Basis(S))
<1>1. g.name = "X" /\ g.target \notin g.controls
  BY DEF GatesOn
<1>2. Basis(S).dual = {} /\ Basis(S).ones = S
  BY DEF Basis
<1>3. [Basis(S) EXCEPT !.ones = Toggle(S, g.target)] = Basis(Toggle(S, g.target))
  BY DEF Basis
<1>4. CASE ~ g.controls \subseteq S
  BY <1>1, <1>2, <1>4 DEF Outcomes, WellFormed, Act
<1>5. CASE g.controls \subseteq S
  <2>1. Outcomes(g, Basis(S)) = {[Basis(S) EXCEPT !.ones = Toggle(@, g.target)]}
    BY <1>1, <1>2, <1>5 DEF Outcomes
  <2> QED BY <1>1, <1>2, <1>3, <1>5, <2>1 DEF WellFormed, Act
<1> QED BY <1>4, <1>5

LEMMA StartsOnTheWay == Init => OnTheWay
BY DEF Init, OnTheWay, AlongThePath, Made

LEMMA ExpandStep == ASSUME OnTheWay, Expand PROVE OnTheWay'
<1>1. call' = call /\ input' = input /\ state' = state /\ pc = Before /\ pc' = 0
  BY DEF Expand
<1>2. Made' = Made /\ CallCircuit' = CallCircuit
  BY <1>1 DEF Made, CallCircuit
<1>3. ASSUME WellCalled(Made) PROVE AlongThePath'
  <2> DEFINE c == CallCircuit
  <2>1. call \in DOMAIN CallList /\ input \in SUBSET Qubits /\ AlongThePath
    BY <1>3 DEF OnTheWay, WellCalled
  <2>2. c \in Seq(GatesOn(Qubits, Qubits))
    BY <1>3, <2>1, CallCircuits
  <2>3. state = Basis(input)
    BY <1>1, <2>1, <2>2, LenProperties DEF AlongThePath, Before, Over
  <2>4. Path(c, input)[0] = input /\ 0 \in 0 .. Len(c)
    BY <2>1, <2>2, PathSteps, LenProperties
  <2> HIDE DEF c
  <2>5. pc' \in 0 .. Len(c) /\ state' = Basis(Path(c, input)[pc'])
    BY <1>1, <2>3, <2>4
  <2> QED BY <1>1, <1>2, <2>5 DEF AlongThePath, c
<1> QED BY <1>1, <1>2, <1>3 DEF OnTheWay

LEMMA GateStep == ASSUME OnTheWay, Step PROVE OnTheWay'
<1>1. PICK g \in Pending(CallCircuit) : Apply(g) \/ ApplyMean(g)
  BY DEF Step, CallCircuit
<1>2. call' = call /\ input' = input /\ pc >= 0 /\ pc' = pc + 1
  BY <1>1 DEF Step, Apply, ApplyMean
<1>3. Made' = Made /\ CallCircuit' = CallCircuit
  BY <1>2 DEF Made, CallCircuit
<1>4. ASSUME WellCalled(Made) PROVE AlongThePath'
  <2> DEFINE c == CallCircuit
  <2>1. call \in DOMAIN CallList /\ input \in SUBSET Qubits /\ AlongThePath
    BY <1>4 DEF OnTheWay, WellCalled
  <2>2. c \in Seq(GatesOn(Qubits, Qubits))
    BY <1>4, <2>1, CallCircuits
  <2>3. pc \in 0 .. Len(c) /\ state = Basis(Path(c, input)[pc])
    BY <1>2, <2>1 DEF AlongThePath, Before, Over
  <2> DEFINE S == Path(c, input)[pc]
  <2>4. S \in SUBSET Qubits
    BY <2>1, <2>2, <2>3, PathSteps
  <2>5. pc + 1 \in 1 .. Len(c) /\ g = c[pc + 1] /\ g \in GatesOn(Qubits, Qubits)
    BY <1>1, <2>2, <2>3, NextGate
  <2>6. Path(c, input)[pc + 1] = Act(g, S)
    <3>1. Path(c, input)[pc + 1] = Act(c[pc + 1], Path(c, input)[(pc + 1) - 1])
      BY <2>1, <2>2, <2>5, PathSteps
    <3>2. (pc + 1) - 1 = pc
      BY <2>3, <2>2, LenProperties
    <3> QED BY <2>5, <3>1, <3>2
  <2> HIDE DEF S, c
  <2>7. state' \in Outcomes(g, state)
    <3>1. g.name = "X"
      BY <2>5 DEF GatesOn
    <3> QED BY <1>1, <3>1 DEF Apply, ApplyMean
  <2>8. state' = Basis(Act(g, S))
    BY <2>3, <2>4, <2>5, <2>7, GateActs DEF S
  <2>9. pc' \in 0 .. Len(c) /\ state' = Basis(Path(c, input)[pc'])
    <3>1. Len(c) \in Nat
      BY <2>2, LenProperties
    <3> QED BY <1>2, <2>5, <2>6, <2>8, <3>1
  <2> QED BY <1>2, <1>3, <2>9 DEF AlongThePath, c
<1> QED BY <1>2, <1>3, <1>4 DEF OnTheWay

LEMMA FinishStep == ASSUME OnTheWay, Finish PROVE OnTheWay'
<1>1. call' = call /\ input' = input /\ state' = state /\ pc = Len(CallCircuit) /\ pc' = Over
  BY DEF Finish, CallCircuit
<1>2. Made' = Made /\ CallCircuit' = CallCircuit
  BY <1>1 DEF Made, CallCircuit
<1>3. ASSUME WellCalled(Made) PROVE AlongThePath'
  <2> DEFINE c == CallCircuit
  <2>1. call \in DOMAIN CallList /\ AlongThePath
    BY <1>3 DEF OnTheWay
  <2>2. c \in Seq(GatesOn(Qubits, Qubits))
    BY <1>3, <2>1, CallCircuits
  <2>3. state = Basis(After(c, input))
    <3>1. Len(c) \in Nat
      BY <2>2, LenProperties
    <3> QED BY <1>1, <2>1, <3>1 DEF AlongThePath, Before, Over, After
  <2> HIDE DEF c
  <2>4. pc' = Over /\ state' = Basis(After(c, input'))
    BY <1>1, <2>3
  <2> QED BY <1>2, <2>4 DEF AlongThePath, c
<1> QED BY <1>1, <1>2, <1>3 DEF OnTheWay

LEMMA StaysOnTheWay == OnTheWay /\ [Next]_vars => OnTheWay'
<1> SUFFICES ASSUME OnTheWay, [Next]_vars PROVE OnTheWay'
  OBVIOUS
<1>1. CASE Expand
  BY <1>1, ExpandStep
<1>2. CASE Step
  BY <1>2, GateStep
<1>3. CASE Finish
  BY <1>3, FinishStep
<1>4. CASE UNCHANGED vars
  BY <1>4 DEF vars, OnTheWay, AlongThePath, Made, CallCircuit
<1> QED BY <1>1, <1>2, <1>3, <1>4 DEF Next, Done

LEMMA OnTheWayComputes == ASSUME OnTheWay, WellCalled(Made) PROVE Computes
<1> DEFINE c == CallCircuit
<1>1. call \in DOMAIN CallList /\ input \in SUBSET AsSet(Made.free) /\ AsSet(Made.free) \subseteq Qubits /\ AlongThePath
  BY DEF OnTheWay, WellCalled
<1>2. c \in Seq(GatesOn(Qubits, Qubits)) /\ (~ Refused(Made) => c = CircuitOf(Made)) /\ input \in SUBSET Qubits
  BY <1>1, CallCircuits
<1>3. GatesAreLegal
  <2> SUFFICES ASSUME pc >= 0, NEW g \in Pending(c) PROVE WellFormed(g, state)
    BY DEF GatesAreLegal, CallCircuit
  <2>1. pc \in 0 .. Len(c) /\ state = Basis(Path(c, input)[pc])
    BY <1>1 DEF AlongThePath, Before, Over
  <2>2. Path(c, input)[pc] \in SUBSET Qubits
    BY <1>2, <2>1, PathSteps
  <2>3. g \in GatesOn(Qubits, Qubits)
    BY <1>2, <2>1, NextGate
  <2> HIDE DEF c
  <2> QED BY <2>1, <2>2, <2>3, GateActs
<1>4. ASSUME Finished, ~ Refused(Made) PROVE state = Basis(Promised)
  <2>1. state = Basis(After(c, input))
    <3>1. pc = Over
      BY <1>4 DEF Finished
    <3>2. Len(c) \in Nat
      BY <1>2, LenProperties
    <3> QED BY <1>1, <3>1, <3>2 DEF AlongThePath, Before, Over
  <2>2. Works(Made)
    BY <1>4, CallsWork
  <2> HIDE DEF c
  <2>3. After(c, input) = Result(Made, input)
    BY <1>1, <1>2, <1>4, <2>2 DEF Works
  <2>4. Result(Made, input) = Promised
    BY DEF Result, Promised
  <2> QED BY <2>1, <2>3, <2>4
<1> QED BY <1>3, <1>4 DEF Computes

(* Additions, subtractions (with an ancilla and without), multiplications,   *)
(* comparisons, swaps, equality checks and the loads and flags of the        *)
(* decoder on registers of any length, under any controls or none, leave     *)
(* what they are named for in their registers and every other qubit as it    *)
(* was, by legal gates; adders and comparators that are passed registers     *)
(* they cannot use append nothing (ripple_adder.cpp,                         *)
(* controlled_addition.cpp, subtraction.cpp, multiplication.cpp,             *)
(* compare_gt.cpp, controlled_swap.cpp, equality_checker.cpp,                *)
(* init_rep_flag.cpp, q_prime_unitary.cpp, u_prime_unitary.cpp).             *)
THEOREM CallsCompute == Spec => [](WellCalled(Made) => Computes)
<1>1. Init => OnTheWay
  BY StartsOnTheWay
<1>2. OnTheWay /\ [Next]_vars => OnTheWay'
  BY StaysOnTheWay
<1>3. OnTheWay => (WellCalled(Made) => Computes)
  BY OnTheWayComputes
<1> QED BY <1>1, <1>2, <1>3, PTL DEF Spec
=============================================================================
