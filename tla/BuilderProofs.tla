---------------------------- MODULE BuilderProofs ----------------------------
(* That the circuits of CircuitBuilder.tla have the gates they were asked    *)
(* for, list their free parameters in order, and run as a whole: for all     *)
(* builders, sessions, programs and gates, and sequences of any length.      *)
(*                                                                           *)
(* The order: what the operators on instructions and lists of names do; what *)
(* each call adds; the invariant BuilderInv, in which nothing is disabled    *)
(* but by a run under way; its first two consequences; then the stronger     *)
(* WholeInv, in which what a run has before it is what it owes.              *)
EXTENDS CircuitBuilder, InductionFacts, FiniteSetTheorems

-----------------------------------------------------------------------------
(* Instructions: gates, and blocks of gates whose parameters are numbers.    *)

NumberGates == {g \in PlainGates : ~ Symbolic(g)}
BlockInsts == [name : {"C-U"}, on : Seq(Nat), params : {<<>>}, id : Nat \ {0}, inside : Seq(NumberGates)]
Instrs == PlainGates \cup BlockInsts

LEMMA InsideType ==
  ASSUME NEW inst \in Instrs
  PROVE  /\ Inside(inst) \in Seq(PlainGates)
         /\ inst \in PlainGates => inst.id = 0 /\ Inside(inst) = <<inst>>
         /\ inst \in BlockInsts => inst.id # 0 /\ inst.id \in Nat /\ Inside(inst) = inst.inside
                                   /\ inst.inside \in Seq(NumberGates)
<1>1. CASE inst \in PlainGates
  <2>1. inst.id = 0
    BY <1>1 DEF PlainGates
  <2>2. inst \notin BlockInsts
    BY <2>1 DEF BlockInsts
  <2>3. Inside(inst) = <<inst>>
    BY <2>1 DEF Inside
  <2>4. <<inst>> \in Seq(PlainGates)
    BY <1>1
  <2> QED
    BY <2>1, <2>2, <2>3, <2>4
<1>2. CASE inst \in BlockInsts
  <2>1. inst.id \in Nat \ {0} /\ inst.inside \in Seq(NumberGates)
    BY <1>2 DEF BlockInsts
  <2>2. inst \notin PlainGates
    BY <2>1 DEF PlainGates
  <2>3. Inside(inst) = inst.inside
    BY <2>1 DEF Inside
  <2>4. inst.inside \in Seq(PlainGates)
    BY <2>1, SeqMonotonic DEF NumberGates
  <2> QED
    BY <2>1, <2>2, <2>3, <2>4
<1> QED
  BY <1>1, <1>2 DEF Instrs

InsideOf == [inst \in Instrs |-> Inside(inst)]
ParamsIn == [g \in PlainGates |-> g.params]
OnOf == [g \in PlainGates |-> g.on]

LEMMA InsideOfType == InsideOf \in [Instrs -> Seq(PlainGates)]
BY InsideType DEF InsideOf

LEMMA LeavesMap == ASSUME NEW c \in Seq(Instrs) PROVE Leaves(c) = FlatMap(c, InsideOf)
<1>1. \A i \in DOMAIN c : InsideOf[c[i]] = Inside(c[i])
  BY LenProperties, ElementOfSeq DEF InsideOf
<1>2. [i \in DOMAIN c |-> InsideOf[c[i]]] = [i \in DOMAIN c |-> Inside(c[i])]
  BY <1>1
<1> QED
  BY <1>2 DEF FlatMap, Leaves

LEMMA LeavesType == ASSUME NEW c \in Seq(Instrs) PROVE Leaves(c) \in Seq(PlainGates)
BY LeavesMap, InsideOfType, FlatMapType

LEMMA LeavesEmpty == Leaves(<< >>) = << >>
BY LeavesMap, FlatMapEmpty, EmptySeq

LEMMA LeavesConcat ==
  ASSUME NEW c \in Seq(Instrs), NEW d \in Seq(Instrs)
  PROVE  Leaves(c \o d) = Leaves(c) \o Leaves(d)
<1>1. c \o d \in Seq(Instrs)
  BY ConcatProperties
<1>2. FlatMap(c \o d, InsideOf) = FlatMap(c, InsideOf) \o FlatMap(d, InsideOf)
  BY InsideOfType, FlatMapConcat
<1> QED
  BY <1>1, <1>2, LeavesMap

LEMMA LeavesOne == ASSUME NEW inst \in Instrs PROVE Leaves(<<inst>>) = Inside(inst)
<1>1. <<inst>> \in Seq(Instrs)
  OBVIOUS
<1>2. FlatMap(<<inst>>, InsideOf) = InsideOf[inst]
  BY InsideOfType, FlatMapOne
<1>3. InsideOf[inst] = Inside(inst)
  BY DEF InsideOf
<1> QED
  BY <1>1, <1>2, <1>3, LeavesMap

LEMMA GatesAreInstrs == ASSUME NEW gs \in Seq(PlainGates) PROVE gs \in Seq(Instrs)
BY SeqMonotonic DEF Instrs

LEMMA LeavesOfGates == ASSUME NEW gs \in Seq(PlainGates) PROVE Leaves(gs) = gs
<1> DEFINE f == [g \in PlainGates |-> <<g>>]
<1>1. f \in [PlainGates -> Seq(PlainGates)] /\ \A g \in PlainGates : f[g] = <<g>>
  OBVIOUS
<1>2. \A i \in DOMAIN gs : Inside(gs[i]) = f[gs[i]]
  <2>1. \A i \in DOMAIN gs : gs[i] \in PlainGates
    BY LenProperties, ElementOfSeq
  <2> QED
    BY <2>1, InsideType DEF Instrs
<1> HIDE DEF f
<1>3. [i \in DOMAIN gs |-> Inside(gs[i])] = [i \in DOMAIN gs |-> f[gs[i]]]
  BY <1>2
<1>4. FlatMap(gs, f) = gs
  BY <1>1, FlatMapSame
<1> QED
  BY <1>3, <1>4 DEF Leaves, FlatMap

-----------------------------------------------------------------------------
(* The parameters of gates.                                                  *)

LEMMA ParamsInType == ParamsIn \in [PlainGates -> Seq(Parameters)]
BY DEF ParamsIn, PlainGates

LEMMA ParamsMap == ASSUME NEW gs \in Seq(PlainGates) PROVE ParamsOf(gs) = FlatMap(gs, ParamsIn)
<1>1. \A i \in DOMAIN gs : ParamsIn[gs[i]] = gs[i].params
  BY LenProperties, ElementOfSeq DEF ParamsIn
<1>2. [i \in DOMAIN gs |-> ParamsIn[gs[i]]] = [i \in DOMAIN gs |-> gs[i].params]
  BY <1>1
<1> QED
  BY <1>2 DEF FlatMap, ParamsOf

LEMMA ParamsType == ASSUME NEW gs \in Seq(PlainGates) PROVE ParamsOf(gs) \in Seq(Parameters)
BY ParamsMap, ParamsInType, FlatMapType

LEMMA ParamsEmpty == ParamsOf(<< >>) = << >>
BY ParamsMap, FlatMapEmpty, EmptySeq

LEMMA ParamsConcat ==
  ASSUME NEW gs \in Seq(PlainGates), NEW hs \in Seq(PlainGates)
  PROVE  ParamsOf(gs \o hs) = ParamsOf(gs) \o ParamsOf(hs)
<1>1. gs \o hs \in Seq(PlainGates)
  BY ConcatProperties
<1>2. FlatMap(gs \o hs, ParamsIn) = FlatMap(gs, ParamsIn) \o FlatMap(hs, ParamsIn)
  BY ParamsInType, FlatMapConcat
<1> QED
  BY <1>1, <1>2, ParamsMap

LEMMA ParamsOne == ASSUME NEW g \in PlainGates PROVE ParamsOf(<<g>>) = g.params
<1>1. <<g>> \in Seq(PlainGates)
  OBVIOUS
<1>2. FlatMap(<<g>>, ParamsIn) = ParamsIn[g]
  BY ParamsInType, FlatMapOne
<1>3. ParamsIn[g] = g.params
  BY DEF ParamsIn
<1> QED
  BY <1>1, <1>2, <1>3, ParamsMap

LEMMA ParamsRange ==
  ASSUME NEW gs \in Seq(PlainGates)
  PROVE  Range(ParamsOf(gs)) = UNION {Range(g.params) : g \in Range(gs)}
<1>1. Range(FlatMap(gs, ParamsIn)) = UNION {Range(ParamsIn[g]) : g \in Range(gs)}
  BY ParamsInType, FlatMapRange
<1>2. \A g \in Range(gs) : g \in PlainGates /\ ParamsIn[g] = g.params
  BY LenProperties, ElementOfSeq DEF ParamsIn, Range
<1> QED
  BY <1>1, <1>2, ParamsMap

-----------------------------------------------------------------------------
(* The names on a list and in parameters.                                    *)

LEMMA WithNameType ==
  ASSUME NEW N, NEW list \in Seq(N), NEW p \in N
  PROVE  /\ WithName(list, p) \in Seq(N)
         /\ Range(WithName(list, p)) = Range(list) \cup ({p} \ {"number"})
<1>1. Contains(list, p) <=> p \in Range(list)
  BY LenProperties DEF Contains, Range
<1>2. Append(list, p) \in Seq(N) /\ Range(Append(list, p)) = Range(list) \cup {p}
  BY AppendProperties, RangeOfAppend
<1> QED
  BY <1>1, <1>2 DEF WithName

NamesStepByStep(f, list, ps) ==
  /\ f[0] = list
  /\ \A i \in 1 .. Len(ps) : f[i] = WithName(f[i - 1], ps[i])
  /\ WithNames(list, ps) = f[Len(ps)]

LEMMA WithNamesSteps ==
  ASSUME NEW N, NEW list \in Seq(N), NEW ps \in Seq(N)
  PROVE  \E f \in [0 .. Len(ps) -> Seq(N)] : NamesStepByStep(f, list, ps)
<1> DEFINE n == Len(ps)
           Body(h) == [i \in 0 .. n |-> IF i = 0 THEN list ELSE WithName(h[i - 1], ps[i])]
           step == [q \in Seq(N) \X (1 .. n) |-> WithName(q[1], ps[q[2]])]
<1>0. n \in Nat /\ \A i \in 1 .. n : ps[i] \in N
  BY LenProperties, ElementOfSeq
<1>s. step \in [Seq(N) \X (1 .. n) -> Seq(N)]
  <2>1. \A q \in Seq(N) \X (1 .. n) : WithName(q[1], ps[q[2]]) \in Seq(N)
    BY <1>0, WithNameType
  <2> QED
    BY <2>1
<1>1. \A t \in Seq(N), i \in 1 .. n : step[<<t, i>>] = WithName(t, ps[i])
  <2>1. ASSUME NEW t \in Seq(N), NEW i \in 1 .. n PROVE step[<<t, i>>] = WithName(t, ps[i])
    <3>1. <<t, i>> \in Seq(N) \X (1 .. n)
      OBVIOUS
    <3> HIDE DEF n
    <3> QED
      BY <3>1
  <2> QED
    BY <2>1
<1> HIDE DEF step, n
<1>2. PICK f \in [0 .. n -> Seq(N)] : Recursion(f, n, list, step)
  BY <1>0, <1>s, RecursionOverInterval, Zenon
<1>3. f[0] = list /\ \A i \in 1 .. n : f[i] = WithName(f[i - 1], ps[i])
  <2>1. ASSUME NEW i \in 1 .. n PROVE f[i] = WithName(f[i - 1], ps[i])
    <3>1. f[i - 1] \in Seq(N)
      BY <1>0
    <3>2. f[i] = step[<<f[i - 1], i>>]
      BY <1>2 DEF Recursion
    <3> QED
      BY <1>1, <3>1, <3>2
  <2> QED
    BY <1>2, <2>1 DEF Recursion
<1>4. f = Body(f)
  <2>1. \A i \in 0 .. n : i # 0 => i \in 1 .. n
    BY <1>0
  <2>2. f = [i \in 0 .. n |-> f[i]]
    OBVIOUS
  <2>3. \A i \in 0 .. n : f[i] = IF i = 0 THEN list ELSE WithName(f[i - 1], ps[i])
    BY <1>3, <2>1
  <2> QED
    BY <2>2, <2>3
<1> DEFINE with == CHOOSE h : h = Body(h)
<1>5. with = Body(with)
  <2> HIDE DEF Body
  <2> QED
    BY <1>4
<1>6. WithNames(list, ps) = with[n]
  BY DEF WithNames, n
<1> HIDE DEF with
<1>7. with[0] = list /\ \A i \in 1 .. n : with[i] = WithName(with[i - 1], ps[i])
  <2>1. \A i \in 0 .. n : with[i] = IF i = 0 THEN list ELSE WithName(with[i - 1], ps[i])
    BY <1>5
  <2>2. 0 \in 0 .. n /\ \A i \in 1 .. n : i \in 0 .. n /\ i # 0
    BY <1>0
  <2> QED
    BY <2>1, <2>2
<1>8. GoOnAlike(f, with, n)
  BY <1>3, <1>7 DEF GoOnAlike
<1>9. f[n] = with[n]
  <2>1. \A i \in 0 .. n : f[i] = with[i]
    BY <1>0, <1>8, SameRecursion, SMTT(30)
  <2>2. n \in 0 .. n
    BY <1>0
  <2> QED
    BY <2>1, <2>2
<1> QED
  BY <1>3, <1>6, <1>9 DEF n, NamesStepByStep

LEMMA WithNamesEmpty == ASSUME NEW N, NEW list \in Seq(N) PROVE WithNames(list, << >>) = list
<1>1. << >> \in Seq(N) /\ Len(<< >>) = 0
  BY EmptySeq
<1>2. PICK f \in [0 .. Len(<< >>) -> Seq(N)] : NamesStepByStep(f, list, << >>)
  BY <1>1, WithNamesSteps
<1> QED
  BY <1>1, <1>2 DEF NamesStepByStep

LEMMA WithNamesType ==
  ASSUME NEW N, NEW list \in Seq(N), NEW ps \in Seq(N)
  PROVE  WithNames(list, ps) \in Seq(N)
<1>1. PICK f \in [0 .. Len(ps) -> Seq(N)] : WithNames(list, ps) = f[Len(ps)]
  BY WithNamesSteps DEF NamesStepByStep
<1>2. Len(ps) \in 0 .. Len(ps)
  BY LenProperties
<1> QED
  BY <1>1, <1>2

LEMMA WithNamesAppend ==
  ASSUME NEW N, NEW list \in Seq(N), NEW ps \in Seq(N), NEW p \in N
  PROVE  WithNames(list, Append(ps, p)) = WithName(WithNames(list, ps), p)
<1> DEFINE n == Len(ps)
           qs == Append(ps, p)
<1>1. n \in Nat /\ qs \in Seq(N) /\ Len(qs) = n + 1 /\ qs[n + 1] = p
      /\ \A i \in 1 .. n : qs[i] = ps[i]
  BY AppendProperties, LenProperties
<1> HIDE DEF n, qs
<1>2. PICK f \in [0 .. n -> Seq(N)] :
        f[0] = list /\ (\A i \in 1 .. n : f[i] = WithName(f[i - 1], ps[i])) /\ WithNames(list, ps) = f[n]
  BY WithNamesSteps, SMTT(30) DEF n, NamesStepByStep
<1>3. PICK g \in [0 .. Len(qs) -> Seq(N)] :
        /\ g[0] = list
        /\ \A i \in 1 .. Len(qs) : g[i] = WithName(g[i - 1], qs[i])
        /\ WithNames(list, qs) = g[Len(qs)]
  <2>1. \E g \in [0 .. Len(qs) -> Seq(N)] : NamesStepByStep(g, list, qs)
    BY <1>1, WithNamesSteps
  <2> QED
    BY <2>1 DEF NamesStepByStep
<1>4. GoOnAlike(f, g, n)
  <2>1. ASSUME NEW i \in 1 .. n, f[i - 1] = g[i - 1] PROVE f[i] = g[i]
    <3>1. i \in 1 .. Len(qs)
      BY <1>1
    <3> QED
      BY <1>1, <1>2, <1>3, <2>1, <3>1
  <2> QED
    BY <1>2, <1>3, <2>1 DEF GoOnAlike
<1>5. f[n] = g[n]
  <2>1. n \in 0 .. n
    BY <1>1
  <2>2. \A i \in 0 .. n : f[i] = g[i]
    <3>1. n \in Nat
      BY <1>1
    <3> QED
      BY <1>4, <3>1, SameRecursion, Zenon
  <2> QED
    BY <2>1, <2>2
<1>6. g[n + 1] = WithName(g[n], p)
  <2>1. n + 1 \in 1 .. Len(qs) /\ (n + 1) - 1 = n
    BY <1>1
  <2> QED
    BY <1>1, <1>3, <2>1
<1> QED
  BY <1>1, <1>2, <1>3, <1>5, <1>6 DEF qs

LEMMA WithNamesConcat ==
  ASSUME NEW N, NEW list \in Seq(N), NEW ps \in Seq(N), NEW qs \in Seq(N)
  PROVE  WithNames(list, ps \o qs) = WithNames(WithNames(list, ps), qs)
<1> DEFINE S == {u \in Seq(N) : WithNames(list, ps \o u) = WithNames(WithNames(list, ps), u)}
<1>0. WithNames(list, ps) \in Seq(N)
  BY WithNamesType
<1>1. << >> \in S
  <2>1. ps \o << >> = ps /\ << >> \in Seq(N)
    BY ConcatEmptySeq, EmptySeq
  <2> QED
    BY <1>0, <2>1, WithNamesEmpty
<1>2. ASSUME NEW u \in S, NEW x \in N PROVE Append(u, x) \in S
  <2>1. u \in Seq(N) /\ ps \o u \in Seq(N) /\ Append(u, x) \in Seq(N) /\ <<x>> \in Seq(N)
    BY AppendProperties, ConcatProperties
  <2>2. ps \o Append(u, x) = Append(ps \o u, x)
    <3>1. Append(u, x) = u \o <<x>> /\ Append(ps \o u, x) = (ps \o u) \o <<x>>
      BY <2>1, AppendIsConcat
    <3> QED
      BY <2>1, <3>1, ConcatAssociative
  <2>3. WithNames(list, Append(ps \o u, x)) = WithName(WithNames(list, ps \o u), x)
    <3>1. \A v \in Seq(N) : WithNames(list, Append(v, x)) = WithName(WithNames(list, v), x)
      BY WithNamesAppend
    <3> QED
      BY <2>1, <3>1
  <2>4. WithNames(WithNames(list, ps), Append(u, x)) = WithName(WithNames(WithNames(list, ps), u), x)
    BY <1>0, <2>1, WithNamesAppend
  <2>5. WithNames(list, ps \o u) = WithNames(WithNames(list, ps), u)
    BY <1>2
  <2>6. WithNames(list, ps \o Append(u, x)) = WithNames(WithNames(list, ps), Append(u, x))
    BY <2>2, <2>3, <2>4, <2>5, Zenon
  <2> QED
    BY <2>1, <2>6
<1>3. S = Seq(N)
  <2>1. S \in SUBSET Seq(N)
    OBVIOUS
  <2> HIDE DEF S
  <2> QED
    BY <1>1, <1>2, <2>1, SequenceInduction
<1> QED
  BY <1>3

LEMMA WithNamesOne ==
  ASSUME NEW N, NEW list \in Seq(N), NEW p \in N
  PROVE  WithNames(list, <<p>>) = WithName(list, p)
<1>1. << >> \in Seq(N) /\ <<p>> = Append(<< >>, p)
  BY EmptySeq
<1>2. WithNames(list, Append(<< >>, p)) = WithName(WithNames(list, << >>), p)
  BY <1>1, WithNamesAppend, ZenonT(30)
<1> QED
  BY <1>1, <1>2, WithNamesEmpty

(* Numbers, and names on the list, add nothing.                              *)
LEMMA WithNamesKnown ==
  ASSUME NEW N, NEW list \in Seq(N), NEW ps \in Seq(N), Range(ps) \subseteq Range(list) \cup {"number"}
  PROVE  WithNames(list, ps) = list
<1> DEFINE S == {u \in Seq(N) :
                   Range(u) \subseteq Range(list) \cup {"number"} => WithNames(list, u) = list}
<1>1. << >> \in S
  BY WithNamesEmpty, EmptySeq
<1>2. ASSUME NEW u \in S, NEW x \in N PROVE Append(u, x) \in S
  <2>1. u \in Seq(N) /\ Append(u, x) \in Seq(N) /\ Range(Append(u, x)) = Range(u) \cup {x}
    BY AppendProperties, RangeOfAppend
  <2>2. ASSUME Range(Append(u, x)) \subseteq Range(list) \cup {"number"}
        PROVE  WithNames(list, Append(u, x)) = list
    <3>1. WithNames(list, u) = list
      BY <1>2, <2>1, <2>2
    <3>2. WithNames(list, Append(u, x)) = WithName(list, x)
      BY <2>1, <3>1, WithNamesAppend
    <3>3. x = "number" \/ Contains(list, x)
      <4>1. x \in Range(list) \cup {"number"}
        BY <2>1, <2>2
      <4> QED
        BY <4>1, LenProperties DEF Contains, Range
    <3> QED
      BY <3>2, <3>3 DEF WithName
  <2> QED
    BY <2>1, <2>2
<1>3. S = Seq(N)
  <2>1. S \in SUBSET Seq(N)
    OBVIOUS
  <2> HIDE DEF S
  <2> QED
    BY <1>1, <1>2, <2>1, SequenceInduction
<1> QED
  BY <1>3

LEMMA WithNamesRange ==
  ASSUME NEW N, NEW list \in Seq(N), NEW ps \in Seq(N)
  PROVE  Range(WithNames(list, ps)) = Range(list) \cup (Range(ps) \ {"number"})
<1> DEFINE S == {u \in Seq(N) : Range(WithNames(list, u)) = Range(list) \cup (Range(u) \ {"number"})}
<1>1. << >> \in S
  BY WithNamesEmpty, EmptySeq, RangeOfEmpty
<1>2. ASSUME NEW u \in S, NEW x \in N PROVE Append(u, x) \in S
  <2>1. u \in Seq(N) /\ Append(u, x) \in Seq(N) /\ Range(Append(u, x)) = Range(u) \cup {x}
    BY AppendProperties, RangeOfAppend
  <2>2. WithNames(list, u) \in Seq(N)
    BY <2>1, WithNamesType
  <2>3. WithNames(list, Append(u, x)) = WithName(WithNames(list, u), x)
    BY <2>1, WithNamesAppend
  <2>4. Range(WithName(WithNames(list, u), x)) = Range(WithNames(list, u)) \cup ({x} \ {"number"})
    BY <2>2, WithNameType
  <2>5. Range(WithNames(list, u)) = Range(list) \cup (Range(u) \ {"number"})
    BY <1>2
  <2>6. Range(WithNames(list, Append(u, x))) = Range(list) \cup (Range(Append(u, x)) \ {"number"})
    BY <2>1, <2>3, <2>4, <2>5
  <2> QED
    BY <2>1, <2>6
<1>3. S = Seq(N)
  <2>1. S \in SUBSET Seq(N)
    OBVIOUS
  <2> HIDE DEF S
  <2> QED
    BY <1>1, <1>2, <2>1, SequenceInduction
<1> QED
  BY <1>3

-----------------------------------------------------------------------------
(* The gates that the calls add.                                             *)

LEMMA GateType ==
  ASSUME NEW name \in GateNames, NEW on \in Seq(Nat), NEW params \in Seq(Parameters)
  PROVE  Gate(name, on, params) \in PlainGates /\ Gate(name, on, params).params = params
BY DEF Gate, PlainGates

(* Gates without names leave the lists as they are, and only they.           *)
LEMMA NumbersAddNoNames ==
  ASSUME NEW gs \in Seq(NumberGates), NEW list \in Seq(Parameters)
  PROVE  gs \in Seq(PlainGates) /\ WithNames(list, ParamsOf(gs)) = list
<1>1. gs \in Seq(PlainGates)
  BY SeqMonotonic DEF NumberGates
<1>2. \A g \in Range(gs) : Range(g.params) \subseteq {"number"}
  <2>1. Range(gs) \subseteq NumberGates
    BY LenProperties, ElementOfSeq DEF Range
  <2> QED
    BY <2>1 DEF NumberGates, Symbolic, Range
<1>3. ParamsOf(gs) \in Seq(Parameters)
  BY <1>1, ParamsType
<1>4. Range(ParamsOf(gs)) \subseteq Range(list) \cup {"number"}
  <2>1. Range(ParamsOf(gs)) = UNION {Range(g.params) : g \in Range(gs)}
    BY <1>1, ParamsRange
  <2> QED
    BY <1>2, <2>1
<1> QED
  BY <1>1, <1>3, <1>4, WithNamesKnown

LEMMA OnlyNumbersAddNoNames ==
  ASSUME NEW gs \in Seq(PlainGates), WithNames(<< >>, ParamsOf(gs)) = << >>
  PROVE  gs \in Seq(NumberGates)
<1>1. << >> \in Seq(Parameters) /\ ParamsOf(gs) \in Seq(Parameters)
  BY EmptySeq, ParamsType
<1>2. Range(ParamsOf(gs)) \subseteq {"number"}
  <2>1. Range(WithNames(<< >>, ParamsOf(gs))) = Range(<< >>) \cup (Range(ParamsOf(gs)) \ {"number"})
    <3>1. \A l, ps \in Seq(Parameters) : Range(WithNames(l, ps)) = Range(l) \cup (Range(ps) \ {"number"})
      BY WithNamesRange
    <3> QED
      BY <1>1, <3>1
  <2> QED
    BY <2>1, RangeOfEmpty
<1>3. Len(gs) \in Nat /\ DOMAIN gs = 1 .. Len(gs) /\ gs \in [1 .. Len(gs) -> PlainGates]
  BY LenProperties
<1>4. \A g \in Range(gs) : ~ Symbolic(g)
  <2>1. Range(ParamsOf(gs)) = UNION {Range(g.params) : g \in Range(gs)}
    BY ParamsRange
  <2>2. ASSUME NEW g \in Range(gs), NEW i \in DOMAIN g.params PROVE g.params[i] = "number"
    <3>1. g.params[i] \in Range(g.params)
      BY DEF Range
    <3> QED
      BY <1>2, <2>1, <3>1
  <2> QED
    BY <2>2 DEF Symbolic
<1>5. gs \in [1 .. Len(gs) -> NumberGates]
  <2>1. \A i \in 1 .. Len(gs) : gs[i] \in PlainGates /\ gs[i] \in Range(gs)
    BY <1>3 DEF Range
  <2>2. \A i \in 1 .. Len(gs) : gs[i] \in NumberGates
    BY <1>4, <2>1 DEF NumberGates
  <2> QED
    BY <1>3, <2>2
<1> QED
  BY <1>3, <1>5, SeqDef

LEMMA RotationGates ==
  ASSUME NEW p \in Parameters, NEW list \in Seq(Parameters)
  PROVE  /\ CRX(0, 1, p) \in Seq(PlainGates)
         /\ WithNames(list, ParamsOf(CRX(0, 1, p))) = WithNames(list, <<p>>)
<1> DEFINE ry == Gate("Ry", <<1>>, <<"number">>)
           crz == Gate("CRZ", <<0, 1>>, <<p>>)
<1>1. ry \in PlainGates /\ ry.params = <<"number">> /\ crz \in PlainGates /\ crz.params = <<p>>
  <2>1. "number" \in Parameters /\ "Ry" \in GateNames /\ "CRZ" \in GateNames
    BY DEF Parameters, GateNames, BuiltIn
  <2>2. <<1>> \in Seq(Nat) /\ <<0, 1>> \in Seq(Nat)
    OBVIOUS
  <2>3. <<"number">> \in Seq(Parameters) /\ <<p>> \in Seq(Parameters)
    BY <2>1
  <2>4. Gate("Ry", <<1>>, <<"number">>) \in PlainGates /\ Gate("Ry", <<1>>, <<"number">>).params = <<"number">>
    BY <2>1, <2>2, <2>3, GateType
  <2>5. Gate("CRZ", <<0, 1>>, <<p>>) \in PlainGates /\ Gate("CRZ", <<0, 1>>, <<p>>).params = <<p>>
    BY <2>1, <2>2, <2>3, GateType
  <2> QED
    BY <2>4, <2>5
<1>2. CRX(0, 1, p) = <<ry, crz, ry>>
  BY DEF CRX
<1> HIDE DEF ry, crz
<1>3. <<ry>> \in Seq(PlainGates) /\ <<crz>> \in Seq(PlainGates) /\ <<ry, crz>> \in Seq(PlainGates)
      /\ <<ry, crz, ry>> \in Seq(PlainGates)
  BY <1>1
<1>e. <<ry, crz>> = <<ry>> \o <<crz>> /\ <<ry, crz, ry>> = <<ry, crz>> \o <<ry>>
  <2>1. <<ry, crz>> = Append(<<ry>>, crz) /\ <<ry, crz, ry>> = Append(<<ry, crz>>, ry)
    OBVIOUS
  <2> QED
    BY <1>1, <1>3, <2>1, AppendIsConcat
<1>4. ParamsOf(<<ry>>) = <<"number">> /\ ParamsOf(<<crz>>) = <<p>>
  BY <1>1, ParamsOne
<1>5. ParamsOf(<<ry, crz>>) = <<"number">> \o <<p>>
  BY <1>3, <1>e, <1>4, ParamsConcat
<1>6. ParamsOf(<<ry, crz, ry>>) = (<<"number">> \o <<p>>) \o <<"number">>
  BY <1>3, <1>e, <1>4, <1>5, ParamsConcat
<1>7. <<"number">> \in Seq(Parameters) /\ <<p>> \in Seq(Parameters) /\ <<"number">> \o <<p>> \in Seq(Parameters)
  <2>1. "number" \in Parameters
    BY DEF Parameters
  <2>2. <<"number">> \in Seq(Parameters) /\ <<p>> \in Seq(Parameters)
    BY <2>1
  <2> QED
    BY <2>2, ConcatProperties
<1>8. \A l \in Seq(Parameters) : WithNames(l, <<"number">>) = l
  <2>1. "number" \in Parameters
    BY DEF Parameters
  <2> QED
    BY <2>1, WithNamesOne DEF WithName
<1>c. \A l, ps, qs \in Seq(Parameters) : WithNames(l, ps \o qs) = WithNames(WithNames(l, ps), qs)
  BY WithNamesConcat
<1> DEFINE number == <<"number">>
           name == <<p>>
<1>d. number \in Seq(Parameters) /\ name \in Seq(Parameters) /\ number \o name \in Seq(Parameters)
  BY <1>7
<1>f. \A l \in Seq(Parameters) : WithNames(l, number) = l
  BY <1>8
<1> HIDE DEF number, name
<1>10. WithNames(list, number \o name) = WithNames(list, name)
  BY <1>c, <1>d, <1>f
<1>11. WithNames(list, (number \o name) \o number) = WithNames(list, name)
  <2>1. WithNames(list, name) \in Seq(Parameters)
    BY <1>d, WithNamesType
  <2> QED
    BY <1>c, <1>d, <1>f, <1>10, <2>1
<1> QED
  BY <1>2, <1>3, <1>6, <1>11 DEF number, name

GivenNames ==
  {"idx", "ctrl_idx", "target_idx", "q1", "q2", "theta", "phi", "lambda",
   "name", "param_name", "param_1", "param_2", "param_3"}

LEMMA ShortSequences ==
  ASSUME NEW X, NEW a \in X, NEW b \in X, NEW c \in X, NEW d \in X
  PROVE  <<a>> \in Seq(X) /\ <<a, b>> \in Seq(X) /\ <<a, b, c>> \in Seq(X) /\ <<a, b, c, d>> \in Seq(X)
OBVIOUS

LEMMA BindingParts ==
  ASSUME NEW name, NEW keys, NEW given
  PROVE  /\ Binding(Method(name, keys), given).given = given
         /\ Binding(Method(name, keys), given).method.generator = name
BY DEF Binding, Method

Rotations == {"CRX", "CRY"}

LEMMA GateCallShape ==
  ASSUME NEW call \in GateCalls
  PROVE  /\ call.given \in Seq(GivenNames)
         /\ call.method.generator \in Rotations =>
              \E a \in {"theta", "param_name"} : call.given = <<"ctrl_idx", "target_idx", a>>
<1>0. ASSUME NEW a \in GivenNames, NEW b \in GivenNames, NEW c \in GivenNames, NEW d \in GivenNames
      PROVE  /\ <<a>> \in Seq(GivenNames) /\ <<a, b>> \in Seq(GivenNames)
             /\ <<a, b, c>> \in Seq(GivenNames) /\ <<a, b, c, d>> \in Seq(GivenNames)
  BY ShortSequences
<1>1. /\ {"idx", "ctrl_idx", "target_idx", "q1", "q2", "theta", "phi", "lambda"} \subseteq GivenNames
      /\ {"name", "param_name", "param_1", "param_2", "param_3"} \subseteq GivenNames
  BY DEF GivenNames
<1>2. CASE call \in {cnot, swap, ch, measure}
  <2>1. call.given \in {<<"idx">>, <<"q1", "q2">>, <<"ctrl_idx", "target_idx">>}
    BY <1>2, BindingParts DEF cnot, swap, ch, measure, TwoQubit, Fixed, SWAP
  <2>2. call.method.generator \in {"CNOT", "Swap", "CH", "Measure"}
    BY <1>2, BindingParts DEF cnot, swap, ch, measure, TwoQubit, Fixed, SWAP
  <2>3. /\ <<"idx">> \in Seq(GivenNames) /\ <<"q1", "q2">> \in Seq(GivenNames)
        /\ <<"ctrl_idx", "target_idx">> \in Seq(GivenNames)
    BY <1>0, <1>1
  <2>4. call.method.generator \notin Rotations
    BY <2>2 DEF Rotations
  <2> QED
    BY <2>1, <2>3, <2>4
<1>3. CASE call \in one_qubit
  <2>1. PICK g \in {"H", "X", "Y", "Z", "T", "Tdg", "S", "Sdg"} : call = Binding(Fixed(g), <<"idx">>)
    BY <1>3 DEF one_qubit
  <2>2. call.given = <<"idx">> /\ call.method.generator = g
    BY <2>1, BindingParts DEF Fixed
  <2> QED
    BY <1>0, <1>1, <2>2 DEF Rotations
<1>4. CASE call \in rx_ry_rz \cup u1
  <2>1. PICK g \in {"Rx", "Ry", "Rz", "U1"}, a \in {"theta", "name", "param_name"} :
          call = Binding(Rotation(g), <<"idx", a>>)
    BY <1>4 DEF rx_ry_rz, u1
  <2>2. call.given = <<"idx", a>> /\ call.method.generator = g
    BY <2>1, BindingParts DEF Rotation
  <2> QED
    BY <1>0, <1>1, <2>2 DEF Rotations
<1>5. CASE call \in cphase \cup crz_crx_cry
  <2>1. PICK g \in {"CPhase", "CRZ", "CRX", "CRY"}, a \in {"theta", "param_name"} :
          call = Binding(ControlledRotation(g), <<"ctrl_idx", "target_idx", a>>)
    BY <1>5 DEF cphase, crz_crx_cry
  <2>2. call.given = <<"ctrl_idx", "target_idx", a>>
    BY <2>1, BindingParts DEF ControlledRotation
  <2> QED
    BY <1>0, <1>1, <2>2
<1>6. CASE call \in cz_acz
  <2>1. PICK g \in {"CZ", "ACZ"} : call = Binding(TwoQubit(g), <<"ctrl_idx", "target_idx">>)
    BY <1>6 DEF cz_acz
  <2>2. call.given = <<"ctrl_idx", "target_idx">> /\ call.method.generator = g
    BY <2>1, BindingParts DEF TwoQubit
  <2> QED
    BY <1>0, <1>1, <2>2 DEF Rotations
<1>7. CASE call \in u3
  <2>1. call.given \in {<<"idx", "theta", "phi", "lambda">>, <<"idx", "param_1", "param_2", "param_3">>}
    BY <1>7, BindingParts DEF u3, U3
  <2>2. call.method.generator = "U"
    BY <1>7, BindingParts DEF u3, U3
  <2>3. /\ <<"idx", "theta", "phi", "lambda">> \in Seq(GivenNames)
        /\ <<"idx", "param_1", "param_2", "param_3">> \in Seq(GivenNames)
    BY <1>0, <1>1
  <2>4. call.method.generator \notin Rotations
    BY <2>2 DEF Rotations
  <2> QED
    BY <2>1, <2>3, <2>4
<1> QED
  BY <1>2, <1>3, <1>4, <1>5, <1>6, <1>7 DEF GateCalls

(* The gates that a binding asks for have the names it gives.                *)
LEMMA AskedGates ==
  ASSUME NEW call \in GateCalls, NEW list \in Seq(Parameters)
  PROVE  /\ NamesGiven(call) \in Seq(Parameters)
         /\ GatesAsked(call) \in Seq(PlainGates)
         /\ WithNames(list, ParamsOf(GatesAsked(call))) = WithNames(list, NamesGiven(call))
<1> DEFINE angles == Among(call.given, Angles)
           names == NamesGiven(call)
           numbers == [i \in DOMAIN angles |-> "number"]
           params == numbers \o names
           qubits == Among(call.given, Range(call.given) \ (Angles \cup Names))
           on == [i \in DOMAIN qubits |-> i - 1]
           kind == call.method.generator
<1>1. call.given \in Seq(GivenNames)
  BY GateCallShape
<1>2. names \in Seq(Parameters)
  <2>1. names \in Seq(GivenNames \cap Names)
    BY <1>1, AmongType DEF NamesGiven
  <2>2. GivenNames \cap Names \subseteq Parameters
    BY DEF Parameters
  <2> QED
    BY <2>1, <2>2, SeqMonotonic
<1>3. numbers \in Seq({"number"}) /\ numbers \in Seq(Parameters)
  <2>1. angles \in Seq(GivenNames)
    BY <1>1, AmongType
  <2>2. DOMAIN angles = 1 .. Len(angles) /\ Len(angles) \in Nat
    <3> HIDE DEF angles
    <3> QED
      BY <2>1, LenProperties
  <2>3. numbers \in [1 .. Len(angles) -> {"number"}]
    <3> HIDE DEF angles
    <3> QED
      BY <2>2
  <2>4. numbers \in Seq({"number"})
    <3> HIDE DEF angles, numbers
    <3> QED
      BY <2>2, <2>3, SeqDef
  <2>5. {"number"} \subseteq Parameters
    BY DEF Parameters
  <2> HIDE DEF numbers
  <2> QED
    BY <2>4, <2>5, SeqMonotonic
<1>4. params \in Seq(Parameters)
  <2> HIDE DEF numbers, names
  <2> QED
    BY <1>2, <1>3, ConcatProperties
<1>5. WithNames(list, params) = WithNames(list, names)
  <2>1. \A l, ps, qs \in Seq(Parameters) : WithNames(l, ps \o qs) = WithNames(WithNames(l, ps), qs)
    BY WithNamesConcat
  <2>2. WithNames(list, numbers) = list
    <3>1. Range(numbers) \subseteq Range(list) \cup {"number"}
      BY DEF Range
    <3> HIDE DEF numbers
    <3> QED
      BY <1>3, <3>1, WithNamesKnown
  <2> HIDE DEF numbers, names
  <2> QED
    BY <1>2, <1>3, <2>1, <2>2
<1>6. CASE kind \in {"CRX", "CRY"}
  <2>1. GatesAsked(call) = CRX(0, 1, params[1])
    BY <1>6 DEF GatesAsked
  <2>2. PICK a \in {"theta", "param_name"} : call.given = <<"ctrl_idx", "target_idx", a>>
    BY <1>6, GateCallShape DEF Rotations
  <2>3. \A S : Among(call.given, S) =
          (Among(<<"ctrl_idx">>, S) \o Among(<<"target_idx">>, S)) \o Among(<<a>>, S)
    <3>1. "ctrl_idx" \in GivenNames /\ "target_idx" \in GivenNames /\ a \in GivenNames
      BY DEF GivenNames
    <3>2. /\ <<"ctrl_idx">> \in Seq(GivenNames) /\ <<"target_idx">> \in Seq(GivenNames)
          /\ <<a>> \in Seq(GivenNames) /\ <<"ctrl_idx", "target_idx">> \in Seq(GivenNames)
      BY <3>1, ShortSequences
    <3>3. call.given = <<"ctrl_idx", "target_idx">> \o <<a>>
      BY <2>2, <3>1, <3>2, AppendIsConcat
    <3>4. <<"ctrl_idx", "target_idx">> = <<"ctrl_idx">> \o <<"target_idx">>
      BY <3>1, <3>2, AppendIsConcat
    <3>5. ASSUME NEW S, NEW s \in Seq(GivenNames), NEW t \in Seq(GivenNames)
          PROVE  Among(s \o t, S) = Among(s, S) \o Among(t, S)
      BY AmongConcat
    <3> DEFINE one == <<"ctrl_idx">>
               two == <<"target_idx">>
               three == <<a>>
    <3>6. /\ one \in Seq(GivenNames) /\ two \in Seq(GivenNames) /\ three \in Seq(GivenNames)
          /\ one \o two \in Seq(GivenNames) /\ call.given = (one \o two) \o three
      BY <3>2, <3>3, <3>4
    <3> HIDE DEF one, two, three
    <3>7. \A S : Among(call.given, S) = (Among(one, S) \o Among(two, S)) \o Among(three, S)
      <4> TAKE S
      <4> DEFINE both == one \o two
      <4>1. Among(both, S) = Among(one, S) \o Among(two, S)
        BY <3>5, <3>6
      <4>2. both \in Seq(GivenNames) /\ call.given = both \o three
        BY <3>6
      <4> HIDE DEF both
      <4>3. Among(both \o three, S) = Among(both, S) \o Among(three, S)
        BY <3>5, <3>6, <4>2
      <4> QED
        BY <4>1, <4>2, <4>3
    <3> QED
      BY <3>7 DEF one, two, three
  <2>4. Among(<<"ctrl_idx">>, Angles) = << >> /\ Among(<<"target_idx">>, Angles) = << >>
        /\ Among(<<"ctrl_idx">>, Names) = << >> /\ Among(<<"target_idx">>, Names) = << >>
    BY AmongOne DEF Angles, Names
  <2>5. \E x \in Parameters : params = <<x>>
    <3>1. CASE a = "theta"
      <4>1. Among(<<a>>, Angles) = <<a>> /\ Among(<<a>>, Names) = << >>
        BY <3>1, AmongOne DEF Angles, Names
      <4>2. angles = <<a>> /\ names = << >>
        <5>1. angles = (<< >> \o << >>) \o <<a>>
          BY <2>3, <2>4, <4>1
        <5>2. names = (<< >> \o << >>) \o << >>
          BY <2>3, <2>4, <4>1 DEF NamesGiven
        <5>3. << >> \o << >> = << >> /\ << >> \o <<a>> = <<a>>
          OBVIOUS
        <5> QED
          BY <5>1, <5>2, <5>3, Zenon
      <4>3. numbers = <<"number">> /\ names = << >>
        BY <4>2
      <4>4. params = <<"number">>
        <5> HIDE DEF numbers, names
        <5> QED
          BY <4>3
      <4> QED
        BY <4>4 DEF Parameters
    <3>2. CASE a = "param_name"
      <4>1. Among(<<a>>, Angles) = << >> /\ Among(<<a>>, Names) = <<a>>
        BY <3>2, AmongOne DEF Angles, Names
      <4>2. angles = << >> /\ names = <<a>>
        <5>1. angles = (<< >> \o << >>) \o << >>
          BY <2>3, <2>4, <4>1
        <5>2. names = (<< >> \o << >>) \o <<a>>
          BY <2>3, <2>4, <4>1 DEF NamesGiven
        <5>3. << >> \o << >> = << >> /\ << >> \o <<a>> = <<a>>
          OBVIOUS
        <5> QED
          BY <5>1, <5>2, <5>3, Zenon
      <4>3. numbers = << >> /\ names = <<a>>
        BY <4>2
      <4>4. params = <<a>>
        <5> HIDE DEF numbers, names
        <5> QED
          BY <4>3
      <4>5. a \in Parameters
        BY <3>2 DEF Parameters, Names
      <4> QED
        BY <4>4, <4>5
    <3> QED
      BY <3>1, <3>2
  <2> HIDE DEF params, names, kind
  <2>6. PICK x \in Parameters : params = <<x>>
    BY <2>5
  <2>7. GatesAsked(call) = CRX(0, 1, x)
    BY <2>1, <2>6
  <2>8. CRX(0, 1, x) \in Seq(PlainGates) /\ WithNames(list, ParamsOf(CRX(0, 1, x))) = WithNames(list, <<x>>)
    BY RotationGates
  <2> QED
    BY <1>2, <1>5, <2>6, <2>7, <2>8 DEF names
<1>7. CASE kind \notin {"CRX", "CRY"}
  <2>1. GatesAsked(call) = <<Gate(kind, on, params)>>
    BY <1>7 DEF GatesAsked
  <2>2. kind \in GateNames
    BY DEF GateNames, BuiltIn
  <2>3. on \in Seq(Nat)
    <3>1. qubits \in Seq(GivenNames)
      BY <1>1, AmongType
    <3> HIDE DEF qubits
    <3>2. DOMAIN qubits = 1 .. Len(qubits) /\ Len(qubits) \in Nat
      BY <3>1, LenProperties
    <3>3. on \in [1 .. Len(qubits) -> Nat]
      BY <3>2
    <3> HIDE DEF on
    <3> QED
      BY <3>2, <3>3, SeqDef
  <2> HIDE DEF on, params, kind
  <2>4. Gate(kind, on, params) \in PlainGates /\ Gate(kind, on, params).params = params
    BY <1>4, <2>2, <2>3, GateType
  <2>5. <<Gate(kind, on, params)>> \in Seq(PlainGates) /\ ParamsOf(<<Gate(kind, on, params)>>) = params
    BY <2>4, ParamsOne
  <2> QED
    BY <1>2, <1>5, <2>1, <2>5
<1> QED
  BY <1>6, <1>7

(* MeasureAll measures as many qubits as the highest there is says.          *)
LEMMA MeasureGates ==
  ASSUME NEW c \in Seq(Instrs)
  PROVE  MeasureAll(c) \in Seq(NumberGates)
<1> DEFINE bits == uniqueBitsQD(c)
<1>1. \E s \in Seq(Nat) : bits = Range(s)
  <2>1. Leaves(c) \in Seq(PlainGates) /\ OnOf \in [PlainGates -> Seq(Nat)]
    BY LeavesType DEF OnOf, PlainGates
  <2> DEFINE gates == Leaves(c)
  <2>2. bits = UNION {Range(g.on) : g \in Range(gates)}
    BY DEF uniqueBitsQD, Range
  <2> HIDE DEF gates, bits
  <2>3. FlatMap(gates, OnOf) \in Seq(Nat)
    BY <2>1, FlatMapType DEF gates
  <2>4. Range(FlatMap(gates, OnOf)) = UNION {Range(OnOf[g]) : g \in Range(gates)}
    BY <2>1, FlatMapRange DEF gates
  <2>5. \A g \in Range(gates) : OnOf[g] = g.on
    BY <2>1, LenProperties, ElementOfSeq DEF gates, OnOf, Range
  <2> QED
    BY <2>2, <2>3, <2>4, <2>5
<1> HIDE DEF bits
<1>2. CASE bits = {}
  <2>1. MeasureAll(c) = << >>
    BY <1>2 DEF MeasureAll, bits
  <2> QED
    BY <2>1, EmptySeq
<1>3. CASE bits # {}
  <2>1. bits \in SUBSET Nat /\ \E m \in Nat : \A n \in bits : n <= m
    <3>1. PICK s \in Seq(Nat) : bits = Range(s)
      BY <1>1
    <3>2. Range(s) \subseteq Nat
      BY LenProperties, ElementOfSeq DEF Range
    <3> QED
      BY <3>1, <3>2, NumbersAreBounded
  <2>2. Max(bits) \in Nat
    BY <1>3, <2>1, Largest
  <2> DEFINE n == Max(bits) + 1
             measure_(k) == Gate("Measure", <<k - 1>>, << >>)
  <2>3. n \in Nat /\ MeasureAll(c) = [k \in 1 .. n |-> measure_(k)]
    BY <1>3, <2>2 DEF MeasureAll, bits
  <2>4. ASSUME NEW k \in 1 .. n PROVE measure_(k) \in NumberGates
    <3>1. k - 1 \in Nat
      BY <2>3
    <3>2. <<k - 1>> \in Seq(Nat) /\ << >> \in Seq(Parameters) /\ "Measure" \in GateNames
      BY <3>1, EmptySeq DEF GateNames, BuiltIn
    <3>3. measure_(k) \in PlainGates /\ measure_(k).params = << >>
      BY <3>2, GateType
    <3> HIDE DEF measure_
    <3> QED
      BY <3>3 DEF NumberGates, Symbolic
  <2>5. MeasureAll(c) \in [1 .. n -> NumberGates]
    <3> HIDE DEF measure_, n
    <3> QED
      BY <2>3, <2>4
  <2> HIDE DEF n
  <2> QED
    BY <2>3, <2>5, SeqDef
<1> QED
  BY <1>2, <1>3

(* A block is given a number that no circuit has.                            *)
LEMMA BlocksAreFinite ==
  ASSUME NEW c \in Seq(Instrs)
  PROVE  Blocks(c) \in SUBSET (Nat \ {0}) /\ IsFiniteSet(Blocks(c))
<1> DEFINE IdOf == [inst \in Instrs |-> inst.id]
           ids == [i \in DOMAIN c |-> IdOf[c[i]]]
<1>1. IdOf \in [Instrs -> Nat]
  <2>1. \A inst \in Instrs : inst.id \in Nat
    BY DEF Instrs, PlainGates, BlockInsts
  <2> QED
    BY <2>1
<1>2. ids \in Seq(Nat)
  <2> HIDE DEF IdOf
  <2> QED
    BY <1>1, MappedSequence
<1>3. Range(ids) = {c[i].id : i \in DOMAIN c}
  BY LenProperties, ElementOfSeq DEF Range
<1> HIDE DEF ids
<1>4. Range(ids) \in SUBSET Nat
  BY <1>2, LenProperties, ElementOfSeq DEF Range
<1>5. PICK m \in Nat : \A n \in Range(ids) : n <= m
  BY <1>2, NumbersAreBounded
<1>6. IsFiniteSet(Range(ids))
  BY <1>4, <1>5, FS_BoundedSetOfNaturals
<1>7. Blocks(c) = Range(ids) \ {0}
  BY <1>3 DEF Blocks
<1> QED
  BY <1>4, <1>6, <1>7, FS_Subset

LEMMA UnusedNumber ==
  ASSUME circuit_ \in [Builders -> Seq(Instrs)]
  PROVE  Unused \in Nat \ {0} /\ \A b \in Builders : Unused \notin Blocks(circuit_[b])
<1> DEFINE BlocksOf == [b \in Builders |-> Blocks(circuit_[b])]
           All == {BlocksOf[b] : b \in Builders}
           used == UNION All
           free == 1 .. Cardinality(used) + 1
<1>1. \A b \in Builders : BlocksOf[b] = Blocks(circuit_[b]) /\ IsFiniteSet(BlocksOf[b])
  BY BlocksAreFinite
<1>2. IsFiniteSet(used)
  <2>1. BlocksOf \in Surjection(Builders, All)
    BY DEF Surjection
  <2> HIDE DEF BlocksOf
  <2>2. \A T \in All : IsFiniteSet(T)
    BY <1>1
  <2>3. IsFiniteSet(All)
    <3> HIDE DEF All
    <3> QED
      BY <2>1, FinitelyMany, FS_Surjection
  <2> HIDE DEF All
  <2> QED
    BY <2>2, <2>3, FS_UNION
<1>3. Cardinality(used) \in Nat
  <2> HIDE DEF used
  <2> QED
    BY <1>2, FS_CardinalityType
<1>4. \E n \in free : n \notin used
  <2> HIDE DEF used
  <2> SUFFICES ASSUME free \in SUBSET used PROVE FALSE
    OBVIOUS
  <2>1. Cardinality(free) <= Cardinality(used)
    <3> HIDE DEF free
    <3> QED
      BY <1>2, FS_Subset
  <2>2. Cardinality(free) = Cardinality(used) + 1
    BY <1>3, FS_Interval
  <2> QED
    BY <1>3, <2>1, <2>2
<1>5. used = UNION {Blocks(circuit_[b]) : b \in Builders}
  BY <1>1
<1>6. Unused = CHOOSE n \in free : n \notin used
  BY <1>5 DEF Unused
<1>7. Unused \in free /\ Unused \notin used
  <2> HIDE DEF free, used
  <2> QED
    BY <1>4, <1>6
<1>8. free \subseteq Nat \ {0}
  BY <1>3
<1> QED
  BY <1>1, <1>7, <1>8

LEMMA ControlledBlock ==
  ASSUME NEW ctrl \in Nat, NEW gs \in Seq(NumberGates), \A i \in DOMAIN gs : gs[i].name \in Simple,
         Unused \in Nat \ {0}
  PROVE  /\ CU(ctrl, gs) \in BlockInsts /\ CU(ctrl, gs).id = Unused
         /\ CU(ctrl, gs).inside \in Seq(NumberGates)
<1> DEFINE inside == [i \in DOMAIN gs |-> Controlled(ctrl, gs[i])]
<1>1. ASSUME NEW g \in NumberGates, g.name \in Simple PROVE Controlled(ctrl, g) \in NumberGates
  <2>1. g \in PlainGates /\ ~ Symbolic(g)
    BY DEF NumberGates
  <2>2. "C-" \o g.name \in GateNames
    BY <1>1 DEF GateNames
  <2>3. <<ctrl>> \o g.on \in Seq(Nat)
    <3>1. <<ctrl>> \in Seq(Nat) /\ g.on \in Seq(Nat)
      BY <2>1 DEF PlainGates
    <3> QED
      BY <3>1, ConcatProperties
  <2> DEFINE name == "C-" \o g.name
             on == <<ctrl>> \o g.on
  <2>4. Controlled(ctrl, g) = [g EXCEPT !.name = name, !.on = on]
    BY DEF Controlled
  <2> HIDE DEF name, on
  <2>5. [g EXCEPT !.name = name, !.on = on] \in PlainGates
        /\ [g EXCEPT !.name = name, !.on = on].params = g.params
    BY <2>1, <2>2, <2>3 DEF name, on, PlainGates
  <2> QED
    BY <2>1, <2>4, <2>5 DEF NumberGates, Symbolic
<1>2. inside \in Seq(NumberGates)
  <2>1. Len(gs) \in Nat /\ DOMAIN gs = 1 .. Len(gs) /\ \A i \in 1 .. Len(gs) : gs[i] \in NumberGates
    BY LenProperties, ElementOfSeq
  <2>2. inside \in [1 .. Len(gs) -> NumberGates]
    BY <1>1, <2>1
  <2> HIDE DEF inside
  <2> QED
    BY <2>1, <2>2, SeqDef
<1>3. CU(ctrl, gs) = [name |-> "C-U", on |-> <<ctrl>>, params |-> << >>, id |-> Unused, inside |-> inside]
  <2> HIDE DEF inside
  <2>1. CU(ctrl, gs) = [Gate("C-U", <<ctrl>>, << >>) EXCEPT !.id = Unused, !.inside = inside]
    BY DEF CU, inside
  <2> QED
    BY <2>1 DEF Gate
<1> HIDE DEF inside
<1>4. <<ctrl>> \in Seq(Nat)
  OBVIOUS
<1> QED
  BY <1>2, <1>3, <1>4 DEF BlockInsts

-----------------------------------------------------------------------------
(* The invariant.  While a run has blocks disabled nothing is read from the  *)
(* circuits; that nothing stays disabled after the runs is part of it.       *)

CircuitTypes ==
  /\ circuit_ \in [Builders -> Seq(Instrs)]
  /\ meant \in [Builders -> Seq(PlainGates)]
  /\ free_params_ \in [Builders -> Seq(Parameters)]
  /\ variables \in [Builders -> Seq(Parameters)]
  /\ is_parametrized_ \in [Builders -> BOOLEAN]

RunFields == {"stage", "own", "blocks", "mine", "todo", "owed", "right", "clash"}
OnlyRunsDisable ==
  /\ runs = [s \in Sessions |-> runs[s]]
  /\ \A s \in Running : DOMAIN runs[s] = RunFields
  /\ \A n \in disabled : \E s \in Running : ~ runs[s].own /\ n \in runs[s].mine

CircuitInv == CircuitTypes /\ NothingLost /\ ParametersListed
BuilderInv == CircuitInv /\ OnlyRunsDisable

(* Adding instructions, and the names of their gates' parameters.            *)
LEMMA Adding ==
  ASSUME CircuitInv, NEW b \in Builders, NEW insts \in Seq(Instrs), NEW gates \in Seq(PlainGates),
         Leaves(insts) = gates, Put(b, insts), Want(b, gates),
         free_params_' = [free_params_ EXCEPT ![b] = WithNames(@, ParamsOf(gates))],
         variables' \in [Builders -> Seq(Parameters)],
         is_parametrized_' \in [Builders -> BOOLEAN],
         \A c \in Builders : free_params_'[c] # << >> => is_parametrized_'[c]
  PROVE  CircuitInv'
<1>1. CircuitTypes
  BY DEF CircuitInv
<1>2. /\ circuit_[b] \in Seq(Instrs) /\ meant[b] \in Seq(PlainGates) /\ free_params_[b] \in Seq(Parameters)
      /\ Leaves(circuit_[b]) = meant[b]
      /\ free_params_[b] = WithNames(<< >>, ParamsOf(meant[b]))
  BY DEF CircuitInv, CircuitTypes, NothingLost, ParametersListed
<1>3. /\ circuit_'[b] = circuit_[b] \o insts /\ meant'[b] = meant[b] \o gates
      /\ free_params_'[b] = WithNames(free_params_[b], ParamsOf(gates))
      /\ \A c \in Builders \ {b} : circuit_'[c] = circuit_[c] /\ meant'[c] = meant[c]
                                   /\ free_params_'[c] = free_params_[c]
  BY <1>1 DEF CircuitTypes, Put, Want
<1>4. /\ circuit_[b] \o insts \in Seq(Instrs) /\ meant[b] \o gates \in Seq(PlainGates)
      /\ ParamsOf(gates) \in Seq(Parameters) /\ ParamsOf(meant[b]) \in Seq(Parameters)
  BY <1>2, ConcatProperties, ParamsType
<1>5. WithNames(free_params_[b], ParamsOf(gates)) \in Seq(Parameters)
  BY <1>2, <1>4, WithNamesType
<1>6. CircuitTypes'
  BY <1>1, <1>4, <1>5 DEF CircuitTypes, Put, Want
<1>7. Leaves(circuit_'[b]) = meant'[b]
  BY <1>2, <1>3, LeavesConcat
<1>8. free_params_'[b] = WithNames(<< >>, ParamsOf(meant'[b]))
  <2>1. ParamsOf(meant'[b]) = ParamsOf(meant[b]) \o ParamsOf(gates)
    BY <1>2, <1>3, ParamsConcat
  <2>2. \A l, ps, qs \in Seq(Parameters) : WithNames(l, ps \o qs) = WithNames(WithNames(l, ps), qs)
    BY WithNamesConcat
  <2>3. << >> \in Seq(Parameters)
    BY EmptySeq
  <2> QED
    <3> DEFINE P == ParamsOf(meant[b])
               Q == ParamsOf(gates)
               none == << >>
    <3>1. /\ P \in Seq(Parameters) /\ Q \in Seq(Parameters) /\ none \in Seq(Parameters)
          /\ free_params_'[b] = WithNames(WithNames(none, P), Q) /\ ParamsOf(meant'[b]) = P \o Q
      BY <1>2, <1>3, <1>4, <2>1, <2>3
    <3> HIDE DEF P, Q, none
    <3>2. free_params_'[b] = WithNames(none, ParamsOf(meant'[b]))
      BY <2>2, <3>1
    <3> QED
      BY <3>2 DEF none
<1>9. NothingLost'
  BY <1>3, <1>7 DEF NothingLost, CircuitInv
<1>10. ParametersListed'
  BY <1>3, <1>7, <1>8 DEF ParametersListed, CircuitInv
<1> QED
  BY <1>6, <1>9, <1>10 DEF CircuitInv

(* Gates and blocks without names leave the lists alone.                     *)
LEMMA AddingNumbers ==
  ASSUME CircuitInv, NEW b \in Builders, NEW insts \in Seq(Instrs), NEW gates \in Seq(NumberGates),
         Leaves(insts) = gates, Put(b, insts), Want(b, gates),
         UNCHANGED <<free_params_, variables, is_parametrized_>>
  PROVE  CircuitInv'
<1>1. free_params_[b] \in Seq(Parameters)
  BY DEF CircuitInv, CircuitTypes
<1>2. gates \in Seq(PlainGates) /\ WithNames(free_params_[b], ParamsOf(gates)) = free_params_[b]
  BY <1>1, NumbersAddNoNames
<1>3. free_params_' = [free_params_ EXCEPT ![b] = WithNames(@, ParamsOf(gates))]
  BY <1>2 DEF CircuitInv, CircuitTypes
<1>4. /\ variables' \in [Builders -> Seq(Parameters)]
      /\ is_parametrized_' \in [Builders -> BOOLEAN]
      /\ \A c \in Builders : free_params_'[c] # << >> => is_parametrized_'[c]
  BY DEF CircuitInv, CircuitTypes, ParametersListed
<1> QED
  BY <1>2, <1>3, <1>4, Adding

LEMMA NoteKeepsTypes ==
  ASSUME CircuitTypes, NEW b \in Builders, NEW params \in Seq(Parameters), Note(b, params)
  PROVE  variables' \in [Builders -> Seq(Parameters)]
<1> DEFINE new == Among(params, Range(params) \ Range(free_params_[b]))
<1>1. new \in Seq(Parameters) /\ variables[b] \in Seq(Parameters)
  BY AmongType DEF CircuitTypes
<1>2. WithNames(variables[b], new) \in Seq(Parameters)
  <2> HIDE DEF new
  <2> QED
    BY <1>1, WithNamesType
<1> QED
  BY <1>2 DEF Note, CircuitTypes

LEMMA NothingDisabled == ASSUME OnlyRunsDisable, Running = {} PROVE disabled = {}
BY DEF OnlyRunsDisable

LEMMA EnabledAreAll ==
  ASSUME NEW c \in Seq(Instrs), disabled = {}
  PROVE  Enabled(c) = Leaves(c) /\ NotDisabled(c) = c
<1>1. {inst \in Range(c) : inst.id \notin disabled} = Range(c)
  OBVIOUS
<1>2. Among(c, Range(c)) = c
  BY AmongAll
<1> QED
  BY <1>1, <1>2 DEF Enabled, NotDisabled

(* A circuit of which no instruction has a name in it lists none.            *)
LEMMA NamesShow ==
  ASSUME NEW c \in Seq(Instrs), WithNames(<< >>, ParamsOf(Leaves(c))) # << >>
  PROVE  \E i \in DOMAIN c : Symbolic(c[i])
<1> SUFFICES ASSUME \A i \in DOMAIN c : ~ Symbolic(c[i]) PROVE FALSE
  OBVIOUS
<1> DEFINE X == {inst \in Instrs : ~ Symbolic(inst)}
           f == [inst \in X |-> Inside(inst)]
<1>1. f \in [X -> Seq(NumberGates)]
  <2>1. ASSUME NEW inst \in X PROVE Inside(inst) \in Seq(NumberGates)
    <3>1. CASE inst \in PlainGates
      <4>1. inst \in NumberGates
        BY <3>1 DEF NumberGates
      <4>2. Inside(inst) = <<inst>>
        BY <3>1, InsideType
      <4> QED
        BY <4>1, <4>2
    <3>2. CASE inst \in BlockInsts
      BY <3>2, InsideType
    <3> QED
      BY <3>1, <3>2 DEF Instrs
  <2> HIDE DEF X
  <2> QED
    BY <2>1
<1>2. c \in Seq(X)
  <2>1. Len(c) \in Nat /\ DOMAIN c = 1 .. Len(c) /\ c \in [1 .. Len(c) -> Instrs]
    BY LenProperties
  <2>2. c \in [1 .. Len(c) -> X]
    BY <2>1
  <2> HIDE DEF X
  <2> QED
    BY <2>1, <2>2, SeqDef
<1>3. \A i \in DOMAIN c : f[c[i]] = Inside(c[i])
  <2>1. \A i \in DOMAIN c : c[i] \in X
    <3> HIDE DEF X
    <3> QED
      BY <1>2, LenProperties, ElementOfSeq
  <2> HIDE DEF X
  <2> QED
    BY <2>1
<1> HIDE DEF f, X
<1>4. FlatMap(c, f) \in Seq(NumberGates)
  BY <1>1, <1>2, FlatMapType
<1>5. Leaves(c) = FlatMap(c, f)
  <2>1. [i \in DOMAIN c |-> Inside(c[i])] = [i \in DOMAIN c |-> f[c[i]]]
    BY <1>3
  <2> QED
    BY <2>1 DEF Leaves, FlatMap
<1>6. << >> \in Seq(Parameters)
  BY EmptySeq
<1> QED
  BY <1>4, <1>5, <1>6, NumbersAddNoNames

-----------------------------------------------------------------------------
(* The calls keep the invariant of the circuits.                             *)

LEMMA GatesKeep ==
  ASSUME CircuitInv, NEW b \in Builders, NEW g \in Gates, AddGate(b, g)
  PROVE  CircuitInv'
<1>1. g \in NumberGates /\ <<g>> \in Seq(NumberGates)
  BY InputsAssumption DEF NumberGates
<1>2. <<g>> \in Seq(Instrs) /\ Leaves(<<g>>) = <<g>>
  <2>1. <<g>> \in Seq(PlainGates)
    BY <1>1 DEF NumberGates
  <2> QED
    BY <2>1, GatesAreInstrs, LeavesOfGates
<1> QED
  BY <1>1, <1>2, AddingNumbers DEF AddGate

LEMMA FreeGatesKeep ==
  ASSUME CircuitInv, NEW b \in Builders, NEW g \in Free, AddFree(b, g)
  PROVE  CircuitInv'
<1>1. g \in PlainGates /\ g.params \in Seq(Parameters) /\ CircuitTypes
  BY InputsAssumption DEF PlainGates, CircuitInv
<1>2. <<g>> \in Seq(PlainGates) /\ ParamsOf(<<g>>) = g.params
  BY <1>1, ParamsOne
<1>3. <<g>> \in Seq(Instrs) /\ Leaves(<<g>>) = <<g>>
  BY <1>2, GatesAreInstrs, LeavesOfGates
<1>4. free_params_' = [free_params_ EXCEPT ![b] = WithNames(@, ParamsOf(<<g>>))]
  BY <1>2 DEF AddFree, Note
<1>5. variables' \in [Builders -> Seq(Parameters)]
  BY <1>1, NoteKeepsTypes DEF AddFree
<1>6. /\ is_parametrized_' \in [Builders -> BOOLEAN]
      /\ \A c \in Builders : free_params_'[c] # << >> => is_parametrized_'[c]
  BY <1>1, <1>4 DEF AddFree, CircuitTypes, CircuitInv, ParametersListed
<1>7. Put(b, <<g>>) /\ Want(b, <<g>>)
  BY DEF AddFree
<1> QED
  BY <1>2, <1>3, <1>4, <1>5, <1>6, <1>7, Adding

LEMMA RotationsKeep ==
  ASSUME CircuitInv, NEW b \in Builders, NEW p \in UNION {Range(g.params) : g \in Free}, AddCRX(b, p)
  PROVE  CircuitInv'
<1> DEFINE gates == CRX(0, 1, p)
<1>1. p \in Parameters /\ <<p>> \in Seq(Parameters) /\ CircuitTypes
  <2>1. \A g \in Free : g.params \in Seq(Parameters)
    BY InputsAssumption DEF PlainGates
  <2>2. p \in Parameters
    BY <2>1, LenProperties, ElementOfSeq DEF Range
  <2> QED
    BY <2>2 DEF CircuitInv
<1>2. gates \in Seq(PlainGates)
      /\ \A list \in Seq(Parameters) : WithNames(list, ParamsOf(gates)) = WithNames(list, <<p>>)
  BY <1>1, RotationGates
<1>3. gates \in Seq(Instrs) /\ Leaves(gates) = gates
  <2> HIDE DEF gates
  <2> QED
    BY <1>2, GatesAreInstrs, LeavesOfGates
<1>4. free_params_' = [free_params_ EXCEPT ![b] = WithNames(@, ParamsOf(gates))]
  <2>1. free_params_[b] \in Seq(Parameters)
    BY <1>1 DEF CircuitTypes
  <2>2. free_params_' = [free_params_ EXCEPT ![b] = WithNames(@, <<p>>)]
    BY DEF AddCRX, Note
  <2> HIDE DEF gates
  <2> QED
    BY <1>2, <2>1, <2>2
<1>5. variables' \in [Builders -> Seq(Parameters)]
  BY <1>1, NoteKeepsTypes DEF AddCRX
<1>6. /\ is_parametrized_' \in [Builders -> BOOLEAN]
      /\ \A c \in Builders : free_params_'[c] # << >> => is_parametrized_'[c]
  <2> HIDE DEF gates
  <2> QED
    BY <1>1, <1>4 DEF AddCRX, CircuitTypes, CircuitInv, ParametersListed
<1>7. Put(b, gates) /\ Want(b, gates)
  BY DEF AddCRX
<1> HIDE DEF gates
<1> QED
  BY <1>2, <1>3, <1>4, <1>5, <1>6, <1>7, Adding

LEMMA GateCallsKeep ==
  ASSUME CircuitInv, NEW b \in Builders, NEW call \in GateCalls, CallGate(b, call)
  PROVE  CircuitInv'
<1> DEFINE gates == GatesAsked(call)
           names == NamesGiven(call)
<1>1. /\ names \in Seq(Parameters) /\ gates \in Seq(PlainGates)
      /\ \A list \in Seq(Parameters) : WithNames(list, ParamsOf(gates)) = WithNames(list, names)
  <2>1. << >> \in Seq(Parameters)
    BY EmptySeq
  <2> QED
    BY <2>1, AskedGates
<1>2. /\ Put(b, gates) /\ Want(b, gates) /\ Note(b, names)
      /\ is_parametrized_' = [is_parametrized_ EXCEPT ![b] = @ \/ names # << >>]
  BY DEF CallGate
<1> HIDE DEF gates, names
<1>3. gates \in Seq(Instrs) /\ Leaves(gates) = gates
  BY <1>1, GatesAreInstrs, LeavesOfGates
<1>4. free_params_[b] \in Seq(Parameters) /\ CircuitTypes
  BY DEF CircuitInv, CircuitTypes
<1>5. free_params_' = [free_params_ EXCEPT ![b] = WithNames(@, ParamsOf(gates))]
  BY <1>1, <1>2, <1>4 DEF Note
<1>6. variables' \in [Builders -> Seq(Parameters)]
  BY <1>1, <1>2, <1>4, NoteKeepsTypes
<1>7. is_parametrized_' \in [Builders -> BOOLEAN]
  BY <1>2, <1>4 DEF CircuitTypes
<1>8. ASSUME NEW c \in Builders, free_params_'[c] # << >> PROVE is_parametrized_'[c]
  <2>1. CASE c # b
    BY <1>2, <1>4, <1>5, <1>8, <2>1 DEF CircuitTypes, CircuitInv, ParametersListed
  <2>2. CASE c = b /\ names # << >>
    BY <1>2, <1>4, <2>2 DEF CircuitTypes
  <2>3. CASE c = b /\ names = << >>
    <3>1. free_params_'[b] = free_params_[b]
      <4>1. free_params_'[b] = WithNames(free_params_[b], << >>)
        BY <1>1, <1>4, <1>5, <2>3 DEF CircuitTypes
      <4> QED
        BY <1>4, <4>1, WithNamesEmpty
    <3> QED
      BY <1>2, <1>4, <1>8, <2>3, <3>1 DEF CircuitTypes, CircuitInv, ParametersListed
  <2> QED
    BY <2>1, <2>2, <2>3
<1> QED
  BY <1>1, <1>2, <1>3, <1>5, <1>6, <1>7, <1>8, Adding

LEMMA BlocksKeep ==
  ASSUME CircuitInv, NEW b \in Builders, NEW ctrl \in Nat, NEW gs \in Seq(NumberGates),
         \A i \in DOMAIN gs : gs[i].name \in Simple, AddBlock(b, ctrl, gs)
  PROVE  CircuitInv'
<1> DEFINE block == CU(ctrl, gs)
<1>1. Unused \in Nat \ {0}
  BY UnusedNumber DEF CircuitInv, CircuitTypes
<1>2. block \in BlockInsts /\ block.inside \in Seq(NumberGates)
  BY <1>1, ControlledBlock
<1>3. /\ Put(b, <<block>>) /\ Want(b, block.inside)
      /\ UNCHANGED <<free_params_, variables, is_parametrized_>>
  BY DEF AddBlock
<1> HIDE DEF block
<1>4. <<block>> \in Seq(Instrs) /\ Leaves(<<block>>) = block.inside
  <2>1. block \in Instrs
    BY <1>2 DEF Instrs
  <2> QED
    BY <1>2, <2>1, LeavesOne, InsideType
<1> QED
  BY <1>2, <1>3, <1>4, AddingNumbers

LEMMA MCXKeeps ==
  ASSUME CircuitInv, NEW b \in Builders, AddMCX(b)
  PROVE  CircuitInv'
<1> DEFINE x == Gate("X", <<1>>, << >>)
<1>1. x \in NumberGates /\ x.name \in Simple
  <2>1. <<1>> \in Seq(Nat) /\ << >> \in Seq(Parameters) /\ "X" \in GateNames
    BY EmptySeq DEF GateNames, BuiltIn
  <2>2. x \in PlainGates /\ x.params = << >>
    BY <2>1, GateType
  <2>3. x.name = "X"
    BY DEF Gate
  <2> HIDE DEF x
  <2> QED
    BY <2>2, <2>3 DEF NumberGates, Symbolic, Simple
<1>2. AddBlock(b, 0, <<x>>)
  BY DEF AddMCX
<1> HIDE DEF x
<1>3. <<x>> \in Seq(NumberGates) /\ \A i \in DOMAIN <<x>> : <<x>>[i].name \in Simple
  BY <1>1
<1>4. 0 \in Nat
  OBVIOUS
<1> QED
  BY <1>2, <1>3, <1>4, BlocksKeep

LEMMA CUKeeps ==
  ASSUME CircuitInv, NEW b \in Builders, NEW other \in Builders, AddCU(b, other)
  PROVE  CircuitInv'
<1> DEFINE gates == Leaves(circuit_[other])
<1>1. gates \in Seq(PlainGates)
  BY LeavesType DEF CircuitInv, CircuitTypes
<1>2. WithNames(<< >>, ParamsOf(gates)) = << >>
  BY DEF AddCU, CircuitInv, ParametersListed
<1>3. (\A i \in DOMAIN gates : gates[i].name \in Simple) /\ AddBlock(b, Control, gates) /\ Control \in Nat
  BY DEF AddCU, Control
<1> HIDE DEF gates
<1>4. gates \in Seq(NumberGates)
  BY <1>1, <1>2, OnlyNumbersAddNoNames
<1> QED
  BY <1>3, <1>4, BlocksKeep

LEMMA MeasuresKeep ==
  ASSUME CircuitInv, NEW b \in Builders, AddMeasureAll(b)
  PROVE  CircuitInv'
<1> DEFINE gates == MeasureAll(circuit_[b])
<1>1. gates \in Seq(NumberGates)
  BY MeasureGates DEF CircuitInv, CircuitTypes
<1>2. Put(b, gates) /\ Want(b, gates) /\ UNCHANGED <<free_params_, variables, is_parametrized_>>
  BY DEF AddMeasureAll
<1> HIDE DEF gates
<1>3. gates \in Seq(Instrs) /\ Leaves(gates) = gates
  <2>1. gates \in Seq(PlainGates)
    BY <1>1, SeqMonotonic DEF NumberGates
  <2> QED
    BY <2>1, GatesAreInstrs, LeavesOfGates
<1> QED
  BY <1>1, <1>2, <1>3, AddingNumbers

LEMMA BlockCallsKeep ==
  ASSUME CircuitInv, NEW b \in Builders, NEW call, CallBlock(b, call)
  PROVE  CircuitInv'
<1> DEFINE block == Gate("block", <<0, 1>>, << >>)
           gates == IF Expands(call) THEN <<block>> ELSE << >>
<1>1. block \in NumberGates
  <2>1. <<0, 1>> \in Seq(Nat) /\ << >> \in Seq(Parameters) /\ "block" \in GateNames
    BY EmptySeq DEF GateNames, BuiltIn
  <2>2. block \in PlainGates /\ block.params = << >>
    BY <2>1, GateType
  <2> HIDE DEF block
  <2> QED
    BY <2>2 DEF NumberGates, Symbolic
<1>2. Put(b, gates) /\ Want(b, gates) /\ UNCHANGED <<free_params_, variables, is_parametrized_>>
  BY DEF CallBlock
<1> HIDE DEF block
<1>3. gates \in Seq(NumberGates)
  <2>1. <<block>> \in Seq(NumberGates) /\ << >> \in Seq(NumberGates)
    BY <1>1, EmptySeq
  <2> QED
    BY <2>1
<1> HIDE DEF gates
<1>4. gates \in Seq(Instrs) /\ Leaves(gates) = gates
  <2>1. gates \in Seq(PlainGates)
    BY <1>3, SeqMonotonic DEF NumberGates
  <2> QED
    BY <2>1, GatesAreInstrs, LeavesOfGates
<1> QED
  BY <1>2, <1>3, <1>4, AddingNumbers

LEMMA AppendKeeps ==
  ASSUME BuilderInv, NEW b \in Builders, NEW other \in Builders, CallAppend(b, other)
  PROVE  CircuitInv'
<1> DEFINE gates == meant[other]
           params == ParamsOf(gates)
<1>1. CircuitInv /\ CircuitTypes /\ OnlyRunsDisable
  BY DEF BuilderInv, CircuitInv
<1>2. gates \in Seq(PlainGates) /\ circuit_[other] \in Seq(Instrs) /\ Leaves(circuit_[other]) = gates
  BY <1>1 DEF CircuitInv, CircuitTypes, NothingLost
<1>3. Enabled(circuit_[other]) = gates
  <2>1. disabled = {}
    BY <1>1, NothingDisabled DEF CallAppend, Room
  <2> QED
    BY <1>2, <2>1, EnabledAreAll
<1>4. /\ Put(b, gates) /\ Want(b, gates) /\ Note(b, params)
      /\ is_parametrized_' =
           [is_parametrized_ EXCEPT ![b] = \E i \in DOMAIN circuit_'[b] : Symbolic(circuit_'[b][i])]
  BY <1>3 DEF CallAppend, AppendsTo
<1> HIDE DEF gates
<1>5. gates \in Seq(Instrs) /\ Leaves(gates) = gates /\ params \in Seq(Parameters)
  BY <1>2, GatesAreInstrs, LeavesOfGates, ParamsType
<1>6. free_params_' = [free_params_ EXCEPT ![b] = WithNames(@, ParamsOf(gates))]
  BY <1>4 DEF Note
<1>7. variables' \in [Builders -> Seq(Parameters)]
  <2> HIDE DEF params
  <2> QED
    BY <1>1, <1>4, <1>5, NoteKeepsTypes
<1>8. is_parametrized_' \in [Builders -> BOOLEAN]
  BY <1>1, <1>4 DEF CircuitTypes
<1>9. ASSUME NEW c \in Builders, free_params_'[c] # << >> PROVE is_parametrized_'[c]
  <2>1. CASE c # b
    BY <1>1, <1>4, <1>6, <1>9, <2>1 DEF CircuitTypes, CircuitInv, ParametersListed
  <2>2. CASE c = b
    <3>1. circuit_[b] \in Seq(Instrs) /\ circuit_'[b] = circuit_[b] \o gates /\ circuit_'[b] \in Seq(Instrs)
      BY <1>1, <1>4, <1>5, ConcatProperties DEF CircuitTypes, Put
    <3>2. free_params_'[b] = WithNames(<< >>, ParamsOf(Leaves(circuit_'[b])))
      <4> DEFINE P == ParamsOf(Leaves(circuit_[b]))
                 none == << >>
      <4>1. Leaves(circuit_'[b]) = Leaves(circuit_[b]) \o gates /\ Leaves(circuit_[b]) \in Seq(PlainGates)
        BY <1>5, <3>1, LeavesConcat, LeavesType
      <4>2. ParamsOf(Leaves(circuit_'[b])) = P \o params /\ P \in Seq(Parameters)
        BY <1>2, <4>1, ParamsConcat, ParamsType
      <4>3. free_params_'[b] = WithNames(WithNames(none, P), params)
        BY <1>1, <1>6 DEF CircuitTypes, CircuitInv, ParametersListed
      <4>4. none \in Seq(Parameters)
        BY EmptySeq
      <4> HIDE DEF P, none, params
      <4>5. WithNames(none, P \o params) = WithNames(WithNames(none, P), params)
        BY <1>5, <4>2, <4>4, WithNamesConcat
      <4> QED
        BY <4>2, <4>3, <4>5 DEF none
    <3>3. \E i \in DOMAIN circuit_'[b] : Symbolic(circuit_'[b][i])
      BY <1>9, <2>2, <3>1, <3>2, NamesShow
    <3> QED
      BY <1>1, <1>4, <2>2, <3>3 DEF CircuitTypes
  <2> QED
    BY <2>1, <2>2
<1> QED
  BY <1>1, <1>2, <1>4, <1>5, <1>6, <1>7, <1>8, <1>9, Adding

LEMMA NewKeeps ==
  ASSUME CircuitInv, NEW b \in Builders, New(b)
  PROVE  CircuitInv'
<1>1. << >> \in Seq(Instrs) /\ << >> \in Seq(PlainGates) /\ << >> \in Seq(Parameters)
  BY EmptySeq
<1>2. WithNames(<< >>, ParamsOf(Leaves(<< >>))) = << >> /\ Leaves(<< >>) = << >>
  BY <1>1, LeavesEmpty, ParamsEmpty, WithNamesEmpty
<1> DEFINE none == << >>
<1>3. /\ circuit_' = [circuit_ EXCEPT ![b] = none] /\ variables' = [variables EXCEPT ![b] = none]
      /\ free_params_' = [free_params_ EXCEPT ![b] = none]
      /\ is_parametrized_' = [is_parametrized_ EXCEPT ![b] = FALSE]
      /\ meant' = [meant EXCEPT ![b] = none]
  BY DEF New
<1>4. none \in Seq(Instrs) /\ none \in Seq(PlainGates) /\ none \in Seq(Parameters)
      /\ WithNames(none, ParamsOf(Leaves(none))) = none /\ Leaves(none) = none /\ none = << >>
  BY <1>1, <1>2
<1> HIDE DEF none
<1>5. CircuitTypes'
  BY <1>3, <1>4 DEF CircuitInv, CircuitTypes
<1>6. NothingLost'
  BY <1>3, <1>4 DEF CircuitInv, CircuitTypes, NothingLost
<1>7. ParametersListed'
  <2> SUFFICES ASSUME NEW c \in Builders
               PROVE  /\ free_params_'[c] = WithNames(<< >>, ParamsOf(Leaves(circuit_'[c])))
                      /\ free_params_'[c] # << >> => is_parametrized_'[c]
    BY DEF ParametersListed
  <2>1. CASE c = b
    <3>1. free_params_'[c] = none /\ circuit_'[c] = none
      BY <1>3, <2>1 DEF CircuitInv, CircuitTypes
    <3> QED
      BY <1>4, <3>1
  <2>2. CASE c # b
    <3>1. /\ free_params_'[c] = free_params_[c] /\ circuit_'[c] = circuit_[c]
          /\ is_parametrized_'[c] = is_parametrized_[c]
      BY <1>3, <2>2 DEF CircuitInv, CircuitTypes
    <3> QED
      BY <3>1 DEF CircuitInv, ParametersListed
  <2> QED
    BY <2>1, <2>2
<1> QED
  BY <1>5, <1>6, <1>7 DEF CircuitInv

LEMMA CopiesKeep ==
  ASSUME CircuitInv, NEW b \in Builders, NEW other \in Builders, CallCopy(b, other)
  PROVE  CircuitInv'
<1>1. CircuitTypes'
  BY DEF CallCopy, CircuitInv, CircuitTypes
<1>2. \A c \in Builders : \E d \in Builders :
        /\ circuit_'[c] = circuit_[d] /\ meant'[c] = meant[d] /\ free_params_'[c] = free_params_[d]
        /\ is_parametrized_'[c] = is_parametrized_[d]
  BY DEF CallCopy, CircuitInv, CircuitTypes
<1>3. NothingLost'
  BY <1>2 DEF CircuitInv, NothingLost
<1>4. ParametersListed'
  BY <1>2 DEF CircuitInv, ParametersListed
<1> QED
  BY <1>1, <1>3, <1>4 DEF CircuitInv

LEMMA CompositesKeep ==
  ASSUME CircuitInv, NEW b \in Builders, NEW insts \in Seq(Instrs), NEW declared \in Seq(Parameters),
         FromComposite(b, insts, declared), meant' = [meant EXCEPT ![b] = Leaves(insts)]
  PROVE  CircuitInv'
<1> DEFINE params == ParamsOf(Leaves(insts))
           free == WithNames(<< >>, params)
<1>1. CircuitTypes /\ Leaves(insts) \in Seq(PlainGates)
  BY LeavesType DEF CircuitInv
<1>2. params \in Seq(Parameters) /\ << >> \in Seq(Parameters)
  BY <1>1, ParamsType, EmptySeq
<1>3. free \in Seq(Parameters) /\ WithNames(declared, free) \in Seq(Parameters)
  <2> HIDE DEF params
  <2>1. free \in Seq(Parameters)
    BY <1>2, WithNamesType
  <2> HIDE DEF free
  <2> QED
    BY <2>1, WithNamesType
<1>4. free # << >> => params # << >>
  BY <1>2, WithNamesEmpty
<1>5. /\ circuit_' = [circuit_ EXCEPT ![b] = insts]
      /\ free_params_' = [free_params_ EXCEPT ![b] = free]
      /\ variables' = [variables EXCEPT ![b] = WithNames(declared, free)]
      /\ is_parametrized_' = [is_parametrized_ EXCEPT ![b] = (params # << >>)]
  BY DEF FromComposite
<1>6. free = WithNames(<< >>, ParamsOf(Leaves(insts)))
  OBVIOUS
<1> HIDE DEF params, free
<1>7. CircuitTypes'
  BY <1>1, <1>3, <1>5 DEF CircuitTypes
<1>8. NothingLost'
  BY <1>1, <1>5 DEF CircuitInv, CircuitTypes, NothingLost
<1>9. ParametersListed'
  <2> SUFFICES ASSUME NEW c \in Builders
               PROVE  /\ free_params_'[c] = WithNames(<< >>, ParamsOf(Leaves(circuit_'[c])))
                      /\ free_params_'[c] # << >> => is_parametrized_'[c]
    BY DEF ParametersListed
  <2>1. CASE c = b
    <3>1. free_params_'[c] = free /\ circuit_'[c] = insts /\ is_parametrized_'[c] = (params # << >>)
      BY <1>1, <1>5, <2>1 DEF CircuitTypes
    <3> QED
      BY <1>4, <1>6, <3>1
  <2>2. CASE c # b
    <3>1. /\ free_params_'[c] = free_params_[c] /\ circuit_'[c] = circuit_[c]
          /\ is_parametrized_'[c] = is_parametrized_[c]
      BY <1>1, <1>5, <2>2 DEF CircuitTypes
    <3> QED
      BY <3>1 DEF CircuitInv, ParametersListed
  <2> QED
    BY <2>1, <2>2
<1> QED
  BY <1>7, <1>8, <1>9 DEF CircuitInv

LEMMA ReadsKeep ==
  ASSUME CircuitInv, NEW b \in Builders
  PROVE  /\ \A other \in Builders : ReadIrtarget(b, other) => CircuitInv'
         /\ \A program \in Programs : ReadCompiled(b, program) => CircuitInv'
<1>1. ASSUME NEW other \in Builders, ReadIrtarget(b, other) PROVE CircuitInv'
  <2>1. /\ circuit_[other] \in Seq(Instrs) /\ variables[other] \in Seq(Parameters)
        /\ meant[other] = Leaves(circuit_[other])
    BY DEF CircuitInv, CircuitTypes, NothingLost
  <2>2. /\ FromComposite(b, circuit_[other], variables[other])
        /\ meant' = [meant EXCEPT ![b] = Leaves(circuit_[other])]
    BY <1>1, <2>1 DEF ReadIrtarget
  <2> QED
    BY <2>1, <2>2, CompositesKeep
<1>2. ASSUME NEW program \in Programs, ReadCompiled(b, program) PROVE CircuitInv'
  <2>1. program.gates \in Seq(PlainGates) /\ program.variables \in Seq(Parameters)
    BY InputsAssumption
  <2>2. program.gates \in Seq(Instrs) /\ Leaves(program.gates) = program.gates
    BY <2>1, GatesAreInstrs, LeavesOfGates
  <2>3. /\ FromComposite(b, program.gates, program.variables)
        /\ meant' = [meant EXCEPT ![b] = Leaves(program.gates)]
    BY <1>2, <2>2 DEF ReadCompiled
  <2> QED
    BY <2>1, <2>2, <2>3, CompositesKeep
<1> QED
  BY <1>1, <1>2

LEMMA OthersKeep ==
  ASSUME CircuitInv, UNCHANGED <<circuit_, variables, free_params_, is_parametrized_, meant>>
  PROVE  CircuitInv'
<1>1. CircuitTypes'
  BY DEF CircuitInv, CircuitTypes
<1>2. NothingLost'
  BY DEF CircuitInv, NothingLost
<1>3. ParametersListed'
  BY DEF CircuitInv, ParametersListed
<1> QED
  BY <1>1, <1>2, <1>3 DEF CircuitInv

-----------------------------------------------------------------------------
(* The runs disable what they have executed, and nothing else is.            *)

Builds ==
  \/ \E b \in Builders :
       \/ \E g \in Gates : AddGate(b, g)
       \/ \E g \in Free : AddFree(b, g)
       \/ \E p \in UNION {Range(g.params) : g \in Free} : AddCRX(b, p)
       \/ AddMCX(b)
       \/ New(b)
       \/ AddMeasureAll(b)
       \/ MayCall /\ \E call \in Calls \cap GateCalls : CallGate(b, call)
       \/ MayCall /\ \E call \in Calls \cap BlockCalls : CallBlock(b, call)
       \/ \E other \in Builders : AddCU(b, other) \/ CallAppend(b, other) \/ CallCopy(b, other) \/ ReadIrtarget(b, other)
       \/ \E program \in Programs : ReadCompiled(b, program)
  \/ MayCall /\ \E call \in Calls \cap AlgorithmCalls : CallAlgorithm(call)
RunStep(s) ==
  \/ \E b \in Builders : Start(s, b)
  \/ ExecuteGate(s) \/ EnterBlock(s) \/ ExecuteBlock(s) \/ Finish(s) \/ Throw(s)

LEMMA NextSteps == Next <=> Builds \/ \E s \in Sessions : RunStep(s)
BY DEF Next, Builds, RunStep

LEMMA BuildsKeep ==
  ASSUME BuilderInv, Builds
  PROVE  BuilderInv'
<1>0. CircuitInv
  BY DEF BuilderInv
<1>1. UNCHANGED <<disabled, runs>>
  BY ZenonT(30) DEF Builds, AddGate, AddFree, AddCRX, AddMCX, AddCU, AddBlock, New, AddMeasureAll, CallGate, CallBlock,
         CallAppend, AppendsTo, CallCopy, ReadIrtarget, ReadCompiled, FromComposite, CallAlgorithm
<1>2. OnlyRunsDisable'
  BY <1>1 DEF BuilderInv, OnlyRunsDisable, Running
<1>3. CircuitInv'
  <2>1. CASE \E call \in AlgorithmCalls : CallAlgorithm(call)
    <3>1. UNCHANGED <<circuit_, variables, free_params_, is_parametrized_, meant>>
      BY <2>1 DEF CallAlgorithm
    <3> QED
      BY <1>0, <3>1, OthersKeep
  <2>2. ASSUME NEW b \in Builders, NEW g \in Gates, AddGate(b, g) PROVE CircuitInv'
    BY <1>0, <2>2, GatesKeep
  <2>3. ASSUME NEW b \in Builders, NEW g \in Free, AddFree(b, g) PROVE CircuitInv'
    BY <1>0, <2>3, FreeGatesKeep
  <2>4. ASSUME NEW b \in Builders, NEW p \in UNION {Range(g.params) : g \in Free}, AddCRX(b, p)
        PROVE  CircuitInv'
    BY <1>0, <2>4, RotationsKeep
  <2>5. ASSUME NEW b \in Builders, AddMCX(b) \/ New(b) \/ AddMeasureAll(b) PROVE CircuitInv'
    BY <1>0, <2>5, MCXKeeps, NewKeeps, MeasuresKeep
  <2>6. ASSUME NEW b \in Builders, NEW call \in GateCalls, CallGate(b, call) PROVE CircuitInv'
    BY <1>0, <2>6, GateCallsKeep
  <2>7. ASSUME NEW b \in Builders, NEW call \in BlockCalls, CallBlock(b, call) PROVE CircuitInv'
    BY <1>0, <2>7, BlockCallsKeep
  <2>8. ASSUME NEW b \in Builders, NEW other \in Builders,
               AddCU(b, other) \/ CallAppend(b, other) \/ CallCopy(b, other) \/ ReadIrtarget(b, other)
        PROVE  CircuitInv'
    BY <1>0, <2>8, CUKeeps, AppendKeeps, CopiesKeep, ReadsKeep
  <2>9. ASSUME NEW b \in Builders, NEW program \in Programs, ReadCompiled(b, program) PROVE CircuitInv'
    BY <1>0, <2>9, ReadsKeep
  <2> QED
    BY <2>1, <2>2, <2>3, <2>4, <2>5, <2>6, <2>7, <2>8, <2>9 DEF Builds
<1> QED
  BY <1>2, <1>3 DEF BuilderInv

LEMMA RunsKeep ==
  ASSUME BuilderInv, NEW s \in Sessions, RunStep(s)
  PROVE  BuilderInv'
<1>1. CircuitInv'
  <2>1. UNCHANGED <<circuit_, variables, free_params_, is_parametrized_, meant>>
    BY DEF RunStep, Start, ExecuteGate, EnterBlock, ExecuteBlock, Finish, Throw, builder
  <2> QED
    BY <2>1, OthersKeep DEF BuilderInv
<1> SUFFICES OnlyRunsDisable'
  BY <1>1 DEF BuilderInv
<1>0. OnlyRunsDisable
  BY DEF BuilderInv
<1>2. CASE \E b \in Builders : Start(s, b)
  <2>1. PICK b \in Builders : Start(s, b)
    BY <1>2
  <2>2. s \notin Running /\ disabled' = disabled
    BY <2>1 DEF Start
  <2>3. /\ DOMAIN runs' = Sessions /\ runs' = [r \in Sessions |-> runs'[r]]
        /\ runs'[s].stage = "running" /\ DOMAIN runs'[s] = RunFields
    BY <2>1 DEF Start, RunFields
  <2>4. ASSUME NEW r \in Sessions, r # s
        PROVE  runs'[r] = runs[r] \/ (r \in Running /\ runs'[r] = [runs[r] EXCEPT !.clash = TRUE])
    BY <2>1, <2>4 DEF Start, Clashes
  <2>5. ASSUME NEW r \in Sessions, r # s
        PROVE  /\ r \in Running => DOMAIN runs'[r] = RunFields /\ runs'[r].own = runs[r].own
                                   /\ runs'[r].mine = runs[r].mine
               /\ runs'[r].stage = "running" <=> r \in Running
    <3>1. CASE runs'[r] = runs[r]
      BY <1>0, <3>1 DEF OnlyRunsDisable, Running
    <3>2. CASE r \in Running /\ runs'[r] = [runs[r] EXCEPT !.clash = TRUE]
      <4>1. DOMAIN runs[r] = RunFields /\ runs[r].stage = "running"
        BY <1>0, <3>2 DEF OnlyRunsDisable, Running
      <4> QED
        BY <3>2, <4>1 DEF RunFields
    <3> QED
      BY <2>4, <2>5, <3>1, <3>2
  <2> QED
    BY <1>0, <2>2, <2>3, <2>5 DEF OnlyRunsDisable, Running
<1>3. CASE \/ ExecuteGate(s) \/ EnterBlock(s) \/ ExecuteBlock(s)
  <2>1. s \in Running /\ DOMAIN runs[s] = RunFields /\ DOMAIN runs = Sessions
    BY <1>0, <1>3 DEF ExecuteGate, EnterBlock, ExecuteBlock, ToExecute, OnlyRunsDisable, Running
  <2>2. PICK run : /\ runs' = [runs EXCEPT ![s] = run] /\ DOMAIN run = RunFields
                   /\ run.stage = runs[s].stage /\ run.own = runs[s].own
                   /\ runs[s].mine \subseteq run.mine
                   /\ disabled' = disabled \/ (~ runs[s].own /\ disabled' \subseteq disabled \cup run.mine)
    <3>1. CASE ExecuteGate(s)
      <4>1. runs' = [runs EXCEPT ![s] = Simulate([runs[s] EXCEPT !.todo = Tail(runs[s].todo)], Head(runs[s].todo))]
            /\ disabled' = disabled
        BY <2>1, <3>1 DEF ExecuteGate
      <4> QED
        BY <2>1, <4>1 DEF Simulate, RunFields
    <3>2. CASE EnterBlock(s)
      <4> DEFINE rest == (IF IsOff(s, Head(runs[s].todo)) THEN << >> ELSE Head(runs[s].todo).inside) \o Tail(runs[s].todo)
      <4>1. runs' = [runs EXCEPT ![s].todo = rest] /\ disabled' = disabled
        BY <2>1, <3>2 DEF EnterBlock
      <4> HIDE DEF rest
      <4> QED
        BY <2>1, <4>1 DEF RunFields
    <3>3. CASE ExecuteBlock(s)
      <4> DEFINE block == Head(runs[s].todo)
                 begun == [runs[s] EXCEPT !.todo = Tail(runs[s].todo), !.mine = runs[s].mine \cup {block.id}]
                 run == Simulate(begun, block.inside[1])
      <4>1. runs' = [runs EXCEPT ![s] = run]
            /\ disabled' = IF runs[s].own THEN disabled ELSE disabled \cup {block.id}
        BY <2>1, <3>3 DEF ExecuteBlock
      <4> HIDE DEF block
      <4>2. DOMAIN begun = RunFields /\ begun.stage = runs[s].stage /\ begun.own = runs[s].own
            /\ begun.mine = runs[s].mine \cup {block.id}
        BY <2>1 DEF RunFields
      <4> HIDE DEF begun
      <4>3. DOMAIN run = RunFields /\ run.stage = runs[s].stage /\ run.own = runs[s].own
            /\ run.mine = runs[s].mine \cup {block.id}
        BY <4>2 DEF Simulate, RunFields
      <4> HIDE DEF run
      <4> QED
        BY <4>1, <4>3
    <3> QED
      BY <1>3, <3>1, <3>2, <3>3
  <2>3. \A r \in Sessions : runs'[r] = IF r = s THEN run ELSE runs[r]
    BY <2>1, <2>2
  <2>4. runs' = [r \in Sessions |-> runs'[r]]
    BY <2>1, <2>2
  <2>5. \A r \in Sessions : (runs'[r].stage = "running" <=> r \in Running)
    BY <2>1, <2>2, <2>3 DEF Running
  <2>6. ASSUME NEW n \in disabled' PROVE \E r \in Sessions : r \in Running /\ ~ runs'[r].own /\ n \in runs'[r].mine
    <3>1. CASE n \in disabled
      <4>1. PICK r \in Running : ~ runs[r].own /\ n \in runs[r].mine
        BY <1>0, <3>1 DEF OnlyRunsDisable
      <4>2. r \in Sessions
        BY DEF Running
      <4> QED
        BY <2>2, <2>3, <4>1, <4>2
    <3>2. CASE n \notin disabled
      BY <2>1, <2>2, <2>3, <3>2 DEF Running
    <3> QED
      BY <3>1, <3>2
  <2> QED
    BY <1>0, <2>2, <2>3, <2>4, <2>5, <2>6 DEF OnlyRunsDisable, Running
<1>5. CASE Finish(s) \/ Throw(s)
  <2>1. PICK stage \in {"idle", "wrong"} : runs' = [runs EXCEPT ![s] = [stage |-> stage]]
    BY <1>5 DEF Finish, Throw, Ended
  <2>2. disabled' = IF runs[s].own THEN disabled ELSE disabled \ runs[s].mine
    BY <1>5 DEF Finish, Throw, Enable
  <2>3. DOMAIN runs = Sessions /\ runs' = [r \in Sessions |-> runs'[r]]
    BY <1>0, <2>1 DEF OnlyRunsDisable
  <2>4. \A r \in Sessions \ {s} : runs'[r] = runs[r]
    BY <2>1, <2>3
  <2>5. runs'[s].stage # "running"
    BY <2>1, <2>3
  <2> QED
    BY <1>0, <2>2, <2>3, <2>4, <2>5 DEF OnlyRunsDisable, Running
<1> QED
  BY <1>2, <1>3, <1>5 DEF RunStep

LEMMA StartsKept == ASSUME Init PROVE BuilderInv
<1> DEFINE none == << >>
<1>1. none \in Seq(Instrs) /\ none \in Seq(PlainGates) /\ none \in Seq(Parameters)
      /\ WithNames(<< >>, ParamsOf(Leaves(none))) = none /\ Leaves(none) = none /\ none = << >>
  <2>1. << >> \in Seq(Instrs) /\ << >> \in Seq(PlainGates) /\ << >> \in Seq(Parameters)
    BY EmptySeq
  <2> QED
    BY <2>1, LeavesEmpty, ParamsEmpty, WithNamesEmpty
<1>2. /\ circuit_ = [b \in Builders |-> none] /\ variables = [b \in Builders |-> none]
      /\ free_params_ = [b \in Builders |-> none] /\ meant = [b \in Builders |-> none]
      /\ is_parametrized_ = [b \in Builders |-> FALSE]
  BY DEF Init
<1> HIDE DEF none
<1>3. CircuitTypes
  BY <1>1, <1>2 DEF CircuitTypes
<1>4. NothingLost
  BY <1>1, <1>2 DEF NothingLost
<1>5. ParametersListed
  BY <1>1, <1>2 DEF ParametersListed
<1>6. OnlyRunsDisable
  BY DEF Init, OnlyRunsDisable, Running
<1> QED
  BY <1>3, <1>4, <1>5, <1>6 DEF BuilderInv, CircuitInv

LEMMA StutterKeeps == ASSUME BuilderInv, UNCHANGED vars PROVE BuilderInv'
<1>1. UNCHANGED <<circuit_, variables, free_params_, is_parametrized_, meant>> /\ UNCHANGED <<disabled, runs>>
  BY DEF vars, builder
<1>2. CircuitInv'
  BY <1>1, OthersKeep DEF BuilderInv
<1>3. OnlyRunsDisable'
  BY <1>1 DEF BuilderInv, OnlyRunsDisable, Running
<1> QED
  BY <1>2, <1>3 DEF BuilderInv

LEMMA BuilderInduction == Spec => []BuilderInv
<1>1. BuilderInv /\ [Next]_vars => BuilderInv'
  BY NextSteps, BuildsKeep, RunsKeep, StutterKeeps
<1> QED
  BY <1>1, StartsKept, PTL DEF Spec

(* Every circuit has, in order, every gate that add_gate, append, CU, MCX,   *)
(* MeasureAll, the copies and the readings of compiled circuits were asked   *)
(* for (circuit_builder.cpp), and no other, whatever runs there were: none   *)
(* leaves a block disabled that append or a copy would then miss.            *)
THEOREM EveryGateIsThere == Spec => []NothingLost
<1>1. BuilderInv => NothingLost
  BY DEF BuilderInv, CircuitInv
<1> QED
  BY <1>1, BuilderInduction, PTL

(* free_params_ names every free parameter of a circuit once, in the order   *)
(* its gates first have them, as the binding of param_dict_to_list documents *)
(* (py_circuit_builder.cpp), and a circuit that has any is_parametrized_.    *)
THEOREM ParametersInOrder == Spec => []ParametersListed
<1>1. BuilderInv => ParametersListed
  BY DEF BuilderInv, CircuitInv
<1> QED
  BY <1>1, BuilderInduction, PTL

-----------------------------------------------------------------------------
(* Values reach their names if a circuit's variables are in step with its    *)
(* list.                                                                     *)

InStep == variables = free_params_

LEMMA NotingNew ==
  ASSUME NEW N, NEW list \in Seq(N), NEW ps \in Seq(N)
  PROVE  WithNames(list, Among(ps, Range(ps) \ Range(list))) = WithNames(list, ps)
<1> DEFINE T == Range(ps) \ Range(list)
           S == {u \in Seq(N) : Range(u) \subseteq Range(ps) =>
                                  WithNames(list, Among(u, T)) = WithNames(list, u)}
<1>a. \A u \in Seq(N), x \in N : Append(u, x) \in Seq(N) /\ Append(u, x) = u \o <<x>> /\ <<x>> \in Seq(N)
  BY AppendProperties, AppendIsConcat
<1> HIDE DEF T
<1>1. << >> \in S
  <2>1. << >> \in Seq(N) /\ Range(<< >>) \subseteq T
    BY EmptySeq, RangeOfEmpty
  <2>2. Among(<< >>, T) = << >>
    BY <2>1, AmongAll
  <2> QED
    BY <2>1, <2>2
<1>2. ASSUME NEW u \in S, NEW x \in N PROVE Append(u, x) \in S
  <2>1. u \in Seq(N) /\ Append(u, x) \in Seq(N) /\ Range(Append(u, x)) = Range(u) \cup {x}
    BY <1>a, RangeOfAppend
  <2>2. ASSUME Range(Append(u, x)) \subseteq Range(ps)
        PROVE  WithNames(list, Among(Append(u, x), T)) = WithNames(list, Append(u, x))
    <3>1. WithNames(list, Among(u, T)) = WithNames(list, u) /\ x \in Range(ps)
      BY <2>1, <2>2
    <3>2. Among(Append(u, x), T) = Among(u, T) \o (IF x \in T THEN <<x>> ELSE << >>)
      <4>1. Among(u \o <<x>>, T) = Among(u, T) \o Among(<<x>>, T)
        <5>1. \A s, t \in Seq(N) : Among(s \o t, T) = Among(s, T) \o Among(t, T)
          BY AmongConcat
        <5> QED
          BY <1>a, <2>1, <5>1
      <4>2. Among(<<x>>, T) = IF x \in T THEN <<x>> ELSE << >>
        BY AmongOne
      <4> QED
        BY <1>a, <2>1, <4>1, <4>2
    <3> DEFINE v == Among(u, T)
    <3>3. v \in Seq(N)
      BY <2>1, AmongType
    <3>4. /\ WithNames(list, Append(u, x)) = WithName(WithNames(list, u), x)
          /\ WithNames(list, Append(v, x)) = WithName(WithNames(list, v), x)
      <4>1. \A w \in Seq(N) : WithNames(list, Append(w, x)) = WithName(WithNames(list, w), x)
        BY WithNamesAppend
      <4> HIDE DEF v
      <4> QED
        BY <2>1, <3>3, <4>1
    <3>5. CASE x \in T
      <4>1. Among(Append(u, x), T) = Append(v, x)
        <5>1. Append(v, x) = v \o <<x>>
          BY <1>a, <3>3
        <5> QED
          BY <3>2, <3>5, <5>1
      <4> HIDE DEF v
      <4> QED
        BY <3>1, <3>4, <4>1 DEF v
    <3>6. CASE x \notin T
      <4>1. Among(Append(u, x), T) = v
        <5>1. v \o << >> = v
          <6> HIDE DEF v
          <6> QED
            BY <3>3, ConcatEmptySeq
        <5> QED
          BY <3>2, <3>6, <5>1
      <4>2. x \in Range(list)
        BY <3>1, <3>6 DEF T
      <4>3. Contains(WithNames(list, u), x)
        <5>1. Range(WithNames(list, u)) = Range(list) \cup (Range(u) \ {"number"}) /\ WithNames(list, u) \in Seq(N)
          BY <2>1, WithNamesRange, WithNamesType
        <5>2. x \in Range(WithNames(list, u))
          BY <4>2, <5>1
        <5> QED
          BY <5>1, <5>2, LenProperties DEF Contains, Range
      <4>4. WithName(WithNames(list, u), x) = WithNames(list, u)
        BY <4>3 DEF WithName
      <4> QED
        BY <3>1, <3>4, <4>1, <4>4
    <3> QED
      BY <3>5, <3>6
  <2> QED
    BY <2>1, <2>2
<1>3. S = Seq(N)
  <2>1. S \in SUBSET Seq(N)
    OBVIOUS
  <2> HIDE DEF S
  <2> QED
    BY <1>1, <1>2, <2>1, SequenceInduction
<1> QED
  BY <1>3 DEF T

LEMMA NoteKeepsStep ==
  ASSUME CircuitTypes, InStep, NEW b \in Builders, NEW params \in Seq(Parameters), Note(b, params)
  PROVE  InStep'
<1> DEFINE list == free_params_[b]
           new == Among(params, Range(params) \ Range(list))
<1>1. WithNames(list, new) = WithNames(list, params)
  BY NotingNew DEF CircuitTypes
<1>2. /\ free_params_' = [free_params_ EXCEPT ![b] = WithNames(list, params)]
      /\ variables' = [variables EXCEPT ![b] = WithNames(variables[b], new)]
  BY DEF Note
<1>3. variables[b] = list
  BY DEF InStep
<1> HIDE DEF list, new
<1> QED
  BY <1>1, <1>2, <1>3 DEF InStep

LEMMA BuildsKeepStep ==
  ASSUME OrderlyPrograms, BuilderInv, InStep, Builds
  PROVE  InStep'
<1>0. CircuitInv /\ CircuitTypes
  BY DEF BuilderInv, CircuitInv
<1>1. CASE UNCHANGED <<free_params_, variables>>
  BY <1>1 DEF InStep
<1>2. ASSUME NEW b \in Builders, NEW params \in Seq(Parameters), Note(b, params) PROVE InStep'
  BY <1>0, <1>2, NoteKeepsStep
<1>3. ASSUME NEW b \in Builders, NEW g \in Free, AddFree(b, g) PROVE InStep'
  <2>1. g.params \in Seq(Parameters) /\ Note(b, g.params)
    BY <1>3, InputsAssumption DEF PlainGates, AddFree
  <2> QED
    BY <1>2, <2>1
<1>4. ASSUME NEW b \in Builders, NEW p \in UNION {Range(g.params) : g \in Free}, AddCRX(b, p) PROVE InStep'
  <2>1. \A g \in Free : g.params \in Seq(Parameters)
    BY InputsAssumption DEF PlainGates
  <2>2. p \in Parameters
    BY <2>1, LenProperties, ElementOfSeq DEF Range
  <2>3. <<p>> \in Seq(Parameters) /\ Note(b, <<p>>)
    BY <1>4, <2>2 DEF AddCRX
  <2> QED
    BY <1>2, <2>3
<1>5. ASSUME NEW b \in Builders, NEW call \in GateCalls, CallGate(b, call) PROVE InStep'
  <2>1. << >> \in Seq(Parameters)
    BY EmptySeq
  <2>2. NamesGiven(call) \in Seq(Parameters) /\ Note(b, NamesGiven(call))
    BY <1>5, <2>1, AskedGates DEF CallGate
  <2> QED
    BY <1>2, <2>2
<1>6. ASSUME NEW b \in Builders, NEW other \in Builders, CallAppend(b, other) PROVE InStep'
  <2>1. disabled = {}
    BY <1>6, NothingDisabled DEF BuilderInv, CallAppend, Room
  <2>2. circuit_[other] \in Seq(Instrs) /\ Enabled(circuit_[other]) = Leaves(circuit_[other])
    BY <1>0, <2>1, EnabledAreAll DEF CircuitTypes
  <2>3. ParamsOf(Enabled(circuit_[other])) \in Seq(Parameters)
    BY <2>2, LeavesType, ParamsType
  <2>4. Note(b, ParamsOf(Enabled(circuit_[other])))
    BY <1>6 DEF CallAppend
  <2> QED
    BY <1>2, <2>3, <2>4
<1>7. ASSUME NEW b \in Builders, NEW other \in Builders, CallCopy(b, other) PROVE InStep'
  BY <1>7 DEF CallCopy, InStep
<1>8. ASSUME NEW b \in Builders, New(b) PROVE InStep'
  BY <1>8 DEF New, InStep
<1>9. ASSUME NEW b \in Builders, NEW insts, NEW declared, FromComposite(b, insts, declared),
             declared \in Seq(Parameters), declared = WithNames(<< >>, ParamsOf(Leaves(insts)))
      PROVE  InStep'
  <2>1. WithNames(declared, declared) = declared
    <3>1. Range(declared) \subseteq Range(declared) \cup {"number"}
      OBVIOUS
    <3> QED
      BY <1>9, <3>1, WithNamesKnown
  <2>2. /\ free_params_' = [free_params_ EXCEPT ![b] = declared]
        /\ variables' = [variables EXCEPT ![b] = WithNames(declared, declared)]
    BY <1>9 DEF FromComposite
  <2> QED
    BY <2>1, <2>2 DEF InStep
<1>10. ASSUME NEW b \in Builders, NEW other \in Builders, ReadIrtarget(b, other) PROVE InStep'
  <2>1. /\ variables[other] \in Seq(Parameters)
        /\ variables[other] = WithNames(<< >>, ParamsOf(Leaves(circuit_[other])))
    BY <1>0 DEF CircuitTypes, InStep, CircuitInv, ParametersListed
  <2>2. FromComposite(b, circuit_[other], variables[other])
    BY <1>10 DEF ReadIrtarget
  <2> QED
    BY <1>9, <2>1, <2>2
<1>11. ASSUME NEW b \in Builders, NEW program \in Programs, ReadCompiled(b, program) PROVE InStep'
  <2>1. program.gates \in Seq(PlainGates) /\ program.variables \in Seq(Parameters)
    BY InputsAssumption
  <2>2. Leaves(program.gates) = program.gates
    BY <2>1, LeavesOfGates
  <2>3. FromComposite(b, program.gates, program.variables)
        /\ program.variables = WithNames(<< >>, ParamsOf(Leaves(program.gates)))
    BY <1>11, <2>2 DEF ReadCompiled, OrderlyPrograms
  <2> QED
    BY <1>9, <2>1, <2>3
<1>12. ASSUME NEW b \in Builders, NEW call, CallBlock(b, call) \/ CallAlgorithm(call) PROVE InStep'
  BY <1>1, <1>12 DEF CallBlock, CallAlgorithm
<1>13. ASSUME NEW b \in Builders,
              (\E g \in Gates : AddGate(b, g)) \/ AddMCX(b) \/ AddMeasureAll(b) \/ \E other \in Builders : AddCU(b, other)
       PROVE  InStep'
  BY <1>1, <1>13 DEF AddGate, AddMCX, AddCU, AddBlock, AddMeasureAll
<1>14. CASE \E call \in AlgorithmCalls : CallAlgorithm(call)
  BY <1>1, <1>14 DEF CallAlgorithm
<1> QED
  BY <1>3, <1>4, <1>5, <1>6, <1>7, <1>8, <1>10, <1>11, <1>12, <1>13, <1>14 DEF Builds

-----------------------------------------------------------------------------
(* No two blocks of a circuit have the same number.                          *)

NoBlockTwice(insts) ==
  \A i, j \in DOMAIN insts : insts[i].id # 0 /\ insts[i].id = insts[j].id => i = j
BlocksDiffer == \A b \in Builders : NoBlockTwice(circuit_[b])

LEMMA GatesDiffer == ASSUME NEW gs \in Seq(PlainGates) PROVE NoBlockTwice(gs)
<1>1. \A i \in DOMAIN gs : gs[i].id = 0
  <2>1. \A i \in DOMAIN gs : gs[i] \in PlainGates
    BY LenProperties, ElementOfSeq
  <2> QED
    BY <2>1 DEF PlainGates
<1> QED
  BY <1>1 DEF NoBlockTwice

LEMMA MoreGatesDiffer ==
  ASSUME NEW c \in Seq(Instrs), NEW gs \in Seq(PlainGates), NoBlockTwice(c)
  PROVE  NoBlockTwice(c \o gs)
<1>1. gs \in Seq(Instrs)
  BY GatesAreInstrs
<1>2. Len(c) \in Nat /\ Len(gs) \in Nat /\ DOMAIN c = 1 .. Len(c) /\ DOMAIN gs = 1 .. Len(gs)
  BY LenProperties
<1>3. \A j \in DOMAIN gs : gs[j].id = 0
  <2>1. \A i \in DOMAIN gs : gs[i] \in PlainGates
    BY LenProperties, ElementOfSeq
  <2> QED
    BY <2>1 DEF PlainGates
<1>4. /\ c \o gs \in Seq(Instrs) /\ Len(c \o gs) = Len(c) + Len(gs)
      /\ \A i \in 1 .. Len(c) + Len(gs) : (c \o gs)[i] = IF i <= Len(c) THEN c[i] ELSE gs[i - Len(c)]
  BY <1>1, ConcatProperties
<1>5. DOMAIN (c \o gs) = 1 .. Len(c) + Len(gs)
  BY <1>4, LenProperties
<1>6. ASSUME NEW i \in 1 .. Len(c) + Len(gs), (c \o gs)[i].id # 0
      PROVE  i \in 1 .. Len(c) /\ (c \o gs)[i] = c[i]
  <2>1. CASE i <= Len(c)
    BY <1>2, <1>4, <2>1
  <2>2. CASE ~ (i <= Len(c))
    <3>1. i - Len(c) \in DOMAIN gs /\ (c \o gs)[i] = gs[i - Len(c)]
      BY <1>2, <1>4, <2>2
    <3> QED
      BY <1>3, <1>6, <3>1
  <2> QED
    BY <2>1, <2>2
<1>7. ASSUME NEW i \in 1 .. Len(c) + Len(gs), NEW j \in 1 .. Len(c) + Len(gs),
             (c \o gs)[i].id # 0, (c \o gs)[i].id = (c \o gs)[j].id
      PROVE  i = j
  <2>1. i \in 1 .. Len(c) /\ j \in 1 .. Len(c) /\ c[i].id # 0 /\ c[i].id = c[j].id
    BY <1>6, <1>7
  <2> QED
    BY <1>2, <2>1 DEF NoBlockTwice
<1> QED
  BY <1>5, <1>7 DEF NoBlockTwice

LEMMA OneMoreDiffers ==
  ASSUME NEW X, NEW c \in Seq(X), NEW x \in X, x.id \notin Blocks(c), NoBlockTwice(c)
  PROVE  NoBlockTwice(c \o <<x>>)
<1> DEFINE d == Append(c, x)
           n == Len(c)
<1>1. c \o <<x>> = d
  BY AppendIsConcat
<1>2. n \in Nat /\ DOMAIN c = 1 .. n /\ DOMAIN d = 1 .. n + 1 /\ d[n + 1] = x
      /\ \A i \in 1 .. n : d[i] = c[i]
  <2>1. d \in Seq(X) /\ Len(d) = n + 1 /\ d[n + 1] = x /\ \A i \in 1 .. n : d[i] = c[i]
    BY AppendProperties
  <2> HIDE DEF d
  <2> QED
    BY <2>1, LenProperties
<1>3. \A i \in 1 .. n : c[i].id # 0 => c[i].id # x.id
  BY <1>2 DEF Blocks
<1> HIDE DEF d, n
<1>4. ASSUME NEW i \in 1 .. n + 1, NEW j \in 1 .. n + 1, d[i].id # 0, d[i].id = d[j].id
      PROVE  i = j
  <2>1. CASE i \in 1 .. n /\ j \in 1 .. n
    BY <1>2, <1>4, <2>1 DEF NoBlockTwice
  <2>2. CASE i = n + 1 /\ j = n + 1
    BY <2>2
  <2>3. CASE i = n + 1 /\ j \in 1 .. n
    BY <1>2, <1>3, <1>4, <2>3
  <2>4. CASE i \in 1 .. n /\ j = n + 1
    BY <1>2, <1>3, <1>4, <2>4
  <2> QED
    BY <1>2, <2>1, <2>2, <2>3, <2>4
<1> QED
  BY <1>1, <1>2, <1>4 DEF NoBlockTwice

LEMMA BuildsKeepBlocks ==
  ASSUME BuilderInv, BlocksDiffer, Builds
  PROVE  BlocksDiffer'
<1>0. CircuitInv /\ CircuitTypes /\ \A b \in Builders : circuit_[b] \in Seq(Instrs)
  BY DEF BuilderInv, CircuitInv, CircuitTypes
<1>1. CASE UNCHANGED circuit_
  BY <1>1 DEF BlocksDiffer
<1>2. ASSUME NEW b \in Builders, NEW gates \in Seq(PlainGates), Put(b, gates) PROVE BlocksDiffer'
  <2>1. NoBlockTwice(circuit_[b] \o gates)
    BY <1>0, MoreGatesDiffer DEF BlocksDiffer
  <2>2. circuit_' = [circuit_ EXCEPT ![b] = circuit_[b] \o gates]
    BY <1>2 DEF Put
  <2> QED
    BY <1>0, <2>1, <2>2 DEF BlocksDiffer, CircuitTypes
<1>3. ASSUME NEW b \in Builders, NEW ctrl, NEW gates, AddBlock(b, ctrl, gates) PROVE BlocksDiffer'
  <2> DEFINE block == CU(ctrl, gates)
             X == Instrs \cup {block}
  <2>1. block.id = Unused
    BY DEF CU, Gate
  <2>2. block.id \notin Blocks(circuit_[b])
    BY <1>0, <2>1, UnusedNumber DEF CircuitTypes
  <2>3. circuit_' = [circuit_ EXCEPT ![b] = circuit_[b] \o <<block>>]
    BY <1>3 DEF AddBlock, Put
  <2> HIDE DEF block
  <2>4. circuit_[b] \in Seq(X) /\ block \in X
    BY <1>0, SeqMonotonic
  <2>5. NoBlockTwice(circuit_[b] \o <<block>>)
    <3> HIDE DEF X
    <3> QED
      BY <2>2, <2>4, OneMoreDiffers DEF BlocksDiffer
  <2> QED
    BY <1>0, <2>3, <2>5 DEF BlocksDiffer, CircuitTypes
<1>4. ASSUME NEW b \in Builders, NEW insts, NoBlockTwice(insts), circuit_' = [circuit_ EXCEPT ![b] = insts]
      PROVE  BlocksDiffer'
  BY <1>0, <1>4 DEF BlocksDiffer, CircuitTypes
<1>5. ASSUME NEW b \in Builders, NEW g \in Gates \cup Free, AddGate(b, g) \/ AddFree(b, g) PROVE BlocksDiffer'
  <2>1. <<g>> \in Seq(PlainGates)
    BY InputsAssumption
  <2>2. Put(b, <<g>>)
    BY <1>5 DEF AddGate, AddFree
  <2> QED
    BY <1>2, <2>1, <2>2
<1>6. ASSUME NEW b \in Builders, NEW p \in UNION {Range(g.params) : g \in Free}, AddCRX(b, p) PROVE BlocksDiffer'
  <2>1. \A g \in Free : g.params \in Seq(Parameters)
    BY InputsAssumption DEF PlainGates
  <2>2. p \in Parameters /\ << >> \in Seq(Parameters)
    BY <2>1, LenProperties, ElementOfSeq, EmptySeq DEF Range
  <2>3. CRX(0, 1, p) \in Seq(PlainGates) /\ Put(b, CRX(0, 1, p))
    BY <1>6, <2>2, RotationGates DEF AddCRX
  <2> QED
    BY <1>2, <2>3
<1>7. ASSUME NEW b \in Builders, NEW call \in GateCalls, CallGate(b, call) PROVE BlocksDiffer'
  <2>1. << >> \in Seq(Parameters)
    BY EmptySeq
  <2>2. GatesAsked(call) \in Seq(PlainGates) /\ Put(b, GatesAsked(call))
    BY <1>7, <2>1, AskedGates DEF CallGate
  <2> QED
    BY <1>2, <2>2
<1>8. ASSUME NEW b \in Builders, AddMeasureAll(b) PROVE BlocksDiffer'
  <2>1. MeasureAll(circuit_[b]) \in Seq(PlainGates)
    <3>1. MeasureAll(circuit_[b]) \in Seq(NumberGates)
      BY <1>0, MeasureGates
    <3> QED
      BY <3>1, SeqMonotonic DEF NumberGates
  <2>2. Put(b, MeasureAll(circuit_[b]))
    BY <1>8 DEF AddMeasureAll
  <2> QED
    BY <1>2, <2>1, <2>2
<1>9. ASSUME NEW b \in Builders, NEW call, CallBlock(b, call) PROVE BlocksDiffer'
  <2> DEFINE block == Gate("block", <<0, 1>>, << >>)
             gates == IF Expands(call) THEN <<block>> ELSE << >>
  <2>1. block \in PlainGates
    <3>1. <<0, 1>> \in Seq(Nat) /\ << >> \in Seq(Parameters) /\ "block" \in GateNames
      BY EmptySeq DEF GateNames, BuiltIn
    <3> QED
      BY <3>1, GateType
  <2>2. Put(b, gates)
    BY <1>9 DEF CallBlock
  <2> HIDE DEF block
  <2>3. gates \in Seq(PlainGates)
    <3>1. <<block>> \in Seq(PlainGates) /\ << >> \in Seq(PlainGates)
      BY <2>1, EmptySeq
    <3> QED
      BY <3>1
  <2> HIDE DEF gates
  <2> QED
    BY <1>2, <2>2, <2>3
<1>10. ASSUME NEW b \in Builders, NEW other \in Builders, CallAppend(b, other) PROVE BlocksDiffer'
  <2>1. disabled = {}
    BY <1>10, NothingDisabled DEF BuilderInv, CallAppend, Room
  <2>2. Enabled(circuit_[other]) = Leaves(circuit_[other])
    BY <1>0, <2>1, EnabledAreAll
  <2>3. Enabled(circuit_[other]) \in Seq(PlainGates)
    BY <1>0, <2>2, LeavesType
  <2>4. Put(b, Enabled(circuit_[other]))
    BY <1>10 DEF CallAppend, AppendsTo
  <2> QED
    BY <1>2, <2>3, <2>4
<1>11. ASSUME NEW b \in Builders, NEW other \in Builders, CallCopy(b, other) \/ ReadIrtarget(b, other)
       PROVE  BlocksDiffer'
  <2>1. NoBlockTwice(circuit_[other]) /\ circuit_' = [circuit_ EXCEPT ![b] = circuit_[other]]
    BY <1>11 DEF CallCopy, ReadIrtarget, FromComposite, BlocksDiffer
  <2> QED
    BY <1>4, <2>1
<1>12. ASSUME NEW b \in Builders, NEW program \in Programs, ReadCompiled(b, program) PROVE BlocksDiffer'
  <2>1. NoBlockTwice(program.gates)
    BY InputsAssumption, GatesDiffer
  <2>2. circuit_' = [circuit_ EXCEPT ![b] = program.gates]
    BY <1>12 DEF ReadCompiled, FromComposite
  <2> QED
    BY <1>4, <2>1, <2>2
<1>13. ASSUME NEW b \in Builders, New(b) PROVE BlocksDiffer'
  <2>1. NoBlockTwice(<< >>)
    BY EmptySeq, GatesDiffer
  <2>2. circuit_' = [circuit_ EXCEPT ![b] = << >>]
    BY <1>13 DEF New
  <2> QED
    BY <1>4, <2>1, <2>2
<1>14. ASSUME NEW b \in Builders, AddMCX(b) \/ \E other \in Builders : AddCU(b, other) PROVE BlocksDiffer'
  BY <1>3, <1>14 DEF AddMCX, AddCU
<1>15. CASE \E call \in AlgorithmCalls : CallAlgorithm(call)
  BY <1>1, <1>15 DEF CallAlgorithm
<1> QED
  BY <1>5, <1>6, <1>7, <1>8, <1>9, <1>10, <1>11, <1>12, <1>13, <1>14, <1>15 DEF Builds

-----------------------------------------------------------------------------
(* A circuit in step with its list is bound to itself: each name, to the     *)
(* value of that name.                                                       *)

LEMMA NamesGetTheirValues ==
  ASSUME NEW b \in Builders, CircuitTypes, InStep, NEW p \in Range(free_params_[b]) \cup {"number"}
  PROVE  ValueOf(b, p) = p
<1> DEFINE list == free_params_[b]
<1>1. list \in Seq(Parameters) /\ variables[b] = list
  BY DEF CircuitTypes, InStep
<1>2. CASE p = "number"
  BY <1>2 DEF ValueOf
<1>3. CASE p # "number"
  <2>1. p \in Range(list)
    BY <1>3
  <2>2. PICK i \in DOMAIN list : list[i] = p
    BY <2>1 DEF Range
  <2>3. Contains(list, p)
    BY <1>1, <2>2, LenProperties DEF Contains
  <2> DEFINE k == CHOOSE j \in DOMAIN list : list[j] = p
  <2>4. ValueOf(b, p) = list[k]
    BY <1>1, <1>3, <2>3 DEF ValueOf, param_map_to_vec
  <2>5. list[k] = p
    <3> HIDE DEF list
    <3> QED
      BY <2>2
  <2> QED
    BY <2>4, <2>5
<1> QED
  BY <1>2, <1>3

LEMMA GatesGetTheirValues ==
  ASSUME NEW b \in Builders, CircuitTypes, InStep, NEW g \in PlainGates,
         Range(g.params) \subseteq Range(free_params_[b]) \cup {"number"}
  PROVE  WithValues(b, g) = g
<1> DEFINE params == [i \in DOMAIN g.params |-> ValueOf(b, g.params[i])]
<1>1. \A i \in DOMAIN g.params : ValueOf(b, g.params[i]) = g.params[i]
  <2>1. \A i \in DOMAIN g.params : g.params[i] \in Range(free_params_[b]) \cup {"number"}
    BY DEF Range
  <2> QED
    BY <2>1, NamesGetTheirValues
<1>2. params = g.params
  <2>1. g.params \in Seq(Parameters)
    BY DEF PlainGates
  <2>2. g.params = [i \in DOMAIN g.params |-> g.params[i]]
    BY <2>1
  <2> QED
    BY <1>1, <2>2
<1>3. WithValues(b, g) = [g EXCEPT !.params = params]
  BY DEF WithValues
<1> HIDE DEF params
<1> QED
  BY <1>2, <1>3 DEF PlainGates

LEMMA InstructionsGetTheirValues ==
  ASSUME NEW b \in Builders, CircuitTypes, InStep, NEW inst \in Instrs,
         inst \in PlainGates => Range(inst.params) \subseteq Range(free_params_[b]) \cup {"number"}
  PROVE  [WithValues(b, inst) EXCEPT !.inside = [k \in DOMAIN inst.inside |-> WithValues(b, inst.inside[k])]] = inst
<1> DEFINE inside == [k \in DOMAIN inst.inside |-> WithValues(b, inst.inside[k])]
<1>1. CASE inst \in PlainGates
  <2>1. WithValues(b, inst) = inst
    BY <1>1, GatesGetTheirValues
  <2>2. inst.inside = << >>
    BY <1>1 DEF PlainGates
  <2>3. inside = << >>
    BY <2>2
  <2> HIDE DEF inside
  <2>4. [inst EXCEPT !.inside = inside] = inst
    BY <1>1, <2>2, <2>3 DEF PlainGates
  <2> QED
    BY <2>1, <2>4 DEF inside
<1>2. CASE inst \in BlockInsts
  <2>1. inst.params = << >> /\ inst.inside \in Seq(NumberGates)
    BY <1>2 DEF BlockInsts
  <2>2. WithValues(b, inst) = inst
    <3> DEFINE params == [i \in DOMAIN inst.params |-> ValueOf(b, inst.params[i])]
    <3>1. params = << >>
      BY <2>1
    <3>2. WithValues(b, inst) = [inst EXCEPT !.params = params]
      BY DEF WithValues
    <3> HIDE DEF params
    <3> QED
      BY <1>2, <2>1, <3>1, <3>2 DEF BlockInsts
  <2>3. \A k \in DOMAIN inst.inside : WithValues(b, inst.inside[k]) = inst.inside[k]
    <3> SUFFICES ASSUME NEW k \in DOMAIN inst.inside PROVE WithValues(b, inst.inside[k]) = inst.inside[k]
      OBVIOUS
    <3> DEFINE g == inst.inside[k]
    <3>1. g \in NumberGates
      BY <2>1, LenProperties, ElementOfSeq
    <3>2. g \in PlainGates /\ Range(g.params) \subseteq {"number"}
      BY <3>1 DEF NumberGates, Symbolic, Range
    <3> HIDE DEF g
    <3>3. WithValues(b, g) = g
      BY <3>2, GatesGetTheirValues
    <3> QED
      BY <3>3 DEF g
  <2>4. inside = inst.inside
    <3>1. inst.inside = [k \in DOMAIN inst.inside |-> inst.inside[k]]
      BY <2>1
    <3> QED
      BY <2>3, <3>1
  <2> HIDE DEF inside
  <2>5. [inst EXCEPT !.inside = inside] = inst
    BY <1>2, <2>4 DEF BlockInsts
  <2> QED
    BY <2>2, <2>5 DEF inside
<1> QED
  BY <1>1, <1>2 DEF Instrs

(* What a run starts with.                                                   *)
LEMMA BoundToItself ==
  ASSUME BuilderInv, InStep, NEW b \in Builders, NEW insts \in Seq(Instrs),
         Range(insts) \subseteq Range(circuit_[b])
  PROVE  Bound(b, insts) = insts
<1> DEFINE known == Range(free_params_[b]) \cup {"number"}
           gates == Leaves(circuit_[b])
<1>1. /\ CircuitTypes /\ circuit_[b] \in Seq(Instrs)
      /\ free_params_[b] = WithNames(<< >>, ParamsOf(gates))
  BY DEF BuilderInv, CircuitInv, CircuitTypes, ParametersListed
<1>2. gates \in Seq(PlainGates) /\ ParamsOf(gates) \in Seq(Parameters) /\ << >> \in Seq(Parameters)
  BY <1>1, LeavesType, ParamsType, EmptySeq
<1>3. Range(free_params_[b]) = Range(ParamsOf(gates)) \ {"number"}
  <2>1. \A l, ps \in Seq(Parameters) : Range(WithNames(l, ps)) = Range(l) \cup (Range(ps) \ {"number"})
    BY WithNamesRange
  <2> DEFINE ps == ParamsOf(gates)
             none == << >>
  <2>2. ps \in Seq(Parameters) /\ none \in Seq(Parameters) /\ free_params_[b] = WithNames(none, ps) /\ Range(none) = {}
    BY <1>1, <1>2, RangeOfEmpty
  <2> HIDE DEF ps, none
  <2>3. Range(free_params_[b]) = Range(ps) \ {"number"}
    BY <2>1, <2>2
  <2> QED
    BY <2>3 DEF ps
<1>4. ASSUME NEW g \in Range(circuit_[b]), g \in PlainGates PROVE Range(g.params) \subseteq known
  <2>1. g \in Range(gates)
    <3>1. Range(FlatMap(circuit_[b], InsideOf)) = UNION {Range(InsideOf[inst]) : inst \in Range(circuit_[b])}
      BY <1>1, InsideOfType, FlatMapRange
    <3>2. InsideOf[g] = <<g>> /\ Range(<<g>>) = {g}
      <4>1. g \in Instrs /\ Inside(g) = <<g>>
        BY <1>4, InsideType DEF Instrs
      <4> QED
        BY <4>1 DEF InsideOf, Range
    <3>3. gates = FlatMap(circuit_[b], InsideOf)
      BY <1>1, LeavesMap
    <3> HIDE DEF gates
    <3> QED
      BY <1>4, <3>1, <3>2, <3>3
  <2>2. Range(ParamsOf(gates)) = UNION {Range(h.params) : h \in Range(gates)}
    BY <1>2, ParamsRange
  <2> HIDE DEF gates
  <2> QED
    BY <1>3, <2>1, <2>2
<1> DEFINE inside(inst) == [k \in DOMAIN inst.inside |-> WithValues(b, inst.inside[k])]
           bound(inst) == [WithValues(b, inst) EXCEPT !.inside = inside(inst)]
<1>5. \A i \in DOMAIN insts : bound(insts[i]) = insts[i]
  <2> SUFFICES ASSUME NEW i \in DOMAIN insts PROVE bound(insts[i]) = insts[i]
    OBVIOUS
  <2> DEFINE inst == insts[i]
  <2>1. inst \in Instrs /\ inst \in Range(circuit_[b])
    <3>1. inst \in Range(insts)
      BY DEF Range
    <3> QED
      BY <3>1, LenProperties, ElementOfSeq
  <2> HIDE DEF inst
  <2>2. inst \in PlainGates => Range(inst.params) \subseteq known
    BY <1>4, <2>1
  <2>3. bound(inst) = inst
    BY <1>1, <2>1, <2>2, InstructionsGetTheirValues
  <2> QED
    BY <2>3 DEF inst
<1>6. Bound(b, insts) = [i \in DOMAIN insts |-> bound(insts[i])]
  BY DEF Bound
<1>7. insts = [i \in DOMAIN insts |-> insts[i]]
  OBVIOUS
<1> HIDE DEF bound
<1> QED
  BY <1>5, <1>6, <1>7

-----------------------------------------------------------------------------
(* The runs.                                                                 *)

LEMMA HeadAndTail ==
  ASSUME NEW todo \in Seq(Instrs), todo # << >>
  PROVE  /\ Head(todo) \in Instrs /\ Tail(todo) \in Seq(Instrs)
         /\ Leaves(todo) = Inside(Head(todo)) \o Leaves(Tail(todo))
         /\ Blocks(Tail(todo)) \subseteq Blocks(todo)
         /\ Head(todo).id # 0 => Head(todo).id \in Blocks(todo)
         /\ NoBlockTwice(todo) => NoBlockTwice(Tail(todo)) /\ Head(todo).id \notin Blocks(Tail(todo))
<1> DEFINE h == Head(todo)
           t == Tail(todo)
<1>1. h \in Instrs /\ t \in Seq(Instrs) /\ h = todo[1] /\ Len(todo) \in Nat /\ Len(todo) >= 1
      /\ Len(t) = Len(todo) - 1 /\ \A i \in 1 .. Len(t) : t[i] = todo[i + 1]
  BY HeadTailProperties, EmptySeq
<1>2. todo = <<h>> \o t
  BY HeadTailProperties, ConcatProperties, <1>1
<1>3. DOMAIN todo = 1 .. Len(todo) /\ DOMAIN t = 1 .. Len(t)
  <2> HIDE DEF t
  <2> QED
    BY <1>1, LenProperties
<1> HIDE DEF h, t
<1>4. Leaves(todo) = Inside(h) \o Leaves(t)
  <2>1. <<h>> \in Seq(Instrs)
    BY <1>1
  <2>2. Leaves(<<h>> \o t) = Leaves(<<h>>) \o Leaves(t)
    BY <1>1, <2>1, LeavesConcat
  <2> QED
    BY <1>1, <1>2, <2>2, LeavesOne
<1>5. \A i \in DOMAIN t : i + 1 \in DOMAIN todo /\ t[i] = todo[i + 1] /\ 1 \in DOMAIN todo /\ i + 1 # 1
  BY <1>1, <1>3
<1>6. Blocks(t) \subseteq Blocks(todo)
  BY <1>5 DEF Blocks
<1>7. h.id # 0 => h.id \in Blocks(todo)
  BY <1>1, <1>3 DEF Blocks
<1>8. ASSUME NoBlockTwice(todo) PROVE NoBlockTwice(t) /\ h.id \notin Blocks(t)
  <2>1. NoBlockTwice(t)
    <3> SUFFICES ASSUME NEW i \in DOMAIN t, NEW j \in DOMAIN t, t[i].id # 0, t[i].id = t[j].id PROVE i = j
      BY DEF NoBlockTwice
    <3>1. i + 1 = j + 1
      BY <1>5, <1>8 DEF NoBlockTwice
    <3> QED
      BY <1>1, <1>3, <3>1
  <2>2. ASSUME NEW i \in DOMAIN t, t[i].id # 0, h.id = t[i].id PROVE FALSE
    <3>1. i + 1 = 1
      BY <1>1, <1>5, <1>8, <2>2 DEF NoBlockTwice
    <3> QED
      BY <1>5, <3>1
  <2> QED
    BY <2>1, <2>2 DEF Blocks
<1> QED
  BY <1>1, <1>4, <1>6, <1>7, <1>8 DEF h, t

(* A run that clashes with no other has what it owes before it; the blocks   *)
(* it has executed, which it disabled, are not among those to come.          *)
RunSound(run) ==
  /\ run.todo \in Seq(Instrs) /\ 0 \notin run.blocks
  /\ ~ run.clash => run.right /\ Leaves(run.todo) = run.owed
  /\ ~ run.own => /\ run.mine \subseteq run.blocks /\ Blocks(run.todo) \subseteq run.blocks
                  /\ NoBlockTwice(run.todo) /\ run.mine \cap Blocks(run.todo) = {}
Alike(run, other) ==
  /\ run.stage = other.stage /\ run.own = other.own
  /\ run.blocks = other.blocks /\ run.clash = other.clash
OverlapsClash ==
  \A r, s \in Running :
    r # s /\ ~ runs[r].own /\ ~ runs[s].own /\ runs[r].blocks \cap runs[s].blocks # {}
      => runs[r].clash /\ runs[s].clash
RunsInv ==
  /\ \A s \in Running : RunSound(runs[s])
  /\ OverlapsClash
  /\ RunsAreWhole
WholeInv == BuilderInv /\ InStep /\ BlocksDiffer /\ RunsInv

LEMMA GateTaken ==
  ASSUME NEW run, DOMAIN run = RunFields, RunSound(run),
         run.todo # << >>, Head(run.todo).id = 0,
         NEW after, after = Simulate([run EXCEPT !.todo = Tail(run.todo)], Head(run.todo))
  PROVE  RunSound(after) /\ Alike(run, after)
<1> DEFINE gate == Head(run.todo)
           rest == Tail(run.todo)
<1>1. /\ gate \in Instrs /\ rest \in Seq(Instrs) /\ Leaves(run.todo) = Inside(gate) \o Leaves(rest)
      /\ Blocks(rest) \subseteq Blocks(run.todo) /\ (NoBlockTwice(run.todo) => NoBlockTwice(rest))
  BY HeadAndTail DEF RunSound
<1>2. Inside(gate) = <<gate>> /\ gate \in PlainGates /\ Leaves(rest) \in Seq(PlainGates)
  BY <1>1, InsideType, LeavesType DEF Instrs
<1> HIDE DEF gate, rest
<1> DEFINE owed == <<gate>> \o Leaves(rest)
<1>3. owed # << >> /\ Head(owed) = gate /\ Tail(owed) = Leaves(rest)
  <2> DEFINE left == Leaves(rest)
  <2> HIDE DEF left
  <2>1. left \in Seq(PlainGates)
    BY <1>2 DEF left
  <2>2. <<gate>> \o left # << >> /\ Head(<<gate>> \o left) = gate /\ Tail(<<gate>> \o left) = left
    BY <1>2, <2>1
  <2> QED
    BY <2>2 DEF left
<1> HIDE DEF owed
<1>4. ~ run.clash => run.right /\ run.owed = owed
  BY <1>1, <1>2 DEF RunSound, owed
<1>5. after = [[run EXCEPT !.todo = rest] EXCEPT
                 !.right = run.right /\ run.owed # << >> /\ Head(run.owed) = gate,
                 !.owed = IF run.owed = << >> THEN run.owed ELSE Tail(run.owed)]
  BY DEF Simulate, RunFields, gate, rest
<1>6. /\ after.todo = rest /\ after.clash = run.clash /\ after.own = run.own /\ after.mine = run.mine
      /\ after.blocks = run.blocks /\ after.stage = run.stage
      /\ after.right = (run.right /\ run.owed # << >> /\ Head(run.owed) = gate)
      /\ after.owed = IF run.owed = << >> THEN run.owed ELSE Tail(run.owed)
  BY <1>5 DEF RunFields
<1>7. Alike(run, after)
  BY <1>6 DEF Alike
<1>8. ~ after.clash => after.right /\ Leaves(after.todo) = after.owed
  <2> SUFFICES ASSUME ~ after.clash PROVE after.right /\ Leaves(after.todo) = after.owed
    OBVIOUS
  <2>1. run.right /\ run.owed = owed
    BY <1>4, <1>6
  <2> QED
    BY <1>3, <1>6, <2>1
<1>9. ~ after.own => /\ after.mine \subseteq after.blocks /\ Blocks(after.todo) \subseteq after.blocks
                     /\ NoBlockTwice(after.todo) /\ after.mine \cap Blocks(after.todo) = {}
  BY <1>1, <1>6 DEF RunSound, rest
<1> QED
  BY <1>1, <1>6, <1>7, <1>8, <1>9 DEF RunSound

LEMMA BlockTaken ==
  ASSUME NEW run, DOMAIN run = RunFields, RunSound(run),
         run.todo # << >>, Head(run.todo).id # 0, Whole(Head(run.todo)),
         NEW after,
         after = Simulate([run EXCEPT !.todo = Tail(run.todo), !.mine = run.mine \cup {Head(run.todo).id}],
                          Head(run.todo).inside[1])
  PROVE  RunSound(after) /\ Alike(run, after)
<1> DEFINE block == Head(run.todo)
           rest == Tail(run.todo)
           gate == block.inside[1]
<1>1. /\ block \in Instrs /\ rest \in Seq(Instrs) /\ Leaves(run.todo) = Inside(block) \o Leaves(rest)
      /\ Blocks(rest) \subseteq Blocks(run.todo) /\ block.id \in Blocks(run.todo)
      /\ (NoBlockTwice(run.todo) => NoBlockTwice(rest) /\ block.id \notin Blocks(rest))
  BY HeadAndTail DEF RunSound
<1>2. /\ Inside(block) = <<gate>> /\ gate \in PlainGates /\ Leaves(rest) \in Seq(PlainGates)
  <2>1. block.inside \in Seq(NumberGates) /\ Inside(block) = block.inside /\ Len(block.inside) = 1
    BY <1>1, InsideType DEF Instrs, Whole
  <2>2. block.inside = <<gate>> /\ gate \in NumberGates
    BY <2>1
  <2> QED
    BY <1>1, <2>1, <2>2, LeavesType DEF NumberGates
<1> HIDE DEF block, rest, gate
<1> DEFINE owed == <<gate>> \o Leaves(rest)
<1>3. owed # << >> /\ Head(owed) = gate /\ Tail(owed) = Leaves(rest)
  <2> DEFINE left == Leaves(rest)
  <2> HIDE DEF left
  <2>1. left \in Seq(PlainGates)
    BY <1>2 DEF left
  <2>2. <<gate>> \o left # << >> /\ Head(<<gate>> \o left) = gate /\ Tail(<<gate>> \o left) = left
    BY <1>2, <2>1
  <2> QED
    BY <2>2 DEF left
<1> HIDE DEF owed
<1>4. ~ run.clash => run.right /\ run.owed = owed
  BY <1>1, <1>2 DEF RunSound, owed
<1>5. after = [[run EXCEPT !.todo = rest, !.mine = run.mine \cup {block.id}] EXCEPT
                 !.right = run.right /\ run.owed # << >> /\ Head(run.owed) = gate,
                 !.owed = IF run.owed = << >> THEN run.owed ELSE Tail(run.owed)]
  BY DEF Simulate, RunFields, gate, block, rest
<1>6. /\ after.todo = rest /\ after.clash = run.clash /\ after.own = run.own
      /\ after.mine = run.mine \cup {block.id}
      /\ after.blocks = run.blocks /\ after.stage = run.stage
      /\ after.right = (run.right /\ run.owed # << >> /\ Head(run.owed) = gate)
      /\ after.owed = IF run.owed = << >> THEN run.owed ELSE Tail(run.owed)
  BY <1>5 DEF RunFields
<1>7. Alike(run, after)
  BY <1>6 DEF Alike
<1>8. ~ after.clash => after.right /\ Leaves(after.todo) = after.owed
  <2> SUFFICES ASSUME ~ after.clash PROVE after.right /\ Leaves(after.todo) = after.owed
    OBVIOUS
  <2>1. run.right /\ run.owed = owed
    BY <1>4, <1>6
  <2> QED
    BY <1>3, <1>6, <2>1
<1>9. ~ after.own => /\ after.mine \subseteq after.blocks /\ Blocks(after.todo) \subseteq after.blocks
                     /\ NoBlockTwice(after.todo) /\ after.mine \cap Blocks(after.todo) = {}
  BY <1>1, <1>6 DEF RunSound, rest, block
<1> QED
  BY <1>1, <1>6, <1>7, <1>8, <1>9 DEF RunSound

LEMMA GatesBefore ==
  ASSUME NEW gs \in Seq(PlainGates), NEW c \in Seq(Instrs)
  PROVE  Blocks(gs \o c) \subseteq Blocks(c) /\ (NoBlockTwice(c) => NoBlockTwice(gs \o c))
<1> DEFINE d == gs \o c
           m == Len(gs)
           n == Len(c)
<1>1. gs \in Seq(Instrs) /\ m \in Nat /\ n \in Nat /\ DOMAIN gs = 1 .. m /\ DOMAIN c = 1 .. n
  BY GatesAreInstrs, LenProperties
<1>2. \A i \in 1 .. m : gs[i].id = 0
  <2>1. \A i \in 1 .. m : gs[i] \in PlainGates
    BY <1>1, ElementOfSeq
  <2> QED
    BY <2>1 DEF PlainGates
<1>3. DOMAIN d = 1 .. m + n /\ \A i \in 1 .. m + n : d[i] = IF i <= m THEN gs[i] ELSE c[i - m]
  <2>1. /\ d \in Seq(Instrs) /\ Len(d) = m + n
        /\ \A i \in 1 .. m + n : d[i] = IF i <= m THEN gs[i] ELSE c[i - m]
    BY <1>1, ConcatProperties
  <2> HIDE DEF d
  <2> QED
    BY <2>1, LenProperties
<1> HIDE DEF d, m, n
<1>4. ASSUME NEW i \in 1 .. m + n, d[i].id # 0 PROVE i - m \in 1 .. n /\ d[i] = c[i - m]
  <2>1. CASE i <= m
    <3>1. i \in 1 .. m /\ d[i] = gs[i]
      BY <1>1, <1>3, <2>1
    <3> QED
      BY <1>2, <1>4, <3>1
  <2>2. CASE ~ (i <= m)
    BY <1>1, <1>3, <2>2
  <2> QED
    BY <2>1, <2>2
<1>5. Blocks(d) \subseteq Blocks(c)
  BY <1>1, <1>3, <1>4 DEF Blocks
<1>6. ASSUME NoBlockTwice(c), NEW i \in 1 .. m + n, NEW j \in 1 .. m + n, d[i].id # 0, d[i].id = d[j].id
      PROVE  i = j
  <2>1. i - m \in 1 .. n /\ j - m \in 1 .. n /\ c[i - m].id # 0 /\ c[i - m].id = c[j - m].id
    BY <1>4, <1>6
  <2>2. i - m = j - m
    BY <1>1, <1>6, <2>1 DEF NoBlockTwice
  <2> QED
    BY <1>1, <2>2
<1> QED
  BY <1>3, <1>5, <1>6 DEF d, NoBlockTwice

LEMMA BlockOpened ==
  ASSUME NEW run, DOMAIN run = RunFields, RunSound(run),
         run.todo # << >>, Head(run.todo).id # 0, NEW off \in BOOLEAN, off => run.clash,
         NEW after,
         after = [run EXCEPT !.todo = (IF off THEN << >> ELSE Head(run.todo).inside) \o Tail(run.todo)]
  PROVE  RunSound(after) /\ Alike(run, after)
<1> DEFINE block == Head(run.todo)
           rest == Tail(run.todo)
           inside == IF off THEN << >> ELSE block.inside
           todo == inside \o rest
<1>1. /\ block \in Instrs /\ rest \in Seq(Instrs) /\ Leaves(run.todo) = Inside(block) \o Leaves(rest)
      /\ Blocks(rest) \subseteq Blocks(run.todo)
      /\ (NoBlockTwice(run.todo) => NoBlockTwice(rest) /\ block.id \notin Blocks(rest))
  BY HeadAndTail DEF RunSound
<1>2. block.inside \in Seq(PlainGates) /\ Inside(block) = block.inside
  BY <1>1, InsideType DEF Instrs
<1> HIDE DEF block, rest
<1>3. inside \in Seq(PlainGates) /\ inside \in Seq(Instrs) /\ Leaves(inside) = inside
  <2>1. inside \in Seq(PlainGates)
    BY <1>2, EmptySeq
  <2> HIDE DEF inside
  <2> QED
    BY <2>1, GatesAreInstrs, LeavesOfGates
<1>4. ~ off => inside = block.inside
  OBVIOUS
<1> HIDE DEF inside
<1>5. todo \in Seq(Instrs) /\ Leaves(todo) = inside \o Leaves(rest)
  BY <1>1, <1>3, ConcatProperties, LeavesConcat
<1>6. Blocks(todo) \subseteq Blocks(rest) /\ (NoBlockTwice(rest) => NoBlockTwice(todo))
  BY <1>1, <1>3, GatesBefore
<1> HIDE DEF todo
<1>7. /\ after.todo = todo /\ after.clash = run.clash /\ after.own = run.own /\ after.mine = run.mine
      /\ after.blocks = run.blocks /\ after.stage = run.stage /\ after.right = run.right
      /\ after.owed = run.owed
  <2>1. after = [run EXCEPT !.todo = todo]
    BY DEF todo, inside, block, rest
  <2> QED
    BY <2>1 DEF RunFields
<1>8. ~ after.clash => after.right /\ Leaves(after.todo) = after.owed
  BY <1>1, <1>2, <1>4, <1>5, <1>7 DEF RunSound
<1>9. ~ after.own => /\ after.mine \subseteq after.blocks /\ Blocks(after.todo) \subseteq after.blocks
                     /\ NoBlockTwice(after.todo) /\ after.mine \cap Blocks(after.todo) = {}
  BY <1>1, <1>6, <1>7 DEF RunSound, block
<1> QED
  BY <1>5, <1>7, <1>8, <1>9 DEF RunSound, Alike

(* A run misses a block only if it clashes: what is disabled was by a run    *)
(* that executed it, and that run is another with the same blocks.           *)
LEMMA OnlyClashesMiss ==
  ASSUME WholeInv, NEW s \in Running, runs[s].todo # << >>, Head(runs[s].todo).id # 0,
         IsOff(s, Head(runs[s].todo))
  PROVE  runs[s].clash
<1> DEFINE id == Head(runs[s].todo).id
<1>1. s \in Sessions /\ RunSound(runs[s]) /\ ~ runs[s].own /\ id \in disabled
  BY DEF WholeInv, RunsInv, IsOff, Running
<1>2. id \in Blocks(runs[s].todo)
  BY <1>1, HeadAndTail DEF RunSound
<1> HIDE DEF id
<1>3. PICK r \in Running : ~ runs[r].own /\ id \in runs[r].mine
  BY <1>1 DEF WholeInv, BuilderInv, OnlyRunsDisable
<1>4. RunSound(runs[r])
  BY DEF WholeInv, RunsInv
<1>5. id \in runs[r].blocks /\ id \in runs[s].blocks
  BY <1>1, <1>2, <1>3, <1>4 DEF RunSound
<1>6. r # s
  BY <1>1, <1>2, <1>3, <1>4 DEF RunSound
<1> QED
  BY <1>1, <1>3, <1>5, <1>6 DEF WholeInv, RunsInv, OverlapsClash

LEMMA GoesOn ==
  ASSUME WholeInv, NEW s \in Running, NEW run, runs' = [runs EXCEPT ![s] = run],
         RunSound(run), Alike(runs[s], run)
  PROVE  RunsInv'
<1>1. DOMAIN runs = Sessions /\ s \in Sessions /\ runs[s].stage = "running"
  BY DEF WholeInv, BuilderInv, OnlyRunsDisable, Running
<1>2. \A r \in Sessions : runs'[r] = IF r = s THEN run ELSE runs[r]
  BY <1>1
<1>3. Running' = Running
  BY <1>1, <1>2 DEF Running, Alike
<1>4. ASSUME NEW r \in Running PROVE RunSound(runs'[r]) /\ Alike(runs[r], runs'[r])
  <2>1. r \in Sessions /\ RunSound(runs[r])
    BY DEF WholeInv, RunsInv, Running
  <2>2. Alike(runs[r], runs[r])
    BY DEF Alike
  <2> QED
    BY <1>2, <2>1, <2>2
<1>5. OverlapsClash'
  BY <1>3, <1>4 DEF WholeInv, RunsInv, OverlapsClash, Alike
<1>6. RunsAreWhole'
  <2>1. run.stage = "running"
    BY <1>1 DEF Alike
  <2> QED
    BY <1>2, <2>1 DEF WholeInv, RunsInv, RunsAreWhole
<1>7. (\A r \in Running : RunSound(runs[r]))'
  BY <1>3, <1>4 DEF RunSound, Leaves, Inside, Blocks, NoBlockTwice
<1> QED
  BY <1>5, <1>6, <1>7 DEF RunsInv

LEMMA GoesAway ==
  ASSUME WholeInv, NEW s \in Running, runs' = [runs EXCEPT ![s] = [stage |-> "idle"]]
  PROVE  RunsInv'
<1>1. DOMAIN runs = Sessions /\ s \in Sessions
  BY DEF WholeInv, BuilderInv, OnlyRunsDisable, Running
<1>2. \A r \in Sessions : runs'[r] = IF r = s THEN [stage |-> "idle"] ELSE runs[r]
  BY <1>1
<1>3. Running' \subseteq Running /\ \A r \in Running' : runs'[r] = runs[r]
  BY <1>1, <1>2 DEF Running
<1>4. OverlapsClash'
  BY <1>3 DEF WholeInv, RunsInv, OverlapsClash
<1>5. RunsAreWhole'
  BY <1>2 DEF WholeInv, RunsInv, RunsAreWhole
<1>6. (\A r \in Running : RunSound(runs[r]))'
  BY <1>3 DEF WholeInv, RunsInv, RunSound, Leaves, Inside, Blocks, NoBlockTwice
<1> QED
  BY <1>4, <1>5, <1>6 DEF RunsInv

LEMMA UnchangedRuns ==
  ASSUME RunsInv, UNCHANGED runs
  PROVE  RunsInv'
<1>1. Running' = Running
  BY DEF Running
<1>2. (\A s \in Running : RunSound(runs[s]))'
  BY <1>1 DEF RunsInv, RunSound, Leaves, Inside, Blocks, NoBlockTwice
<1>3. OverlapsClash' /\ RunsAreWhole'
  BY <1>1 DEF RunsInv, OverlapsClash, RunsAreWhole
<1> QED
  BY <1>2, <1>3 DEF RunsInv

LEMMA StartsSound ==
  ASSUME WholeInv, NEW s \in Sessions, NEW b \in Builders, Start(s, b)
  PROVE  RunsInv'
<1> DEFINE own == variables[b] # << >>
           todo == Bound(b, IF own THEN NotDisabled(circuit_[b]) ELSE circuit_[b])
           clash == Clashes(b) # {}
           run == [stage |-> "running", own |-> own, blocks |-> Blocks(circuit_[b]), mine |-> {},
                   todo |-> todo, owed |-> meant[b], right |-> TRUE, clash |-> clash]
<1>1. /\ circuit_[b] \in Seq(Instrs) /\ Leaves(circuit_[b]) = meant[b] /\ NoBlockTwice(circuit_[b])
      /\ BuilderInv /\ InStep
  BY DEF WholeInv, BuilderInv, CircuitInv, CircuitTypes, NothingLost, BlocksDiffer
<1>2. s \notin Running /\ DOMAIN runs' = Sessions
  BY DEF Start
<1>3. runs'[s] = run
  BY DEF Start
<1>4. \A r \in Sessions \ {s} :
        runs'[r] = IF r \in Clashes(b) /\ ~ own THEN [runs[r] EXCEPT !.clash = TRUE] ELSE runs[r]
  BY DEF Start
<1>5. todo \in Seq(Instrs) /\ ((own /\ clash) \/ todo = circuit_[b])
  <2>1. Bound(b, circuit_[b]) = circuit_[b]
    BY <1>1, BoundToItself
  <2> DEFINE left == NotDisabled(circuit_[b])
             on == {inst \in Range(circuit_[b]) : inst.id \notin disabled}
  <2>2. left \in Seq(Instrs) /\ Range(left) \subseteq Range(circuit_[b])
    <3>1. left = Among(circuit_[b], on)
      BY DEF NotDisabled
    <3> HIDE DEF left, on
    <3> QED
      BY <1>1, <3>1, AmongType, AmongRange
  <2>3. Bound(b, left) = left
    <3> HIDE DEF left
    <3> QED
      BY <1>1, <2>2, BoundToItself
  <2>4. ASSUME ~ clash PROVE left = circuit_[b]
    <3>1. ASSUME NEW inst \in Range(circuit_[b]), inst.id \in disabled PROVE FALSE
      <4>1. PICK r \in Running : ~ runs[r].own /\ inst.id \in runs[r].mine
        BY <1>1, <3>1 DEF BuilderInv, OnlyRunsDisable
      <4>2. inst.id \in runs[r].blocks /\ 0 \notin runs[r].blocks
        BY <4>1 DEF WholeInv, RunsInv, RunSound
      <4>3. inst.id # 0
        BY <4>2
      <4>4. inst.id \in Blocks(circuit_[b])
        BY <3>1, <4>3 DEF Blocks, Range
      <4> QED
        BY <2>4, <4>1, <4>2, <4>4 DEF Clashes
    <3>2. Range(circuit_[b]) \subseteq on
      BY <3>1
    <3>3. left = Among(circuit_[b], on)
      BY DEF NotDisabled
    <3> HIDE DEF left, on
    <3> QED
      BY <1>1, <3>2, <3>3, AmongAll
  <2> HIDE DEF left, clash
  <2> QED
    BY <1>1, <2>1, <2>2, <2>3, <2>4 DEF left
<1> HIDE DEF todo
<1>6. ~ own => todo = circuit_[b]
  BY <1>1, BoundToItself DEF todo
<1>7. ~ clash => todo = circuit_[b]
  BY <1>5
<1>8. RunSound(run)
  <2>1. /\ run.todo = todo /\ run.clash = clash /\ run.own = own /\ run.mine = {} /\ run.right = TRUE
        /\ run.blocks = Blocks(circuit_[b]) /\ run.owed = meant[b]
    OBVIOUS
  <2>2. 0 \notin Blocks(circuit_[b])
    BY DEF Blocks
  <2> HIDE DEF own, clash, run
  <2> QED
    BY <1>1, <1>5, <1>6, <1>7, <2>1, <2>2 DEF RunSound
<1>9. ASSUME NEW r \in Running
      PROVE  /\ RunSound(runs'[r]) /\ r # s /\ r \in Sessions
             /\ runs'[r].own = runs[r].own /\ runs'[r].blocks = runs[r].blocks
             /\ runs'[r].stage = "running"
             /\ runs[r].clash \/ (~ own /\ r \in Clashes(b)) => runs'[r].clash
  <2>1. r \in Sessions /\ r # s /\ DOMAIN runs[r] = RunFields /\ RunSound(runs[r]) /\ runs[r].stage = "running"
    BY <1>1, <1>2 DEF Running, BuilderInv, OnlyRunsDisable, WholeInv, RunsInv
  <2>2. CASE r \in Clashes(b) /\ ~ own
    <3>1. runs'[r] = [runs[r] EXCEPT !.clash = TRUE]
      BY <1>4, <2>1, <2>2
    <3>2. /\ runs'[r].clash /\ runs'[r].own = runs[r].own /\ runs'[r].blocks = runs[r].blocks
          /\ runs'[r].stage = runs[r].stage /\ runs'[r].mine = runs[r].mine /\ runs'[r].todo = runs[r].todo
      BY <2>1, <3>1 DEF RunFields
    <3>3. RunSound(runs'[r])
      BY <2>1, <3>2 DEF RunSound
    <3> QED
      BY <2>1, <3>2, <3>3
  <2>3. CASE ~ (r \in Clashes(b) /\ ~ own)
    <3>1. runs'[r] = runs[r]
      BY <1>4, <2>1, <2>3
    <3> QED
      BY <2>1, <2>3, <3>1
  <2> QED
    BY <2>2, <2>3
<1>10. Running' = Running \cup {s}
  <2>1. ASSUME NEW r \in Sessions, r # s, r \notin Running PROVE runs'[r] = runs[r]
    BY <1>4, <2>1 DEF Clashes
  <2> QED
    BY <1>3, <1>9, <2>1 DEF Running
<1>11. (\A r \in Running : RunSound(runs[r]))'
  <2> HIDE DEF run
  <2>1. \A r \in Running' : RunSound(runs'[r])
    BY <1>3, <1>8, <1>9, <1>10
  <2> QED
    BY <2>1 DEF RunSound, Leaves, Inside, Blocks, NoBlockTwice
<1>12. OverlapsClash'
  <2> SUFFICES ASSUME NEW r \in Running', NEW q \in Running', r # q, ~ runs'[r].own, ~ runs'[q].own,
                      runs'[r].blocks \cap runs'[q].blocks # {}
               PROVE  runs'[r].clash
    BY DEF OverlapsClash
  <2>0. run.own = own /\ run.blocks = Blocks(circuit_[b]) /\ run.clash = clash
    OBVIOUS
  <2> HIDE DEF run
  <2>1. CASE r \in Running /\ q \in Running
    BY <1>9, <2>1 DEF WholeInv, RunsInv, OverlapsClash
  <2>2. CASE r = s /\ q \in Running
    <3>1. q \in Clashes(b)
      BY <1>3, <1>9, <2>0, <2>2 DEF Clashes
    <3> QED
      BY <1>3, <2>0, <2>2, <3>1
  <2>3. CASE r \in Running /\ q = s
    <3>1. r \in Clashes(b) /\ ~ own
      BY <1>3, <1>9, <2>0, <2>3 DEF Clashes
    <3> QED
      BY <1>9, <2>3, <3>1
  <2> QED
    BY <1>10, <2>1, <2>2, <2>3
<1>13. RunsAreWhole'
  <2> SUFFICES ASSUME NEW r \in Sessions PROVE runs'[r].stage # "wrong"
    BY DEF RunsAreWhole
  <2>1. CASE r = s
    BY <1>3, <2>1
  <2>2. CASE r \in Running
    BY <1>9, <2>2
  <2>3. CASE r # s /\ r \notin Running
    <3>1. runs'[r] = runs[r]
      BY <1>4, <2>3 DEF Clashes
    <3> QED
      BY <3>1 DEF WholeInv, RunsInv, RunsAreWhole
  <2> QED
    BY <2>1, <2>2, <2>3
<1> QED
  BY <1>11, <1>12, <1>13 DEF RunsInv

LEMMA RunsKeepWhole ==
  ASSUME WholeInv, NEW s \in Sessions, RunStep(s)
  PROVE  WholeInv'
<1>1. BuilderInv'
  BY RunsKeep DEF WholeInv
<1>2. InStep' /\ BlocksDiffer'
  <2>1. UNCHANGED <<circuit_, variables, free_params_>>
    BY DEF RunStep, Start, ExecuteGate, EnterBlock, ExecuteBlock, Finish, Throw, builder
  <2> QED
    BY <2>1 DEF WholeInv, InStep, BlocksDiffer, NoBlockTwice
<1>3. ASSUME s \in Running PROVE RunSound(runs[s]) /\ DOMAIN runs[s] = RunFields /\ DOMAIN runs = Sessions
  BY <1>3 DEF WholeInv, RunsInv, BuilderInv, OnlyRunsDisable
<1> DEFINE block == Head(runs[s].todo)
<1>4. CASE \E b \in Builders : Start(s, b)
  BY <1>1, <1>2, <1>4, StartsSound DEF WholeInv
<1>5. CASE ExecuteGate(s)
  <2> DEFINE run == Simulate([runs[s] EXCEPT !.todo = Tail(runs[s].todo)], block)
  <2>1. s \in Running /\ runs[s].todo # << >> /\ block.id = 0 /\ runs' = [runs EXCEPT ![s] = run]
    BY <1>5 DEF ExecuteGate, ToExecute
  <2>2. RunSound(run) /\ Alike(runs[s], run)
    BY <1>3, <2>1, GateTaken
  <2> HIDE DEF run
  <2>3. RunsInv'
    BY <2>1, <2>2, GoesOn
  <2> QED
    BY <1>1, <1>2, <2>3 DEF WholeInv
<1>6. CASE ExecuteBlock(s)
  <2> DEFINE run == Simulate([runs[s] EXCEPT !.todo = Tail(runs[s].todo), !.mine = runs[s].mine \cup {block.id}],
                             block.inside[1])
  <2>1. /\ s \in Running /\ runs[s].todo # << >> /\ block.id # 0 /\ Whole(block)
        /\ runs' = [runs EXCEPT ![s] = run]
    BY <1>6 DEF ExecuteBlock, ToExecute
  <2>2. RunSound(run) /\ Alike(runs[s], run)
    BY <1>3, <2>1, BlockTaken
  <2> HIDE DEF run
  <2>3. RunsInv'
    BY <2>1, <2>2, GoesOn
  <2> QED
    BY <1>1, <1>2, <2>3 DEF WholeInv
<1>7. CASE EnterBlock(s)
  <2> DEFINE off == IsOff(s, block)
             run == [runs[s] EXCEPT !.todo = (IF off THEN << >> ELSE block.inside) \o Tail(runs[s].todo)]
  <2>1. s \in Running /\ runs[s].todo # << >> /\ block.id # 0
    BY <1>7 DEF EnterBlock, ToExecute
  <2>2. runs' = [runs EXCEPT ![s] = run]
    <3>1. runs' = [runs EXCEPT ![s].todo = (IF off THEN << >> ELSE block.inside) \o Tail(runs[s].todo)]
      BY <1>7, <2>1, <1>3 DEF EnterBlock
    <3> QED
      BY <3>1
  <2>3. off \in BOOLEAN /\ (off => runs[s].clash)
    BY <2>1, OnlyClashesMiss DEF IsOff
  <2> HIDE DEF off
  <2>4. RunSound(run) /\ Alike(runs[s], run)
    BY <1>3, <2>1, <2>3, BlockOpened
  <2> HIDE DEF run
  <2>5. RunsInv'
    BY <2>1, <2>2, <2>4, GoesOn
  <2> QED
    BY <1>1, <1>2, <2>5 DEF WholeInv
<1>8. CASE Finish(s) \/ Throw(s)
  <2>1. s \in Running
    BY <1>8 DEF Finish, Throw, ToExecute
  <2>2. runs' = [runs EXCEPT ![s] = [stage |-> "idle"]]
    <3>1. CASE Throw(s)
      BY <3>1 DEF Throw
    <3>2. CASE Finish(s)
      <4>1. runs[s].todo = << >> /\ runs' = [runs EXCEPT ![s] = Ended(runs[s])]
        BY <3>2 DEF Finish
      <4>2. runs[s].clash \/ (runs[s].right /\ runs[s].owed = << >>)
        BY <1>3, <2>1, <4>1, LeavesEmpty DEF RunSound
      <4>3. Ended(runs[s]) = [stage |-> "idle"]
        BY <4>2 DEF Ended
      <4> QED
        BY <4>1, <4>3
    <3> QED
      BY <1>8, <3>1, <3>2
  <2>3. RunsInv'
    BY <2>1, <2>2, GoesAway
  <2> QED
    BY <1>1, <1>2, <2>3 DEF WholeInv
<1> QED
  BY <1>4, <1>5, <1>6, <1>7, <1>8 DEF RunStep

LEMMA BuildsKeepWhole ==
  ASSUME OrderlyPrograms, WholeInv, Builds
  PROVE  WholeInv'
<1>1. BuilderInv' /\ InStep' /\ BlocksDiffer'
  BY BuildsKeep, BuildsKeepStep, BuildsKeepBlocks DEF WholeInv
<1>2. UNCHANGED runs
  BY ZenonT(30) DEF Builds, AddGate, AddFree, AddCRX, AddMCX, AddCU, AddBlock, New, AddMeasureAll, CallGate, CallBlock,
         CallAppend, AppendsTo, CallCopy, ReadIrtarget, ReadCompiled, FromComposite, CallAlgorithm
<1>3. RunsInv'
  BY <1>2, UnchangedRuns DEF WholeInv
<1> QED
  BY <1>1, <1>3 DEF WholeInv

(* Whatever the circuits were made of, a run that overlaps no other run of   *)
(* its blocks executes every gate of its circuit once, in order, each with   *)
(* the value of its own name: provided that programs declare their variables *)
(* in the order their gates have them, as session.cpp passes values to those *)
(* by position.                                                              *)
THEOREM RunsExecuteEverything ==
  ASSUME OrderlyPrograms
  PROVE  Spec => []RunsAreWhole
<1>1. Init => WholeInv
  <2> SUFFICES ASSUME Init PROVE WholeInv
    OBVIOUS
  <2>1. Running = {} /\ \A s \in Sessions : runs[s].stage = "idle"
    BY DEF Init, Running
  <2>2. RunsInv
    BY <2>1 DEF RunsInv, OverlapsClash, RunsAreWhole
  <2>3. InStep
    BY DEF Init, InStep
  <2>4. BlocksDiffer
    BY DEF Init, BlocksDiffer, NoBlockTwice
  <2> QED
    BY <2>2, <2>3, <2>4, StartsKept DEF WholeInv
<1>2. WholeInv /\ [Next]_vars => WholeInv'
  <2> SUFFICES ASSUME WholeInv, [Next]_vars PROVE WholeInv'
    OBVIOUS
  <2>1. CASE Builds
    BY <2>1, BuildsKeepWhole
  <2>2. CASE \E s \in Sessions : RunStep(s)
    BY <2>2, RunsKeepWhole
  <2>3. CASE UNCHANGED vars
    <3>1. UNCHANGED <<circuit_, variables, free_params_, runs>>
      BY <2>3 DEF vars, builder
    <3>2. InStep' /\ BlocksDiffer'
      BY <3>1 DEF WholeInv, InStep, BlocksDiffer, NoBlockTwice
    <3>3. RunsInv'
      BY <3>1, UnchangedRuns DEF WholeInv
    <3>4. BuilderInv'
      BY <2>3, StutterKeeps DEF WholeInv
    <3> QED
      BY <3>2, <3>3, <3>4 DEF WholeInv
  <2> QED
    BY <2>1, <2>2, <2>3, NextSteps
<1>3. WholeInv => RunsAreWhole
  BY DEF WholeInv, RunsInv
<1> QED
  BY <1>1, <1>2, <1>3, PTL DEF Spec
=============================================================================
