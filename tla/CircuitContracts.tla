--------------------------- MODULE CircuitContracts ---------------------------
(* What the blocks promise, said of the numbers their registers hold: the    *)
(* state after the circuit is the input with numbers written into some       *)
(* registers, every other qubit (the ancillas above all) as it was.          *)
EXTENDS CircuitRun

Halves(n, length) ==   \* n, halved i times
  LET half[i \in 0 .. length] == IF i = 0 THEN n ELSE half[i - 1] \div 2 IN half
WithNumber(ones, register, n) ==
  LET half == Halves(n, Len(register))
  IN (ones \ AsSet(register)) \cup
       {register[i] : i \in {j \in DOMAIN register : half[j - 1] % 2 = 1}}
Flip(ones, q, b) == IF b THEN Toggle(ones, q) ELSE ones
Holds(ones, on, off) == AsSet(on) \subseteq ones /\ AsSet(off) \cap ones = {}
Optional(k, field) == IF field \in DOMAIN k THEN k[field] ELSE <<>>

(* The input with what the block computes written into it; v is the number a *)
(* register holds in the input.                                              *)
ArithmeticResult(k, in) ==
  LET v(register) == Number(register, in)
      low(register, n) == SubSeq(register, 1, n)
      carry == IF k.noOverflow THEN 0 ELSE 1
  IN CASE k.block \in {"RippleCarryAdder", "ControlledAddition"} ->
            WithNumber(in, low(k.sum, Len(k.adder) + carry), v(k.adder) + v(k.sum) + Bit(k.ancilla, in))
       [] k.block \in {"Subtraction", "ControlledSubtraction"} ->
            WithNumber(in, k.larger, v(k.larger) - v(k.smaller))
       [] k.block \in {"Multiplication", "ControlledMultiplication"} -> WithNumber(in, k.result, v(k.a) * v(k.b))
       [] k.block = "CompareGT" -> Flip(in, k.flag, v(k.a) > v(k.b))
       [] k.block = "ControlledProperFractionDivision" ->
            LET number(r) == v(LittleEndian(r, k.isLSB))
            IN WithNumber(in, LittleEndian(k.fraction, k.isLSB),
                          (number(k.numerator) * 2 ^ Len(k.fraction)) \div number(k.denominator))
       [] k.block = "AEtoMetric" ->
            LET square(i) == LET a == v(SubSeq(k.evaluation, Sum(k.precision, i - 1) + 1, Sum(k.precision, i)))
                                 place == i - 1 - 2 * k.precision[i] + k.onesIndex
                             IN IF place < 0 THEN (a * a) \div 2 ^ (-place) ELSE a * a * 2 ^ place
            IN WithNumber(in, k.metric, v(k.metric) + Sum([i \in DOMAIN k.precision |-> square(i)], Len(k.precision)))

DecoderResult(k, in) ==
  LET v(register) == Number(register, in)
      part(r, n) == Part(r, k.iteration, n)
  IN CASE k.block = "InitRepeatFlag" ->
            Flip(in, k.repeats[k.iteration + 1],
                 v(k.letter) = v(Part(k.string, k.iteration - 1, Len(k.letter))))
       [] k.block = "EfficientEncoding" ->
            LET s == v(LittleEndian(k.state, k.isLSB))
                flagged == IF s = k.flagInteger THEN 2 ^ Len(k.flags) - 1 ELSE 0
            IN WithNumber(WithNumber(in, k.scoring, Score[s]), k.flags, flagged)
       [] k.block = "QPrime" ->
            WithNumber(WithNumber(in, k.letter, v(part(k.string, Len(k.letter)))),
                       k.nextMetric, v(part(k.metric, Len(k.nextMetric))))
       [] k.block = "UPrime" ->
            WithNumber(WithNumber(in, part(k.string, Len(k.letter)), v(k.letter)),
                       part(k.metric, Len(k.nextMetric)), v(k.nextMetric))
       [] k.block = "UQPrime" ->
            WithNumber(WithNumber(WithNumber(WithNumber(in, k.string, v(k.letter)), k.letter, 0),
                                  k.metric, v(k.nextMetric)), k.nextMetric, 0)
       [] k.block = "CompareBeamOracle" ->
            LET n == Len(k.SA) \div Len(k.FA)
                agree == v(k.FA) = v(k.FB)
                same(i) == IF k.simplified THEN AsSet(Part(k.SA, i - 1, n)) \subseteq in
                           ELSE v(Part(k.SA, i - 1, n)) = v(Part(k.SB, i - 1, n))
                letters == \A i \in DOMAIN k.FA : k.FA[i] \in in \/ same(i)
                \* where the flags do not agree, what q2 says is of no use
                marked == \A i \in DOMAIN k.FA : k.FB[i] \in in <=> (k.FA[i] \in in \/ ~ same(i))
            IN Flip(Flip(Flip(in, k.q[1], agree /\ letters), k.q[2], agree), k.q[3], marked)
       [] k.block = "SuperpositionAdder" -> in

BlockResult(k, in) ==
  LET v(register) == Number(register, in)
  IN CASE k.block = "ControlledSwap" -> WithNumber(WithNumber(in, k.a, v(k.b)), k.b, v(k.a))
       [] k.block = "EqualityChecker" -> Flip(in, k.flag, v(k.a) = v(k.b))
       [] k.block = "MultiControlledUWithAncilla" ->
            IF Holds(in, k.controls, <<>>) THEN WithNumber(in, k.targets, 2 ^ Len(k.targets) - 1 - v(k.targets)) ELSE in
       [] k.block \in {"InitRepeatFlag", "EfficientEncoding", "QPrime", "UPrime", "UQPrime",
                       "CompareBeamOracle", "SuperpositionAdder"} -> DecoderResult(k, in)
       [] OTHER -> ArithmeticResult(k, in)

Made == CallList[call]
Promised == IF Holds(input, Optional(Made, "on"), Optional(Made, "off")) THEN BlockResult(Made, input) ELSE input

-----------------------------------------------------------------------------
(* Whatever registers a caller passes, a block that does not refuse them     *)
(* appends no gate that is controlled by its own target, or by a qubit that  *)
(* is not in a definite state (ripple_adder.cpp, compare_gt.cpp).            *)
GatesAreLegal == pc >= 0 => \A g \in Pending(Circuit[call]) : WellFormed(g, state)

(* By legal gates, every circuit leaves in its registers the numbers the block  *)
(* is named for, whatever they held before, and every ancilla and every      *)
(* other qubit as it found them, in the branch's own sign (ripple_adder.cpp, *)
(* subtraction.cpp, proper_fraction_division.cpp and the rest of             *)
(* src/src/circuits).                                                        *)
Computes ==
  /\ GatesAreLegal
  /\ Finished /\ ~ Refused(Made) /\ Made.block \notin {"Comparator", "BeamStatePrep"}
       => state = Basis(Promised)

(* The comparator flips the sign of exactly the branches whose trial score   *)
(* is above the best score (or, not as an oracle, sets its first ancilla in  *)
(* them), gives flag, trial and ancillas back, and leaves the best score in  *)
(* its register, where a second use would load it out (comparator.cpp).      *)
ComparatorMarks ==
  Finished /\ Made.block = "Comparator" =>
    LET loaded == WithNumber(input, Reversed(Made.best), Made.bestScore)
        better == Number(Reversed(Made.trial), input) > Made.bestScore
        used == AsSet(Made.ancilla)
    IN IF Made.asOracle
       THEN state = [Basis(loaded) EXCEPT !.sign = IF better /\ Holds(input, Made.on, Made.off) THEN -1 ELSE 1]
       ELSE /\ state.ones \ used = loaded
            /\ (Made.ancilla[1] \in state.ones) = better

(* The letters the iterations chose stand in the string as the beam they     *)
(* make: nulls and repeats of the letter just before left out, the rest in   *)
(* order from the front, nulls behind; and every qubit used to choose them   *)
(* is 0 again, so that the next iteration starts afresh                      *)
(* (qd_beam_state_prep.cpp; QDBeamStatePrepCircuitTester.cpp, "Beam a-,      *)
(* three components ... from strings aa, a-, -a").                           *)
BeamsAreContracted ==
  Finished /\ Made.block = "BeamStatePrep" =>
    LET r == Made.registers
        n == Len(r.nextLetter)
        L == Len(r.string) \div n
        digits(it) == SubSeq(choices, (it - 1) * n + 1, it * n)
        letters == [it \in 1 .. L |-> Value(digits(it), TRUE)]
        held(p) == Slot(r, p - 1)
    IN /\ state.ones \subseteq AsSet(r.string \o r.metrics \o r.iterations \o r.nulls)
       /\ [p \in 1 .. L |-> Number(held(p).letter, state.ones)] = BeamOf(letters)
       /\ \A it \in 1 .. L : \E p \in 1 .. L :
            /\ Number(held(p).iteration, state.ones) = it
            /\ Number(held(p).metric, state.ones) = Metric[it][letters[it]]
            /\ (held(p).null \in state.ones) = (letters[it] = 0)

(* SuperpositionAdder visits every string there is, and MeanValueFinder does *)
(* its work at exactly those that contract to the beam's own.                *)
MeansAreOfTheBeam ==
  Finished /\ Made.block = "SuperpositionAdder" =>
    choices = [i \in 1 .. 2 ^ Len(Made.string) |->
                 IF input = BeamState(Made, GrayState(i - 1, Len(Made.string))) THEN 1 ELSE 0]
=============================================================================
