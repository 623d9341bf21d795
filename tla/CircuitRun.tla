------------------------------ MODULE CircuitRun ------------------------------
(* A caller names one of the blocks registered by src/src/circuits and the   *)
(* registers it is to work on; what the block's expand() appended is then    *)
(* run gate by gate on a basis state, as the simulator does.                 *)
EXTENDS BeamCircuits

CONSTANTS CallList,     \* the calls: block, registers, options
          Score,        \* the score of every state EfficientEncoding encodes
          Metric        \* in every iteration, the metric of every letter

VARIABLES call,     \* the number of the call made
          input,    \* the qubits that are 1 before the circuit
          pc,       \* the gates applied so far, or Before, or Over
          state,    \* the branch of the state that is followed
          choices   \* what its H gates, and the markers, came out as
Before == -1    \* expand() has not been called
Over == -2      \* every gate of the circuit has been applied
vars == <<call, input, pc, state, choices>>

-----------------------------------------------------------------------------
(* The blocks, by the name they are registered under; k is the call.         *)

ArithmeticOf(k) ==
  CASE k.block = "RippleCarryAdder" -> RippleCarryAdder(k.adder, k.sum, k.ancilla, k.noOverflow)
    [] k.block = "ControlledAddition" ->
         ControlledAddition(k.adder, k.sum, k.ancilla, k.on, k.off, k.noOverflow)
    [] k.block = "Subtraction" -> Subtraction(k.larger, k.smaller, k.ancilla)
    [] k.block = "ControlledSubtraction" ->
         ControlledSubtraction(k.larger, k.smaller, k.ancilla, k.on, k.off)
    [] k.block = "Multiplication" -> Multiplication(k.a, k.b, k.result, k.ancilla)
    [] k.block = "ControlledMultiplication" ->
         ControlledMultiplication(k.a, k.b, k.result, k.ancilla, k.on, k.off)
    [] k.block = "CompareGT" -> CompareGT(k.a, k.b, k.flag, k.ancilla)
    [] k.block = "Comparator" ->
         Comparator(k.trial, k.best, k.ancilla, k.flag, k.bestScore, k.on, k.off, k.asOracle)
    [] k.block = "ControlledProperFractionDivision" ->
         ControlledProperFractionDivision(k.numerator, k.denominator, k.fraction, k.ancilla, k.on, k.off, k.isLSB)
    [] k.block = "AEtoMetric" -> AEtoMetric(k.evaluation, k.precision, k.metric, k.ancilla, k.onesIndex)

CircuitOf(k) ==
  CASE k.block = "ControlledSwap" -> ControlledSwap(k.a, k.b, k.on, k.off)
    [] k.block = "MultiControlledUWithAncilla" ->
         MultiControlledUWithAncilla(k.controls, k.ancilla, Xs(k.targets))
    [] k.block = "EqualityChecker" -> EqualityChecker(k.a, k.b, k.flag, k.on, k.off, k.ancilla)
    [] k.block = "InitRepeatFlag" -> InitRepeatFlag(k.iteration, k.string, k.letter, k.repeats)
    [] k.block = "EfficientEncoding" ->
         EfficientEncoding(Score, k.state, k.scoring, k.flags, k.flagInteger, k.isLSB,
                           IF k.useAncilla THEN DefaultAncilla(k.state, k.scoring, <<>>) ELSE <<>>)
    [] k.block = "QPrime" -> QPrime(k.iteration, k.string, k.metric, k.letter, k.nextMetric)
    [] k.block = "UPrime" -> UPrime(k.iteration, k.string, k.metric, k.letter, k.nextMetric)
    [] k.block = "UQPrime" -> UQPrime(k.metric, k.string, k.nextMetric, k.letter)
    [] k.block = "CompareBeamOracle" -> CompareBeamOracle(k.q[1], k.q[2], k.q[3], k.FA, k.FB, k.SA, k.SB, k.simplified)
    [] k.block = "SuperpositionAdder" -> SuperpositionAdder(k.q[1], k.q[2], k.q[3], k.flags, k.string, k.ancilla)
    [] k.block = "BeamStatePrep" -> BeamStatePrep(Metric, k.registers)
    [] OTHER -> ArithmeticOf(k)

(* expand() returns false and appends nothing. *)
Refused(k) ==
  \/ k.block = "RippleCarryAdder" /\ RippleCarryAdderRefuses(k.adder, k.sum, k.ancilla, k.noOverflow)
  \/ k.block \in {"Subtraction", "ControlledSubtraction"} /\ SubtractionRefuses(k.larger, k.smaller)
  \/ k.block = "CompareGT" /\ CompareGTRefuses(k.a, k.b, k.flag, k.ancilla)

(* The circuit each call leaves: nothing where expand() gives up. *)
Expanded(k) == IF Refused(k) THEN <<>> ELSE CircuitOf(k)
ForEach(calls, Op(_)) == [i \in DOMAIN calls |-> Op(calls[i])]
Circuit == ForEach(CallList, Expanded)

-----------------------------------------------------------------------------
(* The beam the letters of a string make: nulls and repeats of the letter    *)
(* just before left out, the rest in order from the front, nulls behind.     *)
Kept(letters, i) == letters[i] # 0 /\ (i = 1 \/ letters[i] # letters[i - 1])
BeamOf(letters) ==
  LET rank(i) == Cardinality({j \in 1 .. i : Kept(letters, j)})
  IN [p \in DOMAIN letters |->
        IF \E i \in DOMAIN letters : Kept(letters, i) /\ rank(i) = p
        THEN letters[CHOOSE i \in DOMAIN letters : Kept(letters, i) /\ rank(i) = p] ELSE 0]

(* The qubits that are 1 when string and flags hold the beam of these        *)
(* digits: a flag stands for every letter that was left out, from the last.  *)
BeamState(k, digits) ==
  LET L == Len(k.flags)
      n == Len(k.string) \div L
      letters == [j \in 1 .. L |-> Value(Part(digits, j - 1, n), TRUE)]
      beam == BeamOf(letters)
      kept == Cardinality({j \in 1 .. L : Kept(letters, j)})
      bits(p) == {b \in 1 .. n : (beam[p] \div 2 ^ (b - 1)) % 2 = 1}
  IN {k.string[(x[1] - 1) * n + x[2]] : x \in {y \in (1 .. L) \X (1 .. n) : y[2] \in bits(y[1])}}
       \cup {k.flags[j] : j \in kept + 1 .. L}

(* The basis states a call's circuit is meant for: any value of the          *)
(* registers k.free, the other qubits 0; a denominator above the numerator.  *)
Meant(k, ones) ==
  /\ k.block = "ControlledProperFractionDivision" =>
       Number(LittleEndian(k.numerator, k.isLSB), ones) < Number(LittleEndian(k.denominator, k.isLSB), ones)
  /\ k.block = "SuperpositionAdder" =>
       \E d \in [1 .. Len(k.string) -> {0, 1}] :
         ones = BeamState(k, d)

Init ==
  /\ call \in DOMAIN CallList
  /\ input \in {ones \in SUBSET AsSet(CallList[call].free) : Meant(CallList[call], ones)}
  /\ pc = Before
  /\ state = Basis(input)
  /\ choices = <<>>

(* expand() is called; whether it refused or not, its circuit is added. *)
Expand ==
  /\ pc = Before
  /\ pc' = 0
  /\ UNCHANGED <<call, input, state, choices>>

(* The gate to be applied next, if there is one left. *)
Pending(circuit) == {circuit[i] : i \in DOMAIN circuit \cap {pc + 1}}

(* The simulator applies one gate.  The branches an H leaves are told apart  *)
(* by its outcome.                                                           *)
Apply(g) ==
  /\ g.name # "Mean"
  /\ state' \in Outcomes(g, state)
  /\ choices' = IF g.name = "H" /\ g.target \notin state.ones \cup state.dual
                THEN Append(choices, Bit(g.target, state'.ones)) ELSE choices
  /\ pc' = pc + 1
  /\ UNCHANGED <<call, input>>

(* MeanValueFinder does its work where its flag is set. *)
ApplyMean(g) ==
  /\ g.name = "Mean"
  /\ choices' = Append(choices, Bit(g.target, state.ones))
  /\ pc' = pc + 1
  /\ UNCHANGED <<call, input, state>>

Step == pc >= 0 /\ \E g \in Pending(Circuit[call]) : Apply(g) \/ ApplyMean(g)

(* No gate is left. *)
Finish ==
  /\ pc = Len(Circuit[call])
  /\ pc' = Over
  /\ UNCHANGED <<call, input, state, choices>>

Finished == pc = Over
Done == Finished /\ UNCHANGED vars

Next == Expand \/ Step \/ Finish \/ Done
Spec == Init /\ [][Next]_vars
=============================================================================
