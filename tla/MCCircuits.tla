------------------------------ MODULE MCCircuits ------------------------------
EXTENDS CircuitContracts

R(a, b) == [i \in 1 .. b - a + 1 |-> a + i - 1]

MCScore == [s \in 0 .. 7 |-> (3 * s + 1) % 4]
MCMetric == [iteration \in 1 .. 2 |-> [letter \in 0 .. 3 |-> IF letter = 0 THEN 0 ELSE (iteration + letter) % 2]]

(* Registers of two and three qubits, with and without controls. *)
MCArithmeticCalls == <<
  [block |-> "RippleCarryAdder", adder |-> R(0, 1), sum |-> R(2, 4), ancilla |-> 5, noOverflow |-> FALSE, free |-> R(0, 5)],
  [block |-> "RippleCarryAdder", adder |-> R(0, 2), sum |-> R(3, 5), ancilla |-> 6, noOverflow |-> TRUE, free |-> R(0, 6)],
  [block |-> "ControlledAddition", adder |-> R(0, 1), sum |-> R(2, 4), ancilla |-> 5, noOverflow |-> FALSE,
   on |-> <<6>>, off |-> <<7>>, free |-> R(0, 7)],
  [block |-> "Subtraction", larger |-> R(0, 2), smaller |-> R(3, 5), ancilla |-> -1, free |-> R(0, 5)],
  [block |-> "Subtraction", larger |-> R(0, 2), smaller |-> R(3, 5), ancilla |-> 6, free |-> R(0, 5)],
  [block |-> "ControlledSubtraction", larger |-> R(0, 1), smaller |-> R(2, 3), ancilla |-> -1,
   on |-> <<4>>, off |-> <<5>>, free |-> R(0, 5)],
  [block |-> "Multiplication", a |-> R(0, 1), b |-> R(2, 3), result |-> R(4, 7), ancilla |-> 8, free |-> R(0, 3)],
  [block |-> "ControlledMultiplication", a |-> R(0, 2), b |-> R(3, 5), result |-> R(6, 11), ancilla |-> 12,
   on |-> <<13>>, off |-> <<>>, free |-> R(0, 5) \o <<13>>],
  [block |-> "CompareGT", a |-> R(0, 2), b |-> R(3, 5), flag |-> 6, ancilla |-> 7, free |-> R(0, 6)],
  [block |-> "Comparator", trial |-> R(0, 2), best |-> R(3, 5), ancilla |-> R(6, 13), flag |-> 14, bestScore |-> 5,
   on |-> <<15>>, off |-> <<>>, asOracle |-> TRUE, free |-> R(0, 2) \o <<15>>],
  [block |-> "Comparator", trial |-> R(0, 1), best |-> R(2, 3), ancilla |-> R(4, 8), flag |-> 9, bestScore |-> 1,
   on |-> <<>>, off |-> <<>>, asOracle |-> FALSE, free |-> R(0, 1)],
  [block |-> "ControlledProperFractionDivision", numerator |-> R(0, 1), denominator |-> R(2, 3), fraction |-> R(4, 6),
   ancilla |-> R(7, 13), isLSB |-> TRUE, on |-> <<>>, off |-> <<>>, free |-> R(0, 3)],
  [block |-> "ControlledProperFractionDivision", numerator |-> R(0, 1), denominator |-> R(2, 3), fraction |-> R(4, 5),
   ancilla |-> R(6, 10), isLSB |-> FALSE, on |-> <<11>>, off |-> <<12>>, free |-> R(0, 3) \o <<11, 12>>],
  [block |-> "AEtoMetric", evaluation |-> R(0, 2), precision |-> <<1, 2>>, metric |-> R(3, 7),
   ancilla |-> R(8, 19), onesIndex |-> 3, free |-> R(0, 7)]
>>

MCBlockCalls == <<
  [block |-> "ControlledSwap", a |-> R(0, 1), b |-> R(2, 3), on |-> <<4>>, off |-> <<5>>, free |-> R(0, 5)],
  [block |-> "MultiControlledUWithAncilla", controls |-> R(0, 3), ancilla |-> R(4, 6), targets |-> R(7, 8),
   free |-> R(0, 3) \o R(7, 8)],
  [block |-> "EqualityChecker", a |-> R(0, 1), b |-> R(2, 3), flag |-> 4, on |-> <<5>>, off |-> <<6>>,
   ancilla |-> <<>>, free |-> R(0, 6)],
  [block |-> "EqualityChecker", a |-> R(0, 2), b |-> R(3, 5), flag |-> 6, on |-> <<>>, off |-> <<>>,
   ancilla |-> R(7, 8), free |-> R(0, 6)],
  [block |-> "InitRepeatFlag", iteration |-> 1, string |-> R(0, 3), letter |-> R(4, 5), repeats |-> R(6, 7), free |-> R(0, 7)],
  [block |-> "EfficientEncoding", state |-> R(0, 2), scoring |-> R(3, 4), flags |-> R(5, 6), flagInteger |-> 6,
   isLSB |-> FALSE, useAncilla |-> FALSE, free |-> R(0, 2)],
  [block |-> "EfficientEncoding", state |-> R(0, 2), scoring |-> R(3, 4), flags |-> R(7, 7), flagInteger |-> 0,
   isLSB |-> TRUE, useAncilla |-> TRUE, free |-> R(0, 2)],
  [block |-> "QPrime", iteration |-> 1, string |-> R(0, 3), metric |-> R(4, 5), letter |-> R(6, 7), nextMetric |-> R(8, 8),
   free |-> R(0, 5)],
  [block |-> "UPrime", iteration |-> 1, string |-> R(0, 3), metric |-> R(4, 5), letter |-> R(6, 7), nextMetric |-> R(8, 8),
   free |-> R(6, 8)],
  [block |-> "UQPrime", string |-> R(0, 1), metric |-> R(2, 3), letter |-> R(4, 5), nextMetric |-> R(6, 7), free |-> R(4, 7)]
>>

MCDecoderCalls == <<
  [block |-> "CompareBeamOracle", q |-> R(0, 2), FA |-> R(3, 4), FB |-> R(5, 6), SA |-> R(7, 8), SB |-> R(9, 10),
   simplified |-> FALSE, free |-> R(3, 10)],
  [block |-> "CompareBeamOracle", q |-> R(0, 2), FA |-> R(3, 4), FB |-> R(5, 6), SA |-> R(7, 10), SB |-> <<>>,
   simplified |-> TRUE, free |-> R(3, 10)],
  [block |-> "SuperpositionAdder", q |-> R(0, 2), flags |-> R(3, 4), string |-> R(5, 8), ancilla |-> R(9, 14), free |-> R(3, 8)],
  [block |-> "SuperpositionAdder", q |-> R(0, 2), flags |-> R(3, 5), string |-> R(6, 8), ancilla |-> R(9, 14), free |-> R(3, 8)],
  [block |-> "BeamStatePrep", free |-> <<>>,
   registers |-> [string |-> R(0, 3), metrics |-> R(4, 5), iterations |-> R(6, 9), occupied |-> R(10, 11), nulls |-> R(12, 13),
                  isNull |-> 14, isUsed |-> 15, isRepetition |-> 16, current |-> R(17, 18), nextLetter |-> R(19, 20),
                  nextMetric |-> R(21, 21), ancilla |-> R(22, 25)]]
>>

(* Every way to place the registers of one-bit additions and comparisons on  *)
(* four qubits, the first of them the adder, the overlapping ones too.       *)
MCPlacedCalls ==
  LET place(i, d) == (i \div 4 ^ d) % 4
  IN [i \in 1 .. 128 |->
        [block |-> "RippleCarryAdder", adder |-> <<0>>, sum |-> <<place(i, 0), place(i, 1)>>,
         ancilla |-> place(i, 2), noOverflow |-> i <= 64, free |-> R(0, 3)]]
     \o [i \in 1 .. 64 |->
        [block |-> "CompareGT", a |-> <<0>>, b |-> <<place(i, 0)>>, flag |-> place(i, 1),
         ancilla |-> place(i, 2), free |-> <<0, place(i, 0), place(i, 1)>>]]

MCCalls == MCArithmeticCalls \o MCBlockCalls \o MCDecoderCalls \o MCPlacedCalls
=============================================================================
