------------------------------ MODULE Arithmetic ------------------------------
(* The arithmetic circuits of src/src/circuits, as the sequences of gates    *)
(* their expand() appends, and the conditions under which expand() gives up  *)
(* (returns false, appending nothing) before it appends the first gate.      *)
(*                                                                           *)
(* is_LSB = FALSE reverses the registers before and after: the caller of an  *)
(* operator below reverses them (LittleEndian).                              *)
EXTENDS BasisCircuits

(* The registers two-operand circuits refuse: not unique, not disjoint. *)
Overlapping(a, b) == ~ (Distinct(a) /\ Distinct(b) /\ Disjoint(a, b))
LittleEndian(register, isLSB) == IF isLSB THEN register ELSE Reversed(register)

-----------------------------------------------------------------------------
(* Addition. *)

Majority(a, b, c) == CX(c, b) \o CX(c, a) \o CU(X(c), {b, a})
(* Variation: the way down of a majority, its last CX turned round. *)
Unmajority_Turned(a, b, c) == CU(X(c), {b, a}) \o CX(c, a) \o CX(b, a)

Unmajority(a, b, c) == CU(X(c), {b, a}) \o CX(c, a) \o CX(a, b)

(* Carries ripple up through adder, the last one goes to carryOut, and the   *)
(* way down puts the sum into sum and restores adder.                        *)
Ripple(adder, sum, carryIn, noOverflow, carryOut) ==
  LET n == Len(adder)
      carry(i) == IF i = 1 THEN carryIn ELSE adder[i - 1]
  IN Each(1, n, LAMBDA i : Majority(carry(i), sum[i], adder[i]))
       \o (IF noOverflow THEN <<>> ELSE CX(adder[n], carryOut))
       \o EachDown(n, 1, LAMBDA i : Unmajority(carry(i), sum[i], adder[i]))

(* Variation: the carry may be one of the adder's qubits. *)
RippleCarryAdderRefuses_AnyCarry(adder, sum, carryIn, noOverflow) ==
  \/ Len(sum) < Len(adder)
  \/ Overlapping(adder, sum)
  \/ carryIn \in AsSet(sum)
  \/ ~ noOverflow /\ Len(sum) <= Len(adder)

RippleCarryAdderRefuses(adder, sum, carryIn, noOverflow) ==
  \/ Len(sum) < Len(adder)
  \/ Overlapping(adder, sum)
  \/ carryIn \in AsSet(adder) \cup AsSet(sum)
  \/ ~ noOverflow /\ Len(sum) <= Len(adder)

(* With no_overflow the carry is not written; the source nevertheless reads  *)
(* sum[|adder|], past the end when the registers have the same length, and   *)
(* uses it for nothing.                                                      *)
RippleCarryAdder(adder, sum, carryIn, noOverflow) ==
  Ripple(adder, sum, carryIn, noOverflow, IF noOverflow THEN 0 ELSE sum[Len(adder) + 1])

(* With a flag the carry goes to the last qubit of sum instead. *)
ControlledAddition(adder, sum, carryIn, on, off, noOverflow) ==
  IF on \o off = <<>>
  THEN RippleCarryAdder(adder, sum, carryIn, noOverflow)
  ELSE Conditioned(Ripple(adder, sum, carryIn, noOverflow, sum[Len(sum)]), on, off)

-----------------------------------------------------------------------------
(* Subtraction: larger becomes larger - smaller. *)

(* Without an ancilla, qubit by qubit, the borrow is added to what is left   *)
(* of smaller (AddOne) and taken off again on the way back (TakeOne).        *)
AddOne(r) ==
  X(r[1]) \o Each(2, Len(r), LAMBDA j :
                    LET lower == SubSeq(r, 1, j - 1) IN Between(lower, CU(X(r[j]), AsSet(lower))))
TakeOne(r) ==
  X(r[1]) \o Each(2, Len(r), LAMBDA j : CU(X(r[j]), AsSet(SubSeq(r, 1, j - 1))))

Subtraction(larger, smaller, ancilla) ==
  LET n == Len(larger)
      above(i) == SubSeq(smaller, i + 1, n)
      down(i) == CX(smaller[i], larger[i])
                   \o (IF i = n THEN <<>> ELSE CU(AddOne(above(i)), {smaller[i], larger[i]}))
      back(i) == CU(TakeOne(above(i)), {smaller[i], larger[i]})
  IN IF ancilla < 0
     THEN Each(1, n, down) \o EachDown(n - 1, 1, back)
     ELSE Between(larger, RippleCarryAdder(smaller, larger, ancilla, TRUE))

ControlledSubtraction(larger, smaller, ancilla, on, off) ==
  Conditioned(Subtraction(larger, smaller, ancilla), on, off)

SubtractionRefuses(larger, smaller) ==
  Len(larger) # Len(smaller) \/ Overlapping(larger, smaller)

-----------------------------------------------------------------------------
(* Multiplication: result becomes result + a * b, one shifted addition of a  *)
(* for every qubit of b.                                                     *)

Multiplication(a, b, result, ancilla) ==
  Each(1, Len(b), LAMBDA i :
         ControlledAddition(a, SubSeq(result, i, i + Len(a)), ancilla, <<b[i]>>, <<>>, FALSE))

ControlledMultiplication(a, b, result, ancilla, on, off) ==
  Conditioned(Multiplication(a, b, result, ancilla), on, off)

-----------------------------------------------------------------------------
(* Comparison. *)

(* flag is flipped where a > b: the carry of a + not b, then the addition is *)
(* undone by an addition to not a.                                           *)
CompareGT(a, b, flag, ancilla) ==
  Between(b, RippleCarryAdder(b, a \o <<flag>>, ancilla, FALSE)
               \o Between(a, RippleCarryAdder(b, a \o <<flag>>, ancilla, TRUE)))

CompareGTRefuses(a, b, flag, ancilla) ==
  \/ Len(a) # Len(b) \/ Overlapping(a, b)
  \/ {flag, ancilla} \cap (AsSet(a) \cup AsSet(b)) # {}
  \/ flag = ancilla

(* Comparator: best is loaded with the qubits of bestScore (most significant *)
(* first) and compared with trial, most significant first too.  ancilla is   *)
(* three rows: the digits where trial is higher, those where it is lower,    *)
(* and whether the digits above agree.                                       *)
(* The score's digits are read from a bit set of four (sizeof(int)), from    *)
(* its front when the register is longer; what follows is no 1.              *)
ScoreDigits(bestScore, n) ==
  LET width == IF n < 4 THEN n ELSE 4
  IN [i \in 1 .. n |-> IF i <= width THEN (bestScore \div 2 ^ (width - i)) % 2 ELSE 0]

LoadScore(best, bestScore) ==
  LET n == Len(best)
  IN Each(1, n, LAMBDA i : IF ScoreDigits(bestScore, n)[i] = 1 THEN X(best[i]) ELSE <<>>)

(* Variation: only the digits where trial is higher are carried upwards. *)
ComparatorCore_HighOnly(trial, best, ancilla) ==
  LET n == Len(trial)
      high == SubSeq(ancilla, 1, n)
      low == SubSeq(ancilla, n + 1, 2 * n)
      same == SubSeq(ancilla, 2 * n + 1, 3 * n - 1)
      digit(row) == Each(1, n, LAMBDA i : CU(X(row[i]), {trial[i], best[i]}))
      agree == Each(1, n - 1, LAMBDA i : CU(X(same[i]), {high[i]}))
      carry(i) == CU(X(high[i]), {high[i + 1], same[i]})
  IN Between(best, digit(high)) \o Between(trial, digit(low))
       \o Between(high, agree) \o EachDown(n - 1, 1, carry)

ComparatorCore(trial, best, ancilla) ==
  LET n == Len(trial)
      high == SubSeq(ancilla, 1, n)
      low == SubSeq(ancilla, n + 1, 2 * n)
      same == SubSeq(ancilla, 2 * n + 1, 3 * n - 1)
      digit(row) == Each(1, n, LAMBDA i : CU(X(row[i]), {trial[i], best[i]}))
      agree == Each(1, n - 1, LAMBDA i : CU(X(same[i]), {high[i], low[i]}))
      carry(i) == CU(X(high[i]), {high[i + 1], same[i]}) \o CU(X(low[i]), {low[i + 1], same[i]})
  IN Between(best, digit(high)) \o Between(trial, digit(low))
       \o Between(high \o low, agree) \o EachDown(n - 1, 1, carry)

(* As an oracle it flips the sign where trial > bestScore and undoes all the *)
(* rest; otherwise it leaves the answer in ancilla[1], which is the flag.    *)
Comparator(trial, best, ancilla, flag, bestScore, on, off, asOracle) ==
  LET load == LoadScore(best, bestScore)
      core == ComparatorCore(trial, best, ancilla)
      mark == CU(X(flag), {ancilla[1]} \cup AsSet(on) \cup AsSet(off))
      \* the way back restates the blocks of the core, each in its own order
      back == InverseCircuit(core)
  IN IF asOracle
     THEN load \o X(flag) \o H(flag) \o core \o load \o mark \o load \o back \o load
            \o H(flag) \o X(flag) \o load
     ELSE load \o core \o load \o load
-----------------------------------------------------------------------------
(* Division: fraction becomes the binary digits of numerator / denominator,  *)
(* a proper fraction, and the rest comes back as it was.                     *)

(* The registers are lengthened by ancillas, so that they can be shifted.    *)
Lengthened(register, ancilla, first, precision) ==
  register \o SubSeq(ancilla, first, first + precision - 1)

(* Under control c the register is rotated by i places, up or down, one swap *)
(* of neighbours at a time.                                                  *)
SwapAt(r, j, c) == ControlledSwap(<<r[j]>>, <<r[j + 1]>>, <<c>>, <<>>)
RotateUp(r, i, c) == Each(1, i, LAMBDA k : EachDown(Len(r) - 1, 1, LAMBDA j : SwapAt(r, j, c)))
RotateDown(r, i, c) == Each(1, i, LAMBDA k : Each(1, Len(r) - 1, LAMBDA j : SwapAt(r, j, c)))

(* Digit i is set unless the denominator is greater than the numerator read  *)
(* i places higher; where it is set the numerator is shifted and diminished  *)
(* and the denominator shifted.  Then all of that is taken back.             *)
Division(numerator, denominator, fraction, ancilla, isLSB) ==
  LET p == Len(fraction)
      num == Lengthened(numerator, ancilla, 1, p)
      den == Lengthened(denominator, ancilla, p + 1, p)
      n == Len(num)
      spare == ancilla[2 * p + 1]
      digit(i) == fraction[IF isLSB THEN p - i + 1 ELSE i]
      shifted(i) == SubSeq(num, n - i + 1, n) \o SubSeq(num, 1, n - i)
      subtract(i) == ControlledSubtraction(num, den, spare, <<digit(i)>>, <<>>)
      divide(i) == X(digit(i)) \o CompareGT(den, shifted(i), digit(i), spare)
                     \o RotateUp(num, i, digit(i)) \o subtract(i) \o RotateUp(den, i, digit(i))
      undo(i) == RotateDown(den, i, digit(i)) \o InverseCircuit(subtract(i))
                   \o RotateDown(num, i, digit(i))
  IN Each(1, p, divide) \o EachDown(p, 1, undo)

ProperFractionDivision(numerator, denominator, fraction, ancilla, isLSB) ==
  Division(LittleEndian(numerator, isLSB), LittleEndian(denominator, isLSB), fraction, ancilla, isLSB)

ControlledProperFractionDivision(numerator, denominator, fraction, ancilla, on, off, isLSB) ==
  Conditioned(ProperFractionDivision(numerator, denominator, fraction, ancilla, isLSB), on, off)
=============================================================================
