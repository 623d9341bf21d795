----------------------------- MODULE BeamCircuits -----------------------------
(* The circuits of the quantum decoder in src/src/circuits that compute on   *)
(* basis states: encoding of scores, the kernel that chooses letters, the    *)
(* comparison of beams, the preparation of the beams and the addition of     *)
(* their metrics, as the sequences of gates their expand() appends.          *)
(*                                                                           *)
(* A string is L letters, each a few qubits; letter 0 is the null.  Letter   *)
(* pos of register r is Part(r, pos, n), pos counted from 0 as in the code.  *)
EXTENDS Arithmetic

Part(r, pos, n) == SubSeq(r, pos * n + 1, (pos + 1) * n)

-----------------------------------------------------------------------------
(* EfficientEncoding: the states are visited in the order of the Gray code,  *)
(* each turned into the state of all ones in its turn, which writes its      *)
(* score, and its flags where it is the state to be flagged.                 *)

(* Digit j of the i-th code word, the most significant digit of i first. *)
GrayDigit(i, j, n) ==
  LET digit(k) == IF k = 0 THEN 0 ELSE (i \div 2 ^ (n - k)) % 2
  IN (digit(j - 1) + digit(j)) % 2
GrayState(i, n) == [j \in 1 .. n |-> 1 - GrayDigit(i, j, n)]
Value(digits, isLSB) ==
  FoldLeft(LAMBDA v, d : 2 * v + d, 0, IF isLSB THEN Reverse(digits) ELSE digits)

(* The qubit flipped to go from the i-th state to the next: the one that     *)
(* differs; after the last state the first qubit, back to where it began.    *)
Flipped(i, n) ==
  IF i = 2 ^ n - 1 THEN 1
  ELSE CHOOSE j \in 1 .. n : GrayState(i, n)[j] # GrayState(i + 1, n)[j]

(* The qubits flipped to write score, least significant first. *)
ScoreBits(score, scoring) ==
  Each(1, Len(scoring), LAMBDA j : IF (score \div 2 ^ (j - 1)) % 2 = 1 THEN X(scoring[j]) ELSE <<>>)

(* Without ancillas every X has all state qubits as controls; with them the  *)
(* whole score is written by one MultiControlledUWithAncilla.                *)
EfficientEncoding(scoring_function, state, scoring, flags, flagInteger, isLSB, ancilla) ==
  LET n == Len(state)
      flag(k) == IF k = flagInteger THEN CU(Xs(flags), AsSet(state)) ELSE <<>>
      write(u) == IF ancilla = <<>> THEN CU(u, AsSet(state))
                  ELSE MultiControlledUWithAncilla(state, ancilla, u)
      visit(i) == LET k == Value(GrayState(i, n), isLSB)
                  IN flag(k) \o write(ScoreBits(scoring_function[k], scoring)) \o X(state[Flipped(i, n)])
  IN Each(0, 2 ^ n - 1, visit)

(* The ancillas it takes when it is told to use them and given too few: the  *)
(* lowest qubits that are neither state nor scoring.                         *)
DefaultAncilla(state, scoring, ancilla) ==
  LET free == {q \in 0 .. 2 * (Len(state) + Len(scoring)) : q \notin AsSet(state) \cup AsSet(scoring)}
      rank(q) == Cardinality({p \in free : p <= q})
      more == Len(state) - 1 - Len(ancilla)
  IN ancilla \o [i \in 1 .. (IF more > 0 THEN more ELSE 0) |-> CHOOSE q \in free : rank(q) = i]

-----------------------------------------------------------------------------
(* The kernel: W' chooses the next letter and writes its metric, Q' and U'   *)
(* copy letter and metric out of and into the string.                        *)

WPrime(probabilities, letter, metric, flags, nullInteger, ancilla) ==
  Each(1, Len(letter), LAMBDA i : H(letter[i]))
    \o EfficientEncoding(probabilities, letter, metric, flags, nullInteger, TRUE, ancilla)

UPrime(iteration, string, metric, letter, nextMetric) ==
  CXs(nextMetric, Part(metric, iteration, Len(nextMetric)))
    \o CXs(letter, Part(string, iteration, Len(letter)))

QPrime(iteration, string, metric, letter, nextMetric) ==
  CXs(Part(metric, iteration, Len(nextMetric)), nextMetric)
    \o CXs(Part(string, iteration, Len(letter)), letter)

(* The older combination of the two, on ancillas. *)
UQPrime(ancillaMetric, ancillaLetter, nextMetric, letter) ==
  LET both(a, b) == Each(1, Len(a), LAMBDA i : CX(b[i], a[i]) \o CX(a[i], b[i]))
  IN both(ancillaMetric, nextMetric) \o both(ancillaLetter, letter)

-----------------------------------------------------------------------------
(* CompareBeamOracle: q1 says that the flags agree, q2 that every letter is  *)
(* flagged as superfluous or agrees with the letter of the other string (or, *)
(* simplified, is all ones), q0 that both do.                                *)
CompareBeamOracle(q0, q1, q2, FA, FB, SA, SB, simplified) ==
  LET n == Len(SA) \div Len(FA)
      letter(i) == IF simplified
                   THEN GeneralisedMCX(FB[i], Part(SA, i - 1, n), <<FA[i]>>)
                   ELSE EqualityChecker(Part(SA, i - 1, n), Part(SB, i - 1, n), FB[i], <<>>, <<FA[i]>>, <<>>)
      letters == Each(1, Len(FA), letter)
  IN CXs(FA, FB) \o GeneralisedMCX(q1, <<>>, FB) \o CXs(FA, FB)
       \o letters \o GeneralisedMCX(q2, FB, <<>>) \o letters
       \o CU(X(q0), {q1, q2})

(* SuperpositionAdder: for every string there is, the string without its     *)
(* superfluous letters (nulls and repeats of the letter before) is loaded    *)
(* beside the beam's, its flags last, the two are compared, and where they   *)
(* agree MeanValueFinder adds the metric: the gate "Mean" below.             *)
Letter(digits, j, n) == SubSeq(digits, (j - 1) * n + 1, j * n)
(* Variation: repeats of the letter before are kept. *)
Superfluous_NullsOnly(digits, j, n) == \A k \in 1 .. n : Letter(digits, j, n)[k] = 0

Superfluous(digits, j, n) ==
  \/ \A k \in 1 .. n : Letter(digits, j, n)[k] = 0
  \/ j > 1 /\ Letter(digits, j, n) = Letter(digits, j - 1, n)

LoadContracted(digits, flags, string) ==
  LET L == Len(flags)
      n == Len(string) \div L
      before(j) == Cardinality({k \in 1 .. j : Superfluous(digits, k, n)})
      load(j) == IF Superfluous(digits, j, n) THEN <<>>
                 ELSE Each(1, n, LAMBDA k : IF Letter(digits, j, n)[k] = 1
                                            THEN X(string[(j - 1 - before(j)) * n + k]) ELSE <<>>)
  IN Each(1, L, load) \o Each(1, before(L), LAMBDA j : X(flags[L - j + 1]))

SuperpositionAdder(q0, q1, q2, flags, string, ancilla) ==
  LET L == Len(flags)
      n == Len(string)
      oracleFlags == SubSeq(ancilla, 1, L)
      oracleString == SubSeq(ancilla, L + 1, L + n)
      compare == CompareBeamOracle(q0, q1, q2, flags, oracleFlags, string, oracleString, FALSE)
      visit(i) == LET load == LoadContracted(GrayState(i, n), oracleFlags, oracleString)
                  IN load \o compare \o Instruction("Mean", q0) \o InverseCircuit(compare) \o load
  IN Each(0, 2 ^ n - 1, visit)

-----------------------------------------------------------------------------
(* AEtoMetric: amplitude i, precision[i] digits, is squared into ancillas    *)
(* and added to the metric at the place its weight 2^i has, onesIndex being  *)
(* the place of the units.                                                   *)
Sum(s, n) == FoldLeft(LAMBDA x, y : x + y, 0, SubSeq(s, 1, n))

AEtoMetric(evaluation, precision, metric, ancilla, onesIndex) ==
  LET term(i) ==
        LET p == precision[i]
            amplitude == SubSeq(evaluation, Sum(precision, i - 1) + 1, Sum(precision, i))
            buffer == SubSeq(ancilla, 1, p)
            squared == SubSeq(ancilla, p + 1, 3 * p)
            square == Multiplication(amplitude, buffer, squared, ancilla[3 * p + 1])
            place == (i - 1) - 2 * p + onesIndex
            addend == IF place < 0 THEN SubSeq(squared, 1 - place, 2 * p) ELSE squared
            target == SubSeq(metric, IF place < 0 THEN 1 ELSE place + 1, Len(metric))
            missing == Len(target) - 1 - Len(addend)
            padded == addend \o SubSeq(ancilla, 3 * p + 2, 3 * p + 1 + missing)
        IN CXs(amplitude, buffer) \o square
             \o (IF padded = <<>> THEN <<>>
                 ELSE RippleCarryAdder(padded, target, ancilla[Len(ancilla)], FALSE))
             \o InverseCircuit(square) \o CXs(amplitude, buffer)
  IN Each(1, Len(precision), term)

-----------------------------------------------------------------------------
(* BeamStatePrep: iteration by iteration a letter is chosen and put into the *)
(* string: a null at the back, a letter at the front, a repeat of the letter *)
(* of the iteration before (only its metric) at the back; then what was used *)
(* to choose it is reset.  r names the registers.                            *)

Slot(r, pos) ==
  [letter |-> Part(r.string, pos, Len(r.nextLetter)),
   metric |-> Part(r.metrics, pos, Len(r.nextMetric)),
   iteration |-> Part(r.iterations, pos, Len(r.current)),
   occupied |-> r.occupied[pos + 1], null |-> r.nulls[pos + 1]]

(* What is chosen is copied to the slot, if the slot is free and nothing was *)
(* stored yet, ...                                                           *)
Store(r, slot, withLetter, on, off) ==
  Conditioned((IF withLetter THEN CXs(r.nextLetter, slot.letter) ELSE <<>>)
                \o CXs(r.nextMetric, slot.metric) \o CXs(r.current, slot.iteration),
              on, <<slot.occupied, r.isUsed>> \o off)

(* ... and the slot that now holds this iteration flips the flags.           *)
Switch(r, slot, flags, on, off) ==
  Each(1, Len(flags), LAMBDA f : EqualityChecker(slot.iteration, r.current, flags[f], on, off, <<>>))

(* Variation: the slot is not marked as null. *)
AddNull_Unmarked(r, pos) ==
  LET slot == Slot(r, pos)
  IN Store(r, slot, TRUE, <<r.isNull>>, <<>>)
       \o Switch(r, slot, <<slot.occupied, r.isUsed>>, <<r.isNull>>, <<>>)

AddNull(r, pos) ==
  LET slot == Slot(r, pos)
  IN Store(r, slot, TRUE, <<r.isNull>>, <<>>)
       \o Switch(r, slot, <<slot.occupied, r.isUsed, slot.null>>, <<r.isNull>>, <<>>)

AddFirst(r) ==
  LET slot == Slot(r, 0)
  IN Store(r, slot, TRUE, <<>>, <<r.isNull>>)
       \o Switch(r, slot, <<slot.occupied, r.isUsed>>, <<>>, <<r.isNull>>)

(* A repeat: the slot before holds the same letter, put there one iteration  *)
(* ago, and this slot would be the next one.  The letter chosen is cleared.  *)
CheckRepeat(r, pos) ==
  LET last == Slot(r, pos - 1)
      sameLetter == r.ancilla[1]
      justBefore == r.ancilla[2]
      adder == SubSeq(r.ancilla, 4, 2 + Len(r.current))
      compareLetter == EqualityChecker(last.letter, r.nextLetter, sameLetter, <<>>, <<>>, <<>>)
      increment == X(adder[1]) \o RippleCarryAdder(adder, last.iteration, r.ancilla[3], FALSE)
      compareIteration == EqualityChecker(last.iteration, r.current, justBefore, <<>>, <<>>, <<>>)
  IN compareLetter \o increment \o compareIteration
       \o GeneralisedMCX(r.isRepetition, <<sameLetter, justBefore>>,
                         <<r.occupied[pos + 1], r.isUsed, r.isNull>>)
       \o CU(CXs(last.letter, r.nextLetter), {r.isRepetition})
       \o compareIteration \o InverseCircuit(increment)
       \o compareLetter \o CX(r.isRepetition, sameLetter)

AddLetter(r, pos) ==
  LET slot == Slot(r, pos)
      off == <<r.isNull, r.isRepetition>>
  IN CheckRepeat(r, pos) \o Store(r, slot, TRUE, <<>>, off)
       \o Switch(r, slot, <<slot.occupied, r.isUsed>>, <<>>, off)

AddRepeat(r, pos) ==
  LET slot == Slot(r, pos)
  IN Store(r, slot, FALSE, <<r.isRepetition>>, <<r.isNull>>)
       \o Switch(r, slot, <<slot.occupied, r.isUsed>>, <<r.isRepetition>>, <<r.isNull>>)

(* What is reset: wherever this iteration was stored, the letter and metric  *)
(* chosen, the null flag, and the repetition flag (the slot has no letter    *)
(* and is not null).                                                         *)
ResetChoice(r, L) ==
  LET here(slot, u) == LET check == EqualityChecker(slot.iteration, r.current, r.ancilla[1], <<>>, <<>>, <<>>)
                       IN check \o u \o check
      a == r.ancilla[1]
      choice(slot) == here(slot, CU(CXs(slot.metric, r.nextMetric) \o CXs(slot.letter, r.nextLetter), {a}))
      null(slot) == here(slot, CU(CX(slot.null, r.isNull), {a}))
      repetition(slot) == here(slot, GeneralisedMCX(r.isRepetition, <<a>>, <<slot.null>> \o slot.letter))
  IN Each(0, L - 1, LAMBDA pos : choice(Slot(r, pos)))
       \o Each(0, L - 1, LAMBDA pos : null(Slot(r, pos)))
       \o Each(0, L - 1, LAMBDA pos : repetition(Slot(r, pos)))

(* The register of the iteration goes from this value to the next one, after *)
(* the last iteration to 0.                                                  *)
NextIteration(r, iteration, L) ==
  LET next == IF iteration = L THEN 0 ELSE iteration + 1
      bit(v, j) == (v \div 2 ^ (j - 1)) % 2
  IN Each(1, Len(r.current), LAMBDA j : IF bit(iteration, j) # bit(next, j) THEN X(r.current[j]) ELSE <<>>)

BeamStatePrep(probability_table, r) ==
  LET L == Len(r.string) \div Len(r.nextLetter)
      iterate(it) ==
        WPrime(probability_table[it], r.nextLetter, r.nextMetric, <<>>, 0, <<>>)
          \o GeneralisedMCX(r.isNull, <<>>, r.nextLetter)
          \o EachDown(L - 1, 0, LAMBDA pos : AddNull(r, pos))
          \o AddFirst(r)
          \o Each(1, L - 1, LAMBDA pos : AddLetter(r, pos))
          \o EachDown(L - 1, 0, LAMBDA pos : AddRepeat(r, pos))
          \o X(r.isUsed)
          \o ResetChoice(r, L)
          \o NextIteration(r, it, L)
  IN X(r.current[1]) \o Each(1, L, iterate) \o Xs(r.occupied)
=============================================================================
