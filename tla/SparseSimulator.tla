--------------------------- MODULE SparseSimulator ---------------------------
(* The sparse simulator (sparse-sim/SparseSimulator.h).  Gates are not       *)
(* applied as they come: phases and permutations wait in a queue, and on     *)
(* every qubit one H, one Rx and one Ry are held back, to be applied after   *)
(* the queue and in that order.  Every gate that comes is rewritten to pass  *)
(* what is held back, or executes it first.                                  *)
(*                                                                           *)
(* Each method is an operator from the members of the class (a record) to    *)
(* the members it leaves.                                                    *)
EXTENDS QuantumState
LOCAL INSTANCE FiniteSetsExt

CONSTANT Qubits       \* the qubits in use
ASSUME QubitsAreNumbered == Qubits \subseteq Nat

NewSimulator ==
  [queue_H |-> [q \in Qubits |-> FALSE],
   queue_Rx |-> [q \in Qubits |-> FALSE], angles_Rx |-> [q \in Qubits |-> 0],
   queue_Ry |-> [q \in Qubits |-> FALSE], angles_Ry |-> [q \in Qubits |-> 0],
   occupied |-> [q \in Qubits |-> FALSE],
   queued_operations |-> <<>>, quantum_state |-> AllZero]

Enqueue(s, o) == [s EXCEPT !.queued_operations = Append(@, o)]
Queue(s, op, target, controls) == Enqueue(s, Operation(op, target, controls))
_set_qubit_to_nonzero(s, q) == [s EXCEPT !.occupied[q] = TRUE]
_set_qubit_to_zero(s, q) == [s EXCEPT !.occupied[q] = FALSE]
Held(s, q) == s.queue_Ry[q] \/ s.queue_Rx[q] \/ s.queue_H[q]
Turned(x) == x % Turn

-----------------------------------------------------------------------------
(* Executing what is queued and held back.                                   *)

_execute_phase_and_permute(s) ==
  [s EXCEPT !.quantum_state = phase_and_permute(@, s.queued_operations),
            !.queued_operations = <<>>]

_execute_H(s, q) ==
  IF s.queue_H[q]
  THEN [s EXCEPT !.quantum_state = H(@, q), !.queue_H[q] = FALSE]
  ELSE s
ApplyRx(s, q) ==
  IF s.queue_Rx[q]
  THEN [s EXCEPT !.quantum_state = R(@, "X", s.angles_Rx[q], q), !.queue_Rx[q] = FALSE, !.angles_Rx[q] = 0]
  ELSE s
ApplyRy(s, q) ==
  IF s.queue_Ry[q]
  THEN [s EXCEPT !.quantum_state = R(@, "Y", s.angles_Ry[q], q), !.queue_Ry[q] = FALSE, !.angles_Ry[q] = 0]
  ELSE s
_execute_RxH(s, q) == ApplyRx(_execute_H(s, q), q)
_execute_RyRxH(s, q) == ApplyRy(_execute_RxH(s, q), q)

(* Up to a level, H < Rx < Ry, on some qubits; any other level executes the  *)
(* queue alone.                                                              *)
_execute_queued_ops(s, indices, level) ==
  FoldSet(LAMBDA q, t : CASE level = "Ry" -> _execute_RyRxH(t, q)
                          [] level = "Rx" -> _execute_RxH(t, q)
                          [] level = "H" -> _execute_H(t, q)
                          [] OTHER -> t,
          _execute_phase_and_permute(s), indices)
ExecuteAll(s) == _execute_queued_ops(s, Qubits, "Ry")

_execute_if(s, indices) ==
  IF \E q \in indices : Held(s, q) THEN _execute_queued_ops(s, indices, "Ry") ELSE s
ExecuteWhen(condition, s, indices, level) ==
  IF condition THEN _execute_queued_ops(s, indices, level) ELSE s

PastRy(s, q) == ExecuteWhen(s.queue_Ry[q], s, {q}, "Ry")
PastRx(s, q, level) == ExecuteWhen(s.queue_Rx[q], s, {q}, level)
PastH(s, q) == ExecuteWhen(s.queue_H[q], s, {q}, "H")

NegateRy(s, q) == IF s.queue_Ry[q] THEN [s EXCEPT !.angles_Ry[q] = Turned(-@)] ELSE s
NegateRx(s, q) == IF s.queue_Rx[q] THEN [s EXCEPT !.angles_Rx[q] = Turned(-@)] ELSE s

-----------------------------------------------------------------------------
(* Pauli gates, with any set of controls.                                    *)

NOT(s, index) ==
  IF s.queue_H[index]
  THEN Queue(NegateRy(s, index), "Z", index, {})
  ELSE _set_qubit_to_nonzero(Queue(NegateRy(s, index), "X", index, {}), index)

(* What is executed depends on the flags at two moments: those of the        *)
(* controls are read before the target's Ry is executed.                     *)
MCXControls(s, controls, target) ==
  LET c == CHOOSE q \in controls : TRUE
  IN IF Cardinality(controls) = 1
     THEN ExecuteWhen(s.queue_Ry[c] \/ s.queue_Rx[c] \/ (s.queue_H[c] /\ ~s.queue_H[target]), s, controls, "Ry")
     ELSE _execute_if(s, controls)
MCXTarget(s, controls, target) ==
  LET c == CHOOSE q \in controls : TRUE
      turned == Cardinality(controls) = 1 /\ s.queue_H[c]
  IN CASE s.queue_H[target] /\ turned -> _set_qubit_to_nonzero(Queue(s, "X", c, {target}), c)
       [] s.queue_H[target] /\ ~turned -> Queue(s, "Z", target, controls)
       [] OTHER -> _set_qubit_to_nonzero(Queue(s, "X", target, controls), target)
MCX(s, controls, target) ==
  IF controls = {} THEN NOT(s, target)
  ELSE MCXTarget(PastRy(MCXControls(s, controls, target), target), controls, target)

Switched(s, controls, target) ==
  IF s.queue_H[target] THEN Queue(s, "Z", CHOOSE q \in controls : TRUE, controls) ELSE s
MCY(s, controls, target) ==
  LET passed == IF controls = {} THEN NegateRx(s, target)
                ELSE Switched(PastRx(_execute_if(s, controls), target, "Rx"), controls, target)
  IN _set_qubit_to_nonzero(Queue(passed, "Y", target, controls), target)

PauliZ(s, index) ==
  LET passed == NegateRx(NegateRy(s, index), index)
  IN IF s.queue_H[index]
     THEN _set_qubit_to_nonzero(Queue(passed, "X", index, {}), index)
     ELSE Queue(passed, "Z", index, {})

(* One H and nothing else turns it into an MCX on the qubit that has the H.  *)
(* Variation: what is held back on the target is not counted.                *)
MCZ_ControlsOnly(s, controls, target) ==
  LET withH == {q \in controls : s.queue_H[q]}
      count == Cardinality(withH) + 2 * Cardinality({q \in controls : s.queue_Ry[q] \/ s.queue_Rx[q]})
      h == CHOOSE q \in withH : TRUE
  IN CASE controls = {} -> PauliZ(s, target)
       [] controls # {} /\ count > 1 -> Queue(_execute_queued_ops(s, controls, "Ry"), "Z", target, controls)
       [] controls # {} /\ count = 1 ->
            _set_qubit_to_nonzero(Queue(s, "X", h, (controls \cup {target}) \ {h}), h)
       [] OTHER -> Queue(s, "Z", target, controls)
MCZ(s, controls, target) ==
  LET all == controls \cup {target}
      withH == {q \in all : s.queue_H[q]}
      count == Cardinality(withH) + 2 * Cardinality({q \in all : s.queue_Ry[q] \/ s.queue_Rx[q]})
      h == CHOOSE q \in withH : TRUE
  IN CASE controls = {} -> PauliZ(s, target)
       [] controls # {} /\ count > 1 -> Queue(_execute_queued_ops(s, all, "Ry"), "Z", target, controls)
       [] controls # {} /\ count = 1 -> _set_qubit_to_nonzero(Queue(s, "X", h, all \ {h}), h)
       [] OTHER -> Queue(s, "Z", target, controls)

-----------------------------------------------------------------------------
(* Phases and rotations.  phase is an angle.                                 *)

Phase(s, phase, index) ==
  Enqueue(_execute_if(s, {index}), [Operation("Phase", index, {}) EXCEPT !.phase = phase])
MCPhase(s, controls, phase, target) ==
  IF controls = {} THEN Phase(s, phase, target)
  ELSE Enqueue(_execute_if(_execute_if(s, controls), {target}),
               [Operation("Phase", target, controls) EXCEPT !.phase = phase])

AddRy(s, phi, index) ==
  [_set_qubit_to_nonzero(s, index) EXCEPT !.queue_Ry[index] = TRUE, !.angles_Ry[index] = Turned(@ + phi)]
AddRx(s, phi, index) ==
  [_set_qubit_to_nonzero(s, index) EXCEPT !.queue_Rx[index] = TRUE, !.angles_Rx[index] = Turned(@ + phi)]

Rotate(s, b, phi, index) ==
  CASE b = "I" -> s
    [] b = "Y" -> AddRy(s, phi, index)
    [] b = "X" -> AddRx(PastRy(s, index), phi, index)
    [] b = "Z" -> Phase(PastH(PastRx(PastRy(s, index), index, "Rz"), index), phi, index)

(* A controlled rotation about I is a phase of half the angle (phi is even). *)
RotationPast(s, b, target) ==
  LET past_Ry == IF b = "Y" THEN s ELSE PastRy(s, target)
  IN IF b = "X" THEN past_Ry ELSE PastRx(past_Ry, target, "Rx")
ControlledRotation(s, controls, b, phi, target) ==
  LET c == CHOOSE q \in controls : TRUE
  IN CASE controls = {} -> Rotate(s, b, phi, target)
       [] controls # {} /\ b = "I" ->
            MCPhase(s, IF Cardinality(controls) > 1 THEN controls ELSE {}, -(phi \div 2), c)
       [] OTHER ->
            _set_qubit_to_nonzero(
              [_execute_phase_and_permute(PastH(RotationPast(_execute_if(s, controls), b, target), target))
                 EXCEPT !.quantum_state = MCR(@, controls, b, phi, target)], target)

-----------------------------------------------------------------------------
(* Gates that create superpositions, and swaps.                              *)

ToggleH(s, index) ==
  _set_qubit_to_nonzero([PastRx(NegateRy(s, index), index, "Rx") EXCEPT !.queue_H[index] = ~@], index)

(* An H held back on the target commutes with H: it stays.                   *)
PastRyRx(s, q) == ExecuteWhen(s.queue_Ry[q] \/ s.queue_Rx[q], s, {q}, "Ry")
ControlledH(s, controls, target) ==
  IF controls = {} THEN ToggleH(s, target)
  ELSE _set_qubit_to_nonzero(
         [_execute_phase_and_permute(PastRyRx(_execute_if(s, controls), target))
            EXCEPT !.quantum_state = MCH(@, controls, target)], target)

SwapOf(i, j, controls) == [Operation("SWAP", i, controls) EXCEPT !.target_2 = j]
Exchange(f, i, j) == [f EXCEPT ![i] = f[j], ![j] = f[i]]
SWAP(s, i, j) ==
  Enqueue([s EXCEPT !.queue_Ry = Exchange(@, i, j), !.angles_Ry = Exchange(@, i, j),
                    !.queue_Rx = Exchange(@, i, j), !.angles_Rx = Exchange(@, i, j),
                    !.queue_H = Exchange(@, i, j), !.occupied = Exchange(@, i, j)],
          SwapOf(i, j, {}))

BothOccupied(s, i, j) ==
  IF s.occupied[i] \/ s.occupied[j] THEN _set_qubit_to_nonzero(_set_qubit_to_nonzero(s, i), j) ELSE s
CSWAP(s, controls, i, j) ==
  IF controls = {} THEN SWAP(s, i, j)
  ELSE BothOccupied(Enqueue(_execute_if(_execute_if(_execute_if(s, controls), {i}), {j}),
                            SwapOf(i, j, controls)), i, j)

-----------------------------------------------------------------------------
(* Measurements and assertions.  result is the outcome that is drawn: any    *)
(* that leaves something of the state.                                       *)

Exp(s, controls, axes, angle) ==
  LET a == _execute_queued_ops(_execute_queued_ops(s, DOMAIN axes, "Ry"), controls, "Ry")
      sinAngle == Mod(Imag * SinHalf(angle))
      combined == IF controls = {}
                  THEN PauliCombination(a.quantum_state, axes, CosHalf(angle), sinAngle)
                  ELSE MCPauliCombination(a.quantum_state, controls, axes, CosHalf(angle), sinAngle)
  IN FoldSet(LAMBDA q, t : _set_qubit_to_nonzero(t, q), [a EXCEPT !.quantum_state = combined], DOMAIN axes)

(* A qubit that is not occupied is not looked at. *)
ToMeasure(s, target) == IF s.occupied[target] THEN _execute_queued_ops(s, {target}, "Ry") ELSE s
MOutcomes(s, target) ==
  IF s.occupied[target]
  THEN {r \in {0, 1} : SomethingLeft(M(ToMeasure(s, target).quantum_state, target, r))}
  ELSE {0}
MeasureQubit(s, target, result) ==
  LET a == ToMeasure(s, target)
      b == [a EXCEPT !.quantum_state = M(@, target, result)]
  IN CASE ~s.occupied[target] -> s
       [] s.occupied[target] /\ result = 0 -> _set_qubit_to_zero(b, target)
       [] OTHER -> b

ResetQubit(s, target, result) ==
  IF s.occupied[target]
  THEN _set_qubit_to_zero([ToMeasure(s, target) EXCEPT !.quantum_state = Reset(@, target, result)], target)
  ELSE s

(* A qubit in |1> is turned over, one in a superposition is reset; the       *)
(* answer is that it was not.                                                *)
ReleaseAnswer(s, q) == is_qubit_classical(ToMeasure(s, q).quantum_state, q).classical
Release(s, q, result) ==
  LET a == ToMeasure(s, q)
      turned == IF is_qubit_classical(a.quantum_state, q).value
                THEN _execute_queued_ops(NOT(a, q), {q}, "Ry") ELSE a
  IN CASE ~s.occupied[q] -> s
       [] s.occupied[q] /\ ReleaseAnswer(s, q) -> _set_qubit_to_zero(turned, q)
       [] OTHER -> _set_qubit_to_zero([a EXCEPT !.quantum_state = Reset(@, q, result)], q)

(* X and Z change places, and the eigenvalue of Y its sign, under an H held  *)
(* back; Rx and Ry are executed.                                             *)
Passed(s, axes) ==
  [q \in DOMAIN axes |->
     CASE s.queue_H[q] /\ axes[q] = "X" -> "Z"
       [] s.queue_H[q] /\ axes[q] = "Z" -> "X"
       [] OTHER -> axes[q]]
ToAssert(s, axes) ==
  ExecuteWhen(\E q \in DOMAIN axes : s.queue_Rx[q] \/ s.queue_Ry[q], s, DOMAIN axes, "Ry")
Asserted(s, axes) ==
  IF \A q \in DOMAIN axes : axes[q] = "I" THEN ToAssert(s, axes)
  ELSE _execute_phase_and_permute(ToAssert(s, axes))
(* Variation: the sign of Y is not switched. *)
Throws_SameSign(s, axes, result) ==
  LET a == Asserted(s, axes)
  IN /\ \E q \in DOMAIN axes : axes[q] # "I"
     /\ ~Holds(a.quantum_state, Passed(a, axes), result)
Throws(s, axes, result) ==
  LET a == Asserted(s, axes)
      flips == Cardinality({q \in DOMAIN axes : a.queue_H[q] /\ axes[q] = "Y"})
  IN /\ \E q \in DOMAIN axes : axes[q] # "I"
     /\ ~Holds(a.quantum_state, Passed(a, axes), result # (flips % 2 = 1))

ToZero(target) == [q \in {target} |-> "Z"]
MCApplyAnd(s, controls, target) ==
  IF Throws(s, ToZero(target), FALSE) THEN Asserted(s, ToZero(target))
  ELSE MCX(Asserted(s, ToZero(target)), controls, target)
GiveBack(s, target) ==
  IF Throws(s, ToZero(target), FALSE) THEN Asserted(s, ToZero(target))
  ELSE _set_qubit_to_zero(Asserted(s, ToZero(target)), target)
MCApplyAndAdj(s, controls, target) == GiveBack(MCX(s, controls, target), target)

(* A Pauli product is measured at once; afterwards the qubits measured along *)
(* X are kept as basis states, with an H held back.                          *)
MeasureOutcomes(s, axes) ==
  LET a == _execute_queued_ops(s, DOMAIN axes, "Ry")
  IN {r \in {0, 1} : SomethingLeft(Measured(a.quantum_state, axes, r = 1))}
MeasureAxes(s, axes, result) ==
  LET alongX == {q \in DOMAIN axes : axes[q] = "X"}
      toggle(t) == FoldSet(LAMBDA q, u : ToggleH(u, q), t, alongX)
      a == _execute_queued_ops(s, DOMAIN axes, "Ry")
      b == [a EXCEPT !.quantum_state = Measured(@, axes, result = 1)]
  IN toggle(_execute_queued_ops(toggle(b), alongX, "H"))

(* Whether some qubits can be dumped on their own, from any state to begin   *)
(* with: the first of a hash map that is not zero.                           *)
Dumped(s, qubits) == _execute_queued_ops(s, qubits, "Ry")
DumpAnswers(s, qubits) ==
  LET v == Dumped(s, qubits).quantum_state
  IN {_split_wavefunction(v, qubits, base) : base \in {l \in DOMAIN v : v[l] # 0}}
=============================================================================
