---------------------------- MODULE QuantumState ----------------------------
(* The wavefunction of the sparse simulator (sparse-sim/quantum_state.hpp):  *)
(* a hash map from basis states to the amplitudes that are not zero.  A      *)
(* basis state is the set of the qubits that are 1 in it, a wavefunction a   *)
(* function on the basis states it stores.  Amplitudes are those of          *)
(* Unitaries, angles multiples of pi/4; a state need not be normalised.      *)
EXTENDS Unitaries, FiniteSets
LOCAL INSTANCE SequencesExt
LOCAL INSTANCE TLC

Flip(label, qubits) == (label \ qubits) \cup (qubits \ label)
Amplitude(v, label) == IF label \in DOMAIN v THEN v[label] ELSE 0
Tabulated(v) == v @@ <<>>                  \* v, for TLC to compute once
Stored(v, labels) == Tabulated([label \in labels |-> v[label]])
AllZero == [label \in {{}} |-> 1]

(***************************************************************************)
(* Phase and permutation gates, as they are queued: the kind (X stands for *)
(* X and MCX, and so on), the target, the controls, the exponent of a      *)
(* phase, the second qubit of a swap.                                      *)
(***************************************************************************)
Operation(op, target, controls) ==
  [op |-> op, target |-> target, controls |-> controls, phase |-> 0, target_2 |-> target]

(* Where an operation takes a basis state.  Each is its own inverse. *)
Moved(o, label) ==
  LET pair == {o.target, o.target_2}
  IN IF \/ ~(o.controls \subseteq label)
        \/ o.op \in {"Z", "Phase"}
        \/ o.op = "SWAP" /\ Cardinality(label \cap pair) # 1
     THEN label
     ELSE Flip(label, pair)

(* What it multiplies the basis state it leads to by. *)
Factor(o, label) ==
  CASE ~(o.controls \subseteq label) -> 1
    [] o.op = "Y" -> IF o.target \in label THEN Imag ELSE -Imag
    [] o.op = "Z" -> IF o.target \in label THEN -1 ELSE 1
    [] o.op = "Phase" -> IF o.target \in label THEN Zeta(2 * o.phase) ELSE 1
    [] OTHER -> 1

phase_and_permute(v, operation_list) ==
  FoldLeft(LAMBDA w, o :
             Tabulated([label \in {Moved(o, l) : l \in DOMAIN w} |->
                          Mod(Factor(o, label) * w[Moved(o, label)])]),
           v, operation_list)

(***************************************************************************)
(* Gates that create superpositions: the two rows of the matrix applied to *)
(* every pair of basis states that differ in the target, where the         *)
(* controls are 1.                                                         *)
(***************************************************************************)
Mixed(v, controls, target, rows) ==
  LET on == {l \in DOMAIN v : controls \subseteq l}
      labels == DOMAIN v \cup {Flip(l, {target}) : l \in on}
      amplitude(l) ==
        LET row == IF target \in l THEN rows[2] ELSE rows[1]
        IN IF controls \subseteq l
           THEN Mod(row[1] * Amplitude(v, l \ {target}) + row[2] * Amplitude(v, l \cup {target}))
           ELSE v[l]
      w == Tabulated([l \in labels |-> amplitude(l)])
  IN Stored(w, {l \in labels : w[l] # 0})

Hadamard == <<<<InvSqrt2, InvSqrt2>>, <<InvSqrt2, -InvSqrt2>>>>
H(v, index) == Mixed(v, {}, index, Hadamard)
MCH(v, controls, index) == Mixed(v, controls, index, Hadamard)

M00(phi) == CosHalf(phi)
M01(b, phi) == Mod(-Imag * SinHalf(phi) * (IF b = "Y" THEN -Imag ELSE 1))
M10(b, phi) == IF b = "Y" THEN -M01(b, phi) ELSE M01(b, phi)
Rotation(b, phi) == <<<<M00(phi), M01(b, phi)>>, <<M10(b, phi), M00(phi)>>>>

(* A rotation about Z multiplies each basis state, in place. *)
RotatedZ(v, controls, phi, target) ==
  Tabulated([l \in DOMAIN v |->
               IF controls \subseteq l
               THEN Mod(v[l] * Zeta(IF target \in l THEN phi ELSE -phi)) ELSE v[l]])

(* By pi it is X or Y, by a whole turn nothing, up to a phase no one sees. *)
R(v, b, phi, index) ==
  CASE b = "Z" -> RotatedZ(v, {}, phi, index)
    [] b # "Z" /\ M00(phi) = 0 -> phase_and_permute(v, <<Operation(b, index, {})>>)
    [] b # "Z" /\ M01(b, phi) = 0 -> v
    [] OTHER -> Mixed(v, {}, index, Rotation(b, phi))

(* Under controls the phase is seen: it goes to the controls.  phi is an odd *)
(* or an even multiple of pi, so the phase, -i sin(phi/2) or cos(phi/2), is  *)
(* one of -i, i, -1 and 1.                                                   *)
PhaseOf(x) == CHOOSE k \in 0 .. 7 : Zeta(2 * k) = Mod(x)
OnControls(controls, phase) ==
  LET c == CHOOSE q \in controls : TRUE
  IN [Operation("Phase", c, controls) EXCEPT !.phase = phase]
MCR(v, controls, b, phi, target) ==
  CASE b = "Z" -> RotatedZ(v, controls, phi, target)
    [] b # "Z" /\ M00(phi) = 0 ->
         phase_and_permute(v, <<OnControls(controls, PhaseOf(-Imag * SinHalf(phi))),
                                Operation(b, target, controls)>>)
    [] b # "Z" /\ M01(b, phi) = 0 ->
         phase_and_permute(v, <<OnControls(controls, PhaseOf(M00(phi)))>>)
    [] OTHER -> Mixed(v, controls, target, Rotation(b, phi))

(***************************************************************************)
(* Pauli products.  axes gives some qubits a basis, "I" among them.        *)
(***************************************************************************)
XYs(axes) == {q \in DOMAIN axes : axes[q] \in {"X", "Y"}}
YZs(axes) == {q \in DOMAIN axes : axes[q] \in {"Y", "Z"}}
ycount(axes) == Cardinality(XYs(axes) \cap YZs(axes))
Sign(n) == IF n % 2 = 1 THEN -1 ELSE 1
Parity(axes, label) == Sign(Cardinality(label \cap YZs(axes)))

(* id_coeff + pauli_coeff * P, where the controls are 1.  Without X and Y    *)
(* each basis state gets the sum or the difference, and when one of them is  *)
(* zero the states of the other are kept alone.  Otherwise the states come   *)
(* in pairs; a state whose partner was not stored keeps what it gets, be it  *)
(* zero.                                                                     *)
MCPauliCombination(v, controls, axes, id_coeff, pauli_coeff) ==
  LET on == {l \in DOMAIN v : controls \subseteq l}
      coeff(l) == Mod(id_coeff + Parity(axes, l) * pauli_coeff)
      possible == {Mod(id_coeff + s * pauli_coeff) : s \in {1, -1}}
      diagonal == [l \in DOMAIN v |-> IF l \in on THEN Mod(v[l] * coeff(l)) ELSE v[l]]
      remaining == IF 0 \in possible THEN {l \in on : coeff(l) # 0} ELSE DOMAIN v
      partner(l) == Flip(l, XYs(axes))
      alt == pauli_coeff * Zeta(4 * ycount(axes)) * Sign(ycount(axes))
      amplitude(l) ==
        IF controls \subseteq l
        THEN Mod(id_coeff * Amplitude(v, l)
                 + Parity(axes, l) * Mod(alt) * Amplitude(v, partner(l)))
        ELSE v[l]
      labels == DOMAIN v \cup {partner(l) : l \in on}
      w == Tabulated([l \in labels |-> amplitude(l)])
      paired(l) == l \in on /\ partner(l) \in on
  IN IF XYs(axes) = {}
     THEN Stored(diagonal, remaining)
     ELSE Stored(w, {l \in labels : paired(l) => w[l] # 0})

PauliCombination(v, axes, id_coeff, pauli_coeff) ==
  IF XYs(axes) \cup YZs(axes) = {} THEN v
  ELSE MCPauliCombination(v, {}, axes, id_coeff, pauli_coeff)

(* The state is an eigenstate: every basis state's partner is stored, with   *)
(* its amplitude up to the sign.  result stands for the eigenvalue -1.       *)
Holds(v, axes, result) ==
  \A l \in DOMAIN v :
    LET shift == Parity(axes, l) * Zeta(4 * ycount(axes)) * (IF result THEN -1 ELSE 1)
        flipped == Flip(l, XYs(axes))
    IN flipped \in DOMAIN v /\ v[flipped] = Mod(v[l] * shift)

(* What is left when a Pauli product is measured.  The probability itself    *)
(* is not kept: an outcome can occur when it leaves something.               *)
Measured(v, axes, result) ==
  PauliCombination(v, axes, Half, IF result THEN -Half ELSE Half)
SomethingLeft(v) == \E l \in DOMAIN v : v[l] # 0

(***************************************************************************)
(* Measuring and resetting one qubit.                                      *)
(***************************************************************************)
Ones(v, target) == Stored(v, {l \in DOMAIN v : target \in l})
Zeros(v, target) == Stored(v, {l \in DOMAIN v : target \notin l})
M(v, target, result) == IF result = 1 THEN Ones(v, target) ELSE Zeros(v, target)
Reset(v, target, result) ==
  LET kept == M(v, target, result)
  IN Tabulated([l \in {k \ {target} : k \in DOMAIN kept} |->
                  kept[IF result = 1 THEN l \cup {target} ELSE l]])

is_qubit_classical(v, target) ==
  LET values == {(target \in l) : l \in {k \in DOMAIN v : v[k] # 0}}
  IN [classical |-> Cardinality(values) <= 1, value |-> TRUE \in values]

(* Whether the qubits in mask can be split from the others, decided from the *)
(* state base: x splits when the states that agree with x on one side and    *)
(* with base on the other are stored and the products of amplitudes agree;   *)
(* the states stored must be all the products of both sides.                 *)
_split_wavefunction(v, mask, base) ==
  LET nonzero == {l \in DOMAIN v : v[l] # 0}
      first(x) == (x \cap mask) \cup (base \ mask)
      second(x) == (base \cap mask) \cup (x \ mask)
      splits(x) ==
        /\ {first(x), second(x)} \subseteq DOMAIN v
        /\ Mod(v[first(x)] * v[second(x)]) = Mod(v[base] * v[x])
      sides == Cardinality({l \cap mask : l \in nonzero}) * Cardinality({l \ mask : l \in nonzero})
  IN /\ \A x \in DOMAIN v : splits(x)
     /\ Cardinality(nonzero) = sides
=============================================================================
