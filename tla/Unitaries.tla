------------------------------ MODULE Unitaries ------------------------------
(* What a circuit of quantum gates computes, exactly: the reference against  *)
(* which GateDeferral is checked.  This is physics, not code of the          *)
(* repository.                                                               *)
(*                                                                           *)
(* Every angle is a multiple of pi/4, so every matrix element lies in        *)
(* Z[zeta, 1/2], zeta = exp(i pi/8) a primitive 16th root of unity.  That    *)
(* ring maps homomorphically onto the integers modulo 257, where 2 is a      *)
(* primitive 16th root of unity and 129 is 1/2: products and sums of         *)
(* elements are computed there.  Circuits that agree up to a phase agree     *)
(* modulo 257; circuits whose images differ differ.                          *)
(*                                                                           *)
(* There are two qubits, 0 and 1: no gate acts on more.  Basis state b has   *)
(* qubit q in state Bit(q, b).                                               *)
EXTENDS Integers, SequencesExt

Field == 257
Turn == 16                                    \* angles are counted modulo 4 pi

Mod(x) == x % Field
ZetaTo == <<1, 2, 4, 8, 16, 32, 64, 128, 256, 255, 253, 249, 241, 225, 193, 129>>   \* powers of 2
Zeta(k) == ZetaTo[1 + (k % Turn)]
Half == 129
Imag == Zeta(4)
InvSqrt2 == Mod((Zeta(2) + Zeta(-2)) * Half)

(* cos and sin of half the angle a pi/4. *)
CosHalf(a) == Mod((Zeta(a) + Zeta(-a)) * Half)
SinHalf(a) == Mod((Zeta(-a) - Zeta(a)) * Half * Imag)

Bit(q, b) == (b \div 2 ^ q) % 2
WithBit(q, b, x) == b + (x - Bit(q, b)) * 2 ^ q

(* A gate: its name, the qubits it acts on (the control before the target)   *)
(* and its angles.                                                           *)
Gate(name, on, angles) == [name |-> name, on |-> on, angles |-> angles]

Controlled == {"CH", "CNOT", "CY", "CZ", "CRX", "CRY", "CRZ", "CRx", "CRy", "CRz", "CPhase"}

(* The 2 x 2 matrix a gate applies to its target, row by row. *)
Matrix(g) ==
  LET a == IF g.angles = <<>> THEN 0 ELSE g.angles[1]
      diag(x, y) == <<<<x, 0>>, <<0, y>>>>
      phase(k) == diag(1, Zeta(2 * k))
      rx == <<<<CosHalf(a), -Imag * SinHalf(a)>>, <<-Imag * SinHalf(a), CosHalf(a)>>>>
      ry == <<<<CosHalf(a), -SinHalf(a)>>, <<SinHalf(a), CosHalf(a)>>>>
      rz == diag(Zeta(-a), Zeta(a))
  IN CASE g.name \in {"I", "Measure"} -> diag(1, 1)
       [] g.name \in {"X", "CNOT"} -> <<<<0, 1>>, <<1, 0>>>>
       [] g.name \in {"Y", "CY"} -> <<<<0, -Imag>>, <<Imag, 0>>>>
       [] g.name \in {"Z", "CZ"} -> diag(1, -1)
       [] g.name \in {"H", "CH"} -> <<<<InvSqrt2, InvSqrt2>>, <<InvSqrt2, -InvSqrt2>>>>
       [] g.name = "S" -> phase(2)
       [] g.name = "Sdg" -> phase(-2)
       [] g.name = "T" -> phase(1)
       [] g.name = "Tdg" -> phase(-1)
       [] g.name \in {"U1", "CPhase"} -> phase(a)
       [] g.name \in {"Rx", "CRX", "CRx"} -> rx
       [] g.name \in {"Ry", "CRY", "CRy"} -> ry
       [] g.name \in {"Rz", "CRZ", "CRz"} -> rz
       [] g.name = "U" -> 
            <<<<CosHalf(a), -Zeta(2 * g.angles[3]) * SinHalf(a)>>,
              <<Zeta(2 * g.angles[2]) * SinHalf(a),
                Zeta(2 * (g.angles[2] + g.angles[3])) * CosHalf(a)>>>>

(* A state vector: four amplitudes, those of the basis states 0 to 3. *)
Quad(Of(_)) == <<Of(0), Of(1), Of(2), Of(3)>>
Amp(v, b) == v[b + 1]

(* The state vector v after gate g. *)
Swapped(b) == (b \div 2) + 2 * (b % 2)
Applied(g, v) ==
  LET m == Matrix(g)
      t == g.on[Len(g.on)]
      amplitude(b) ==
        IF g.name \in Controlled /\ Bit(g.on[1], b) = 0
        THEN Amp(v, b)
        ELSE LET row == m[Bit(t, b) + 1]
             IN Mod(row[1] * Amp(v, WithBit(t, b, 0)) + row[2] * Amp(v, WithBit(t, b, 1)))
      swapped(b) == Amp(v, Swapped(b))
  IN IF g.name = "Swap" THEN Quad(swapped) ELSE Quad(amplitude)

(* A unitary is what it makes of each basis state. *)
Identity == Quad(LAMBDA c : Quad(LAMBDA b : IF b = c THEN 1 ELSE 0))
Then(u, g) == Quad(LAMBDA c : Applied(g, Amp(u, c)))
After(u, circuit) ==
  LET upto[k \in 0 .. Len(circuit)] == IF k = 0 THEN u ELSE Then(upto[k - 1], circuit[k])
  IN upto[Len(circuit)]

(* Equality up to a global phase, which no measurement can see. *)
SameUpToPhase(u, w) ==
  \E k \in 0 .. Turn - 1 :
    \A c \in 0 .. 3, b \in 0 .. 3 : Amp(Amp(u, c), b) = Mod(Zeta(k) * Amp(Amp(w, c), b))
=============================================================================
