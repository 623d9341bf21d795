------------------------------ MODULE QbVisitor ------------------------------
(* The visitors that turn a circuit into the gates Quantum Brilliance        *)
(* hardware has: Rx, Ry and either CZ (visitor_CZ) or the anti-controlled Z  *)
(* (visitor_ACZ), in src/src/backends/hardware/qb.  Each handler is the      *)
(* sequence of native gates it pushes to sequence_.                          *)
(*                                                                           *)
(* Angles are counted in units of pi/4, as in Unitaries.                     *)
EXTENDS Unitaries

Pi == 4

CONSTANT NotANumber   \* the angle a quotient 0 / 0 becomes
ASSUME NotANumberIsNone == NotANumber \notin Int

-----------------------------------------------------------------------------
(* Gates on one qubit, the same for both visitors (visitor.cpp).             *)

(* std::fmod truncates: its result has the sign of its first argument.       *)
Sign(a) == IF a < 0 THEN -1 ELSE 1
fmod(a, b) == Sign(a) * ((Sign(a) * a) % b)

(* Variation: the period is two turns, after which a spin is itself again. *)
norm_TwoTurns(a, restricted) ==
  IF restricted /\ a # NotANumber THEN fmod(a + Sign(a) * 2 * Pi, 4 * Pi) - Sign(a) * 2 * Pi ELSE a

(* Angles are brought into [-pi, pi], unless the visitor is told not to.     *)
norm(a, restricted) ==
  IF restricted /\ a # NotANumber THEN fmod(a + Sign(a) * Pi, 2 * Pi) - Sign(a) * Pi ELSE a

Rx(q, a, restricted) == <<Gate("Rx", <<q>>, <<norm(a, restricted)>>)>>
Ry(q, a, restricted) == <<Gate("Ry", <<q>>, <<norm(a, restricted)>>)>>

(* Variation: the last Ry turns on instead of back. *)
Rz_NotBack(q, a, r) == Ry(q, 2, r) \o Rx(q, norm(a, r), r) \o Ry(q, 2, r)

Rz(q, a, r) == Ry(q, 2, r) \o Rx(q, norm(a, r), r) \o Ry(q, -2, r)
Hadamard(q, r) == Ry(q, 2, r) \o Rx(q, Pi, r)
PauliX(q, r) == Rx(q, Pi, r)
PauliY(q, r) == Ry(q, Pi, r)
PauliZ(q, r) == Rx(q, Pi, r) \o Ry(q, Pi, r)

(* S, Sdg, T and Tdg are an Rz by half a pi, a quarter, and back.            *)
PhaseAngle == [S |-> 2, Sdg |-> -2, T |-> 1, Tdg |-> -1]

-----------------------------------------------------------------------------
(* U(theta, phi, lambda) as Rx Ry Rx, its angles found by arccos and arctan  *)
(* in floating point.  theta, phi and lambda are multiples of pi/2 here, so  *)
(* that delta, delta_prime and 0.5*theta are multiples of pi/4.              *)
(*                                                                           *)
(* A double is its sign and its order: 0 what is about 1 in size (where      *)
(* sqrt(1/2) occurs it cancels), 1 what should be 0 but is not quite, like   *)
(* cos(pi/2), -1 what should be infinite, Exact an exact zero.  rough says   *)
(* that the size was got by cancelling the two, and may be anything.         *)
Exact == 9
Double(sign, order) == [sign |-> sign, order |-> order, rough |-> FALSE]

(* sin of k pi/4: exact at 0, elsewhere the argument is a little nearer to 0 *)
(* than the multiple of pi it stands for; so is that of cos.                 *)
sin(k) ==
  LET n == Sign(k) * k
  IN IF k = 0 THEN Double(1, Exact)
     ELSE IF n % 4 = 0 THEN Double(Sign(k) * (IF n % 8 = 4 THEN 1 ELSE -1), 1)
     ELSE Double(Sign(k) * (IF n % 8 < 4 THEN 1 ELSE -1), 0)
cos(k) ==
  LET n == (Sign(k) * k) % 8
  IN IF n \in {2, 6} THEN Double(IF n = 2 THEN 1 ELSE -1, 1)
     ELSE Double(IF n \in {0, 1, 7} THEN 1 ELSE -1, 0)

Opposite(x) == [x EXCEPT !.sign = -@]
Zero(x) == x.order >= 5
Product(x, y) ==
  [sign |-> x.sign * y.sign, order |-> x.order + y.order,
   rough |-> x.order + y.order = 0 /\ (x.order # 0 \/ x.rough \/ y.rough)]
Quotient(x, y) == Product(x, [y EXCEPT !.order = -@])
tan(k) == Quotient(sin(k), cos(k))

(* The possible arctangents of x / y: 0 / 0 is not a number.                 *)
arctan(x, y) ==
  LET q == Quotient(x, y)
  IN IF Zero(x) /\ Zero(y) THEN {NotANumber}
     ELSE IF q.order > 0 THEN {0}
     ELSE IF q.order < 0 THEN {2 * q.sign}
     ELSE IF q.rough THEN {0, q.sign, 2 * q.sign} ELSE {q.sign}

(* A term whose test is below 0 is moved by pi, up or down: Rx is the same   *)
(* for both up to a phase.                                                   *)
Corrected(term, test) ==
  IF term # NotANumber /\ ~ Zero(test) /\ test.sign < 0 THEN term - Sign(term) * Pi ELSE term

(* Twice the square of cos(k pi/4), and of sin.                              *)
CosSquared(k) == IF k % 4 = 0 THEN 2 ELSE IF k % 2 = 1 THEN 1 ELSE 0
SinSquared(k) == 2 - CosSquared(k)

(* The triples of angles U may come out as.                                  *)
Angles(theta, phi, lambda) ==
  LET half == theta \div 2
      delta == (lambda + phi) \div 2
      deltaPrime == (lambda - phi) \div 2
      squared == CosSquared(delta) * CosSquared(half) + SinSquared(deltaPrime) * SinSquared(half)
      beta == IF squared = 0 THEN Pi ELSE IF squared = 4 THEN 0 ELSE 2
      first == arctan(Product(sin(deltaPrime), tan(half)), cos(delta))
      second == arctan(Opposite(sin(delta)), Product(cos(deltaPrime), tan(half)))
      term1 == {Corrected(t, Product(cos(delta), cos(half))) : t \in first}
      term2 == {Corrected(t, Product(cos(deltaPrime), sin(half))) : t \in second}
      sum(s, t) == IF NotANumber \in {s, t} THEN NotANumber ELSE s + t
  IN {<<sum(s, t), beta, sum(s, IF t = NotANumber THEN t ELSE -t)>> : s \in term1, t \in term2}

(* The sequences U may push.                                                 *)
U(q, theta, phi, lambda, r) ==
  IF lambda + phi = 0 /\ lambda = 2 THEN {Rx(q, theta, r)}
  ELSE IF phi = 0 /\ lambda = 0 THEN {Ry(q, theta, r)}
  ELSE {Rx(q, a[1], r) \o Ry(q, a[2], r) \o Rx(q, a[3], r) : a \in Angles(theta, phi, lambda)}

-----------------------------------------------------------------------------
(* Gates on two qubits, control c and target t.                              *)

Native(name, a, b) == <<Gate(name, <<a, b>>, <<>>)>>

(* visitor_CZ.cpp *)
CZ_ACZ(c, t, r) == PauliX(c, r) \o Native("CZ", c, t) \o PauliX(c, r)
CZ_CNOT(c, t, r) == Hadamard(t, r) \o Native("CZ", c, t) \o Hadamard(t, r)
CZ_CPhase(c, t, angle, r) ==
  LET size == Sign(angle) * angle
      lambda == Sign(angle) * (size \div 2 - Pi)
  IN Rx(c, 2, r) \o Ry(c, -(angle \div 2), r) \o Rx(c, -2, r)
       \o Ry(t, 2, r) \o Rx(t, Pi, r)
       \o Native("CZ", c, t) \o Rx(t, -(angle \div 2), r) \o Native("CZ", c, t)
       \o Rx(t, lambda, r) \o Ry(t, -2, r)
CZ_Swap(a, b, r) ==
  LET third == Rx(a, 2, r) \o Rx(b, 2, r) \o Native("CZ", a, b)
  IN third \o third \o third

(* visitor_ACZ.cpp; the hardware's CZ(q[c],q[t],c[01]) is ACZ here.          *)
ACZ_CZ(c, t, r) == PauliX(c, r) \o Native("ACZ", c, t) \o PauliX(c, r)
ACZ_CNOT(c, t, r) == Ry(t, 2, r) \o Native("ACZ", t, c) \o Ry(t, -2, r)
ACZ_CPhase(c, t, angle, r) ==
  Rx(c, 2, r) \o Ry(c, -(angle \div 2), r) \o Rx(c, -2, r)
    \o Ry(t, 2, r)
    \o Native("ACZ", t, c) \o Rx(t, -(angle \div 2), r) \o Native("ACZ", t, c)
    \o Rx(t, angle \div 2, r) \o Ry(t, -2, r)
ACZ_Swap(a, b, r) ==
  LET third(first) == Rx(a, 2, r) \o Rx(b, first, r) \o Native("ACZ", b, a)
  IN third(-2) \o third(2) \o third(2) \o PauliX(b, r)

-----------------------------------------------------------------------------
(* What a handler may push for gate g; nothing for the gates AllGateVisitor  *)
(* has but the visitors do not override.                                     *)
QbOneQubit(g, r) ==
  LET q == g.on[1]
      a == IF g.angles = <<>> THEN 0 ELSE g.angles[1]
  IN CASE g.name = "I" -> {<<Gate("I", <<q>>, <<>>)>>}
       [] g.name = "Rx" -> {Rx(q, a, r)}
       [] g.name = "Ry" -> {Ry(q, a, r)}
       [] g.name = "Rz" -> {Rz(q, a, r)}
       [] g.name = "H" -> {Hadamard(q, r)}
       [] g.name = "X" -> {PauliX(q, r)}
       [] g.name = "Y" -> {PauliY(q, r)}
       [] g.name = "Z" -> {PauliZ(q, r)}
       [] g.name \in DOMAIN PhaseAngle -> {Rz(q, PhaseAngle[g.name], r)}
       [] g.name = "U" -> U(q, a, g.angles[2], g.angles[3], r)
       [] OTHER -> {<<>>}

QbPushed(g, anti, r) ==
  LET c == g.on[1]
      t == g.on[2]
  IN CASE g.name = "CZ" -> {IF anti THEN ACZ_CZ(c, t, r) ELSE Native("CZ", c, t)}
       [] g.name = "ACZ" -> {IF anti THEN Native("ACZ", c, t) ELSE CZ_ACZ(c, t, r)}
       [] g.name = "CNOT" -> {IF anti THEN ACZ_CNOT(c, t, r) ELSE CZ_CNOT(c, t, r)}
       [] g.name = "CPhase" ->
            {IF anti THEN ACZ_CPhase(c, t, g.angles[1], r) ELSE CZ_CPhase(c, t, g.angles[1], r)}
       [] g.name = "Swap" -> {IF anti THEN ACZ_Swap(c, t, r) ELSE CZ_Swap(c, t, r)}
       [] OTHER -> QbOneQubit(g, r)
=============================================================================
