---------------------------- MODULE DeferralProofs ----------------------------
(* The gate deferral pass defers gates and changes nothing else: the circuit *)
(* it leaves computes what the circuit it was given computes, as long as the *)
(* walk steps around the one rewrite that is wrong (WalksStranding).         *)
(*                                                                           *)
(* First what Unitaries computes: numbers modulo Field, roots of unity,      *)
(* matrices on one qubit of a vector, gates in sequence.  Then, for each     *)
(* gate, the equations between matrices its handler relies on.  Then the     *)
(* handlers: each leaves a state of the pass that stands for what the state  *)
(* before stood for, followed by the gate.  Last the walk.                   *)
EXTENDS GateDeferral, InductionFacts

F == 0 .. Field - 1

(***************************************************************************)
(* Numbers modulo Field.                                                   *)
(***************************************************************************)

LEMMA ModType == \A x \in Int : Mod(x) \in F
BY DEF Mod, F, Field

LEMMA ModSmall == \A x \in F : Mod(x) = x
BY DEF Mod, F, Field

LEMMA ModShift == \A x, k \in Int : Mod(x + Field * k) = Mod(x)
BY DEF Mod, Field

LEMMA ModQuotient == \A x \in Int : \E k \in Int : x = Mod(x) + Field * k
<1> TAKE x \in Int
<1>1. x = Mod(x) + Field * (x \div Field) /\ x \div Field \in Int
  BY DEF Mod, Field
<1> QED BY <1>1

LEMMA ModEqual ==
  ASSUME NEW x \in Int, NEW y \in Int, NEW k \in Int, x = y + Field * k
  PROVE  Mod(x) = Mod(y)
BY ModShift

LEMMA ModTimes ==
  ASSUME NEW a \in Int, NEW x \in Int
  PROVE  Mod(a * Mod(x)) = Mod(a * x)
<1>1. PICK k \in Int : x = Mod(x) + Field * k
  BY ModQuotient
<1> DEFINE m == Mod(x)
<1>2. m \in Int
  BY ModType DEF F
<1> HIDE DEF m
<1>3. a * (m + Field * k) = a * m + Field * (a * k)
  BY <1>2 DEF Field
<1>4. a * m \in Int /\ a * k \in Int
  BY <1>2
<1>5. Mod(a * m + Field * (a * k)) = Mod(a * m)
  BY <1>4, ModShift
<1> QED BY <1>1, <1>3, <1>5 DEF m

LEMMA ModPlus ==
  ASSUME NEW x \in Int, NEW y \in Int
  PROVE  Mod(Mod(x) + Mod(y)) = Mod(x + y)
BY DEF Mod, Field

LEMMA ModSum ==
  ASSUME NEW x \in Int, NEW y \in Int, NEW u \in Int, NEW w \in Int,
         Mod(x) = Mod(u), Mod(y) = Mod(w)
  PROVE  Mod(x + y) = Mod(u + w)
BY ModPlus

LEMMA ModProduct ==
  ASSUME NEW x \in Int, NEW y \in Int, NEW u \in Int, NEW w \in Int,
         Mod(x) = Mod(u), Mod(y) = Mod(w)
  PROVE  Mod(x * y) = Mod(u * w)
<1>1. Mod(x * y) = Mod(x * Mod(w))
  BY ModTimes
<1>2. Mod(x * w) = Mod(w * Mod(u))
  <2>1. x * w = w * x
    OBVIOUS
  <2> QED BY <2>1, ModTimes
<1>3. Mod(w * u) = Mod(w * Mod(u)) /\ w * u = u * w
  BY ModTimes
<1> QED BY <1>1, <1>2, <1>3, ModTimes

SameTimes(a, c, x) == Mod(a) = Mod(c) => Mod(a * x) = Mod(c * x)

LEMMA ModFactor == \A a, c, x \in Int : SameTimes(a, c, x)
<1> TAKE a, c, x \in Int
<1>1. Mod(a * x) = Mod(x * Mod(a)) /\ Mod(c * x) = Mod(x * Mod(c))
  <2>1. a * x = x * a /\ c * x = x * c
    OBVIOUS
  <2> QED BY <2>1, ModTimes
<1> QED BY <1>1 DEF SameTimes

(* A row of a matrix meets a column that was computed before.                *)
LEMMA ModRow ==
  ASSUME NEW a \in Int, NEW b \in Int, NEW x \in Int, NEW y \in Int
  PROVE  Mod(a * Mod(x) + b * Mod(y)) = Mod(a * x + b * y)
<1>1. Mod(x) \in Int /\ Mod(y) \in Int
  BY ModType DEF F
<1>2. a * Mod(x) \in Int /\ b * Mod(y) \in Int /\ a * x \in Int /\ b * y \in Int
  BY <1>1
<1>3. Mod(a * Mod(x)) = Mod(a * x) /\ Mod(b * Mod(y)) = Mod(b * y)
  BY ModTimes
<1> QED BY <1>2, <1>3, ModSum

(***************************************************************************)
(* 2 x 2 matrices.                                                         *)
(***************************************************************************)
Mat == (Int \X Int) \X (Int \X Int)
Mul(m, n) ==
  <<<<m[1][1] * n[1][1] + m[1][2] * n[2][1], m[1][1] * n[1][2] + m[1][2] * n[2][2]>>,
    <<m[2][1] * n[1][1] + m[2][2] * n[2][1], m[2][1] * n[1][2] + m[2][2] * n[2][2]>>>>
Alike(m, n) ==
  /\ Mod(m[1][1]) = Mod(n[1][1]) /\ Mod(m[1][2]) = Mod(n[1][2])
  /\ Mod(m[2][1]) = Mod(n[2][1]) /\ Mod(m[2][2]) = Mod(n[2][2])
Diag(x, y) == <<<<x, 0>>, <<0, y>>>>
Times(k, m) == <<<<k * m[1][1], k * m[1][2]>>, <<k * m[2][1], k * m[2][2]>>>>

LEMMA MulType == \A m, n \in Mat : Mul(m, n) \in Mat
BY DEF Mat, Mul

LEMMA DiagType == \A x, y \in Int : Diag(x, y) \in Mat
BY DEF Mat, Diag

(***************************************************************************)
(* State vectors.  Act applies a matrix to a qubit, ActOn only where the   *)
(* other qubit is 1.                                                       *)
(***************************************************************************)
Vec == F \X F \X F \X F
Row(a, b, x, y) == Mod(a * x + b * y)
Pair(m, x, y) == <<Row(m[1][1], m[1][2], x, y), Row(m[2][1], m[2][2], x, y)>>
Act(q, m, v) ==
  IF q = 0
  THEN <<Row(m[1][1], m[1][2], v[1], v[2]), Row(m[2][1], m[2][2], v[1], v[2]),
         Row(m[1][1], m[1][2], v[3], v[4]), Row(m[2][1], m[2][2], v[3], v[4])>>
  ELSE <<Row(m[1][1], m[1][2], v[1], v[3]), Row(m[1][1], m[1][2], v[2], v[4]),
         Row(m[2][1], m[2][2], v[1], v[3]), Row(m[2][1], m[2][2], v[2], v[4])>>
ActOn(q, m, v) ==
  IF q = 0
  THEN <<v[1], v[2], Row(m[1][1], m[1][2], v[3], v[4]), Row(m[2][1], m[2][2], v[3], v[4])>>
  ELSE <<v[1], Row(m[1][1], m[1][2], v[2], v[4]), v[3], Row(m[2][1], m[2][2], v[2], v[4])>>
Exchanged(v) == <<v[1], v[3], v[2], v[4]>>
Phased(k, v) == <<Mod(k * v[1]), Mod(k * v[2]), Mod(k * v[3]), Mod(k * v[4])>>

LEMMA RowType == \A a, b, x, y \in Int : Row(a, b, x, y) \in F
<1> TAKE a, b, x, y \in Int
<1>1. a * x + b * y \in Int
  OBVIOUS
<1> QED BY <1>1, ModType DEF Row

LEMMA VecIsInt == \A v \in Vec : v[1] \in Int /\ v[2] \in Int /\ v[3] \in Int /\ v[4] \in Int
BY DEF Vec, F, Field

LEMMA MatIsInt ==
  \A m \in Mat : m[1][1] \in Int /\ m[1][2] \in Int /\ m[2][1] \in Int /\ m[2][2] \in Int
BY DEF Mat

LEMMA ActType == \A m \in Mat, v \in Vec : \A q : Act(q, m, v) \in Vec
BY RowType, VecIsInt, MatIsInt DEF Act, Vec

LEMMA ActOnType == \A m \in Mat, v \in Vec : \A q : ActOn(q, m, v) \in Vec
BY RowType, VecIsInt, MatIsInt DEF ActOn, Vec

LEMMA ExchangedType == \A v \in Vec : Exchanged(v) \in Vec
BY DEF Exchanged, Vec

LEMMA PhasedType == \A k \in Int, v \in Vec : Phased(k, v) \in Vec
<1> TAKE k \in Int, v \in Vec
<1>1. k * v[1] \in Int /\ k * v[2] \in Int /\ k * v[3] \in Int /\ k * v[4] \in Int
  BY VecIsInt
<1> QED BY <1>1, ModType DEF Phased, Vec

(* A row of a product of matrices.                                           *)
LEMMA Distribute ==
  ASSUME NEW a \in Int, NEW b \in Int, NEW c \in Int, NEW d \in Int, NEW e \in Int, NEW f \in Int,
         NEW x \in Int, NEW y \in Int
  PROVE  a * (c * x + d * y) + b * (e * x + f * y) = (a * c + b * e) * x + (a * d + b * f) * y
OBVIOUS

RowsMultiply(a, b, c, d, e, f, x, y) ==
  Row(a, b, Row(c, d, x, y), Row(e, f, x, y)) = Row(a * c + b * e, a * d + b * f, x, y)

LEMMA RowOfProduct == \A a, b, c, d, e, f, x, y \in Int : RowsMultiply(a, b, c, d, e, f, x, y)
<1> TAKE a, b, c, d, e, f, x, y \in Int
<1>1. c * x + d * y \in Int /\ e * x + f * y \in Int
  OBVIOUS
<1>2. Row(a, b, Row(c, d, x, y), Row(e, f, x, y)) = Mod(a * (c * x + d * y) + b * (e * x + f * y))
  BY <1>1, ModRow DEF Row
<1> QED BY <1>2, Distribute DEF Row, RowsMultiply

LEMMA MatParts ==
  ASSUME NEW m \in Mat
  PROVE  \E a, b, c, d \in Int : m = <<<<a, b>>, <<c, d>>>>
BY DEF Mat

LEMMA VecParts ==
  ASSUME NEW v \in Vec
  PROVE  \E x, y, z, w \in F : v = <<x, y, z, w>>
BY DEF Vec

LEMMA FIsInt == F \subseteq Int
BY DEF F

(* One matrix after another on a qubit is their product.                     *)
LEMMA ActAct ==
  ASSUME NEW q, NEW m \in Mat, NEW n \in Mat, NEW v \in Vec
  PROVE  Act(q, m, Act(q, n, v)) = Act(q, Mul(m, n), v)
<1>1. PICK a, b, c, d \in Int : m = <<<<a, b>>, <<c, d>>>>
  BY MatParts
<1>2. PICK e, f, g, h \in Int : n = <<<<e, f>>, <<g, h>>>>
  BY MatParts
<1>3. PICK x, y, z, w \in F : v = <<x, y, z, w>>
  BY VecParts
<1>4. ASSUME NEW s \in Int, NEW t \in Int
      PROVE  /\ Row(a, b, Row(e, f, s, t), Row(g, h, s, t)) = Row(a * e + b * g, a * f + b * h, s, t)
             /\ Row(c, d, Row(e, f, s, t), Row(g, h, s, t)) = Row(c * e + d * g, c * f + d * h, s, t)
  <2>1. RowsMultiply(a, b, e, f, g, h, s, t) /\ RowsMultiply(c, d, e, f, g, h, s, t)
    BY RowOfProduct
  <2> QED BY <2>1 DEF RowsMultiply
<1>5. x \in Int /\ y \in Int /\ z \in Int /\ w \in Int
  BY FIsInt
<1>6. CASE q = 0
  BY <1>1, <1>2, <1>3, <1>4, <1>5, <1>6 DEF Act, Mul
<1>7. CASE q # 0
  BY <1>1, <1>2, <1>3, <1>4, <1>5, <1>7 DEF Act, Mul
<1> QED BY <1>6, <1>7

LEMMA ActOnActOn ==
  ASSUME NEW q, NEW m \in Mat, NEW n \in Mat, NEW v \in Vec
  PROVE  ActOn(q, m, ActOn(q, n, v)) = ActOn(q, Mul(m, n), v)
<1>1. PICK a, b, c, d \in Int : m = <<<<a, b>>, <<c, d>>>>
  BY MatParts
<1>2. PICK e, f, g, h \in Int : n = <<<<e, f>>, <<g, h>>>>
  BY MatParts
<1>3. PICK x, y, z, w \in F : v = <<x, y, z, w>>
  BY VecParts
<1>4. ASSUME NEW s \in Int, NEW t \in Int
      PROVE  /\ Row(a, b, Row(e, f, s, t), Row(g, h, s, t)) = Row(a * e + b * g, a * f + b * h, s, t)
             /\ Row(c, d, Row(e, f, s, t), Row(g, h, s, t)) = Row(c * e + d * g, c * f + d * h, s, t)
  <2>1. RowsMultiply(a, b, e, f, g, h, s, t) /\ RowsMultiply(c, d, e, f, g, h, s, t)
    BY RowOfProduct
  <2> QED BY <2>1 DEF RowsMultiply
<1>5. x \in Int /\ y \in Int /\ z \in Int /\ w \in Int
  BY FIsInt
<1>6. CASE q = 0
  BY <1>1, <1>2, <1>3, <1>4, <1>5, <1>6 DEF ActOn, Mul
<1>7. CASE q # 0
  BY <1>1, <1>2, <1>3, <1>4, <1>5, <1>7 DEF ActOn, Mul
<1> QED BY <1>6, <1>7

(* Matrices that agree modulo Field do the same.                             *)
LEMMA RowAlike ==
  ASSUME NEW a \in Int, NEW b \in Int, NEW c \in Int, NEW d \in Int, NEW x \in Int, NEW y \in Int,
         Mod(a) = Mod(c), Mod(b) = Mod(d)
  PROVE  Row(a, b, x, y) = Row(c, d, x, y)
<1>1. SameTimes(a, c, x) /\ SameTimes(b, d, y)
  BY ModFactor
<1>3. Mod(a * x) = Mod(c * x) /\ Mod(b * y) = Mod(d * y)
  BY <1>1 DEF SameTimes
<1>2. a * x \in Int /\ b * y \in Int /\ c * x \in Int /\ d * y \in Int
  OBVIOUS
<1> QED BY <1>1, <1>2, <1>3, ModSum DEF Row

LEMMA ActAlike ==
  ASSUME NEW q, NEW m \in Mat, NEW n \in Mat, NEW v \in Vec, Alike(m, n)
  PROVE  Act(q, m, v) = Act(q, n, v) /\ ActOn(q, m, v) = ActOn(q, n, v)
<1>1. PICK a, b, c, d \in Int : m = <<<<a, b>>, <<c, d>>>>
  BY MatParts
<1>2. PICK e, f, g, h \in Int : n = <<<<e, f>>, <<g, h>>>>
  BY MatParts
<1>3. PICK x, y, z, w \in F : v = <<x, y, z, w>>
  BY VecParts
<1>4. ASSUME NEW s \in Int, NEW t \in Int
      PROVE  Row(a, b, s, t) = Row(e, f, s, t) /\ Row(c, d, s, t) = Row(g, h, s, t)
  BY <1>1, <1>2, RowAlike DEF Alike
<1>5. x \in Int /\ y \in Int /\ z \in Int /\ w \in Int
  BY FIsInt
<1>6. CASE q = 0
  BY <1>1, <1>2, <1>3, <1>4, <1>5, <1>6 DEF Act, ActOn
<1>7. CASE q # 0
  BY <1>1, <1>2, <1>3, <1>4, <1>5, <1>7 DEF Act, ActOn
<1> QED BY <1>6, <1>7

(* A product read in two ways: what passes what.                             *)
LEMMA ActPasses ==
  ASSUME NEW q, NEW m \in Mat, NEW a \in Mat, NEW b \in Mat, NEW n \in Mat, NEW v \in Vec,
         Alike(Mul(m, a), Mul(b, n))
  PROVE  Act(q, m, Act(q, a, v)) = Act(q, b, Act(q, n, v))
BY ActAct, ActAlike, MulType

(* Matrices on different qubits commute.                                     *)
RowsCommute(a, b, e, f, x, y, z, w) ==
  Row(a, b, Row(e, f, x, y), Row(e, f, z, w)) = Row(e, f, Row(a, b, x, z), Row(a, b, y, w))

LEMMA Commute == \A a, b, e, f, x, y, z, w \in Int : RowsCommute(a, b, e, f, x, y, z, w)
<1> TAKE a, b, e, f, x, y, z, w \in Int
<1>1. /\ e * x + f * y \in Int /\ e * z + f * w \in Int
      /\ a * x + b * z \in Int /\ a * y + b * w \in Int
  OBVIOUS
<1>2. Row(a, b, Row(e, f, x, y), Row(e, f, z, w)) = Mod(a * (e * x + f * y) + b * (e * z + f * w))
  BY <1>1, ModRow DEF Row
<1>3. Row(e, f, Row(a, b, x, z), Row(a, b, y, w)) = Mod(e * (a * x + b * z) + f * (a * y + b * w))
  BY <1>1, ModRow DEF Row
<1>4. a * (e * x + f * y) + b * (e * z + f * w) = e * (a * x + b * z) + f * (a * y + b * w)
  OBVIOUS
<1> QED BY <1>2, <1>3, <1>4 DEF RowsCommute

LEMMA ActCommute ==
  ASSUME NEW m \in Mat, NEW n \in Mat, NEW v \in Vec
  PROVE  Act(0, m, Act(1, n, v)) = Act(1, n, Act(0, m, v))
<1>1. PICK a, b, c, d \in Int : m = <<<<a, b>>, <<c, d>>>>
  BY MatParts
<1>2. PICK e, f, g, h \in Int : n = <<<<e, f>>, <<g, h>>>>
  BY MatParts
<1>3. PICK x, y, z, w \in F : v = <<x, y, z, w>>
  BY VecParts
<1>5. x \in Int /\ y \in Int /\ z \in Int /\ w \in Int
  BY FIsInt
<1>6. RowsCommute(a, b, e, f, x, z, y, w) /\ RowsCommute(c, d, e, f, x, z, y, w)
  BY <1>5, Commute
<1>7. RowsCommute(a, b, g, h, x, z, y, w) /\ RowsCommute(c, d, g, h, x, z, y, w)
  BY <1>5, Commute
<1>8. /\ Act(0, m, v) = <<Row(a, b, x, y), Row(c, d, x, y), Row(a, b, z, w), Row(c, d, z, w)>>
      /\ Act(1, n, v) = <<Row(e, f, x, z), Row(e, f, y, w), Row(g, h, x, z), Row(g, h, y, w)>>
  BY <1>1, <1>2, <1>3 DEF Act
<1>9. Act(0, m, Act(1, n, v)) =
        <<Row(a, b, Row(e, f, x, z), Row(e, f, y, w)), Row(c, d, Row(e, f, x, z), Row(e, f, y, w)),
          Row(a, b, Row(g, h, x, z), Row(g, h, y, w)), Row(c, d, Row(g, h, x, z), Row(g, h, y, w))>>
  BY <1>1, <1>8 DEF Act
<1>10. Act(1, n, Act(0, m, v)) =
         <<Row(e, f, Row(a, b, x, y), Row(a, b, z, w)), Row(e, f, Row(c, d, x, y), Row(c, d, z, w)),
           Row(g, h, Row(a, b, x, y), Row(a, b, z, w)), Row(g, h, Row(c, d, x, y), Row(c, d, z, w))>>
  BY <1>2, <1>8 DEF Act
<1> QED BY <1>6, <1>7, <1>9, <1>10 DEF RowsCommute

(* A phase may come before or after.                                         *)
LEMMA RowPhased ==
  ASSUME NEW k \in Int, NEW a \in Int, NEW b \in Int, NEW x \in Int, NEW y \in Int
  PROVE  Row(a, b, Mod(k * x), Mod(k * y)) = Mod(k * Row(a, b, x, y))
<1>1. k * x \in Int /\ k * y \in Int /\ a * x + b * y \in Int
  OBVIOUS
<1>2. Row(a, b, Mod(k * x), Mod(k * y)) = Mod(a * (k * x) + b * (k * y))
  BY <1>1, ModRow DEF Row
<1>3. Mod(k * Row(a, b, x, y)) = Mod(k * (a * x + b * y))
  BY <1>1, ModTimes DEF Row
<1>4. a * (k * x) + b * (k * y) = k * (a * x + b * y)
  OBVIOUS
<1> QED BY <1>2, <1>3, <1>4

LEMMA ActPhased ==
  ASSUME NEW q, NEW m \in Mat, NEW k \in Int, NEW v \in Vec
  PROVE  /\ Act(q, m, Phased(k, v)) = Phased(k, Act(q, m, v))
         /\ ActOn(q, m, Phased(k, v)) = Phased(k, ActOn(q, m, v))
         /\ Exchanged(Phased(k, v)) = Phased(k, Exchanged(v))
<1>1. PICK a, b, c, d \in Int : m = <<<<a, b>>, <<c, d>>>>
  BY MatParts
<1>3. PICK x, y, z, w \in F : v = <<x, y, z, w>>
  BY VecParts
<1>5. x \in Int /\ y \in Int /\ z \in Int /\ w \in Int
  BY FIsInt
<1>4. ASSUME NEW s \in Int, NEW t \in Int
      PROVE  /\ Row(a, b, Mod(k * s), Mod(k * t)) = Mod(k * Row(a, b, s, t))
             /\ Row(c, d, Mod(k * s), Mod(k * t)) = Mod(k * Row(c, d, s, t))
  BY RowPhased
<1>6. CASE q = 0
  BY <1>1, <1>3, <1>4, <1>5, <1>6 DEF Act, ActOn, Exchanged, Phased
<1>7. CASE q # 0
  BY <1>1, <1>3, <1>4, <1>5, <1>7 DEF Act, ActOn, Exchanged, Phased
<1> QED BY <1>6, <1>7

LEMMA PhasedPhased ==
  ASSUME NEW k \in Int, NEW l \in Int, NEW v \in Vec
  PROVE  Phased(k, Phased(l, v)) = Phased(k * l, v)
<1>1. ASSUME NEW x \in Int PROVE Mod(k * Mod(l * x)) = Mod((k * l) * x)
  <2>1. l * x \in Int /\ k * (l * x) = (k * l) * x
    OBVIOUS
  <2> QED BY <2>1, ModTimes
<1> QED BY <1>1, VecIsInt DEF Phased

LEMMA PhasedAlike ==
  ASSUME NEW k \in Int, NEW l \in Int, NEW v \in Vec, Mod(k) = Mod(l)
  PROVE  Phased(k, v) = Phased(l, v)
<1>1. ASSUME NEW x \in Int PROVE Mod(k * x) = Mod(l * x)
  <2>1. SameTimes(k, l, x)
    BY ModFactor
  <2> QED BY <2>1 DEF SameTimes
<1> QED BY <1>1, VecIsInt DEF Phased

LEMMA PhasedOne == ASSUME NEW v \in Vec PROVE Phased(1, v) = v
<1>1. PICK x, y, z, w \in F : v = <<x, y, z, w>>
  BY VecParts
<1>2. 1 * x = x /\ 1 * y = y /\ 1 * z = z /\ 1 * w = w
  BY FIsInt
<1> QED BY <1>1, <1>2, ModSmall DEF Phased

(* Where the other qubit is 1, a matrix passes another as if that were on    *)
(* the same states only.                                                     *)
LEMMA ActOnPasses ==
  ASSUME NEW q \in {0, 1}, NEW m \in Mat, NEW a \in Mat, NEW n \in Mat, NEW v \in Vec,
         Alike(Mul(m, a), Mul(a, n))
  PROVE  ActOn(q, m, Act(q, a, v)) = Act(q, a, ActOn(q, n, v))
<1>1. PICK x, y, z, w \in F : v = <<x, y, z, w>>
  BY VecParts
<1> DEFINE top(u) == IF q = 0 THEN <<u[1], u[2]>> ELSE <<u[1], u[3]>>
           low(u) == IF q = 0 THEN <<u[3], u[4]>> ELSE <<u[2], u[4]>>
           both(s, t) == IF q = 0 THEN <<s[1], s[2], t[1], t[2]>> ELSE <<s[1], t[1], s[2], t[2]>>
<1>2. ASSUME NEW u \in Vec, NEW p \in Mat
      PROVE  /\ Act(q, p, u) = both(Pair(p, top(u)[1], top(u)[2]), Pair(p, low(u)[1], low(u)[2]))
             /\ ActOn(q, p, u) = both(top(u), Pair(p, low(u)[1], low(u)[2]))
  BY DEF Act, ActOn, Pair
<1>3. ASSUME NEW p \in Mat, NEW r \in Mat, NEW s \in Int, NEW t \in Int
      PROVE  Pair(p, Pair(r, s, t)[1], Pair(r, s, t)[2]) = Pair(Mul(p, r), s, t)
  <2>1. PICK a1, b1, c1, d1 \in Int : p = <<<<a1, b1>>, <<c1, d1>>>>
    BY MatParts
  <2>2. PICK e, f, g, h \in Int : r = <<<<e, f>>, <<g, h>>>>
    BY MatParts
  <2>3. RowsMultiply(a1, b1, e, f, g, h, s, t) /\ RowsMultiply(c1, d1, e, f, g, h, s, t)
    BY RowOfProduct
  <2> QED BY <2>1, <2>2, <2>3 DEF RowsMultiply, Pair, Mul
<1>4. Pair(Mul(m, a), low(v)[1], low(v)[2]) = Pair(Mul(a, n), low(v)[1], low(v)[2])
  <2>1. low(v)[1] \in Int /\ low(v)[2] \in Int
    BY VecIsInt
  <2>2. Mul(m, a) \in Mat /\ Mul(a, n) \in Mat
    BY MulType
  <2> HIDE DEF low
  <2>3. /\ Row(Mul(m, a)[1][1], Mul(m, a)[1][2], low(v)[1], low(v)[2])
             = Row(Mul(a, n)[1][1], Mul(a, n)[1][2], low(v)[1], low(v)[2])
        /\ Row(Mul(m, a)[2][1], Mul(m, a)[2][2], low(v)[1], low(v)[2])
             = Row(Mul(a, n)[2][1], Mul(a, n)[2][2], low(v)[1], low(v)[2])
    BY <2>1, <2>2, MatIsInt, RowAlike DEF Alike
  <2> QED BY <2>3 DEF Pair
<1>5. low(v)[1] \in Int /\ low(v)[2] \in Int /\ top(v)[1] \in Int /\ top(v)[2] \in Int
  BY VecIsInt
<1>6. Act(q, a, v) \in Vec /\ ActOn(q, n, v) \in Vec
  BY ActType, ActOnType
<1>7. /\ top(Act(q, a, v)) = Pair(a, top(v)[1], top(v)[2])
      /\ low(Act(q, a, v)) = Pair(a, low(v)[1], low(v)[2])
      /\ top(ActOn(q, n, v)) = top(v)
      /\ low(ActOn(q, n, v)) = Pair(n, low(v)[1], low(v)[2])
  BY DEF Act, ActOn, Pair
<1> HIDE DEF top, low, both
<1> QED BY <1>2, <1>3, <1>4, <1>5, <1>6, <1>7

(* A factor of a controlled matrix is a phase of the control.                *)
LEMMA FactorToControl ==
  ASSUME NEW q \in {0, 1}, NEW m \in Mat, NEW k \in Int, NEW v \in Vec
  PROVE  ActOn(q, m, Act(1 - q, Diag(1, k), v)) = ActOn(q, Times(k, m), v)
<1>1. PICK a, b, c, d \in Int : m = <<<<a, b>>, <<c, d>>>>
  BY MatParts
<1>2. PICK x, y, z, w \in F : v = <<x, y, z, w>>
  BY VecParts
<1>3. x \in Int /\ y \in Int /\ z \in Int /\ w \in Int
  BY FIsInt
<1>4. ASSUME NEW s \in F, NEW t \in Int PROVE Row(1, 0, s, t) = s
  <2>1. 1 * s + 0 * t = s
    BY FIsInt
  <2> QED BY <2>1, ModSmall DEF Row
<1>5. ASSUME NEW s \in Int, NEW t \in Int PROVE Row(0, k, s, t) = Mod(k * t)
  <2>1. 0 * s + k * t = k * t
    OBVIOUS
  <2> QED BY <2>1 DEF Row
<1>6. ASSUME NEW e \in Int, NEW f \in Int, NEW s \in Int, NEW t \in Int
      PROVE  Row(e, f, Mod(k * s), Mod(k * t)) = Row(k * e, k * f, s, t)
  <2>1. k * s \in Int /\ k * t \in Int /\ e * s + f * t \in Int
    OBVIOUS
  <2>2. Row(e, f, Mod(k * s), Mod(k * t)) = Mod(e * (k * s) + f * (k * t))
    BY <2>1, ModRow DEF Row
  <2>3. e * (k * s) + f * (k * t) = (k * e) * s + (k * f) * t
    OBVIOUS
  <2> QED BY <2>2, <2>3 DEF Row
<1>7. CASE q = 0
  <2>1. Act(1 - q, Diag(1, k), v) = <<x, y, Mod(k * z), Mod(k * w)>>
    BY <1>2, <1>3, <1>4, <1>5, <1>7 DEF Act, Diag
  <2>2. ActOn(q, m, <<x, y, Mod(k * z), Mod(k * w)>>) = ActOn(q, Times(k, m), v)
    BY <1>1, <1>2, <1>3, <1>6, <1>7 DEF ActOn, Times
  <2> QED BY <2>1, <2>2
<1>8. CASE q = 1
  <2>1. Act(1 - q, Diag(1, k), v) = <<x, Mod(k * y), z, Mod(k * w)>>
    BY <1>2, <1>3, <1>4, <1>5, <1>8 DEF Act, Diag
  <2>2. ActOn(q, m, <<x, Mod(k * y), z, Mod(k * w)>>) = ActOn(q, Times(k, m), v)
    BY <1>1, <1>2, <1>3, <1>6, <1>8 DEF ActOn, Times
  <2> QED BY <2>1, <2>2
<1> QED BY <1>7, <1>8

(* A controlled phase has no target.                                         *)
LEMMA ControlledPhase ==
  ASSUME NEW k \in Int, NEW v \in Vec
  PROVE  ActOn(0, Diag(1, k), v) = ActOn(1, Diag(1, k), v)
<1>1. PICK x, y, z, w \in F : v = <<x, y, z, w>>
  BY VecParts
<1>2. ASSUME NEW s \in F, NEW t \in Int PROVE Row(1, 0, s, t) = s
  <2>1. 1 * s + 0 * t = s
    BY FIsInt
  <2> QED BY <2>1, ModSmall DEF Row
<1>3. ASSUME NEW s \in Int, NEW t \in Int PROVE Row(0, k, s, t) = Mod(k * t)
  <2>1. 0 * s + k * t = k * t
    OBVIOUS
  <2> QED BY <2>1 DEF Row
<1>4. x \in Int /\ y \in Int /\ z \in Int /\ w \in Int
  BY FIsInt
<1> QED BY <1>1, <1>2, <1>3, <1>4 DEF ActOn, Diag

(* The qubits exchanged.                                                     *)
LEMMA ExchangedAct ==
  ASSUME NEW q \in {0, 1}, NEW m \in Mat, NEW v \in Vec
  PROVE  Exchanged(Act(q, m, v)) = Act(1 - q, m, Exchanged(v))
BY DEF Exchanged, Act

RowTimes(k, e, f, s, t) == Row(k * e, k * f, s, t) = Mod(k * Row(e, f, s, t))

LEMMA FactorOfRow == \A k, e, f, s, t \in Int : RowTimes(k, e, f, s, t)
<1> TAKE k, e, f, s, t \in Int
<1>1. e * s + f * t \in Int /\ (k * e) * s + (k * f) * t = k * (e * s + f * t)
  OBVIOUS
<1>2. Mod(k * Mod(e * s + f * t)) = Mod(k * (e * s + f * t))
  BY <1>1, ModTimes
<1> QED BY <1>1, <1>2 DEF Row, RowTimes

LEMMA ActTimes ==
  ASSUME NEW q, NEW m \in Mat, NEW k \in Int, NEW v \in Vec
  PROVE  Act(q, Times(k, m), v) = Phased(k, Act(q, m, v))
<1>1. PICK a, b, c, d \in Int : m = <<<<a, b>>, <<c, d>>>>
  BY MatParts
<1>2. PICK x, y, z, w \in F : v = <<x, y, z, w>>
  BY VecParts
<1>3. x \in Int /\ y \in Int /\ z \in Int /\ w \in Int
  BY FIsInt
<1>4. CASE q = 0
  <2>1. /\ RowTimes(k, a, b, x, y) /\ RowTimes(k, a, b, z, w)
        /\ RowTimes(k, c, d, x, y) /\ RowTimes(k, c, d, z, w)
    BY <1>3, FactorOfRow
  <2> QED BY <1>1, <1>2, <1>4, <2>1 DEF Act, Times, Phased, RowTimes
<1>5. CASE q # 0
  <2>1. /\ RowTimes(k, a, b, x, z) /\ RowTimes(k, a, b, y, w)
        /\ RowTimes(k, c, d, x, z) /\ RowTimes(k, c, d, y, w)
    BY <1>3, FactorOfRow
  <2> QED BY <1>1, <1>2, <1>5, <2>1 DEF Act, Times, Phased, RowTimes
<1> QED BY <1>4, <1>5

(***************************************************************************)
(* Powers of the root of unity.                                            *)
(***************************************************************************)

LEMMA ZetaType == \A k \in Int : Zeta(k) \in F
BY DEF Zeta, ZetaTo, F, Field, Turn

LEMMA ZetaInt == \A k \in Int : Zeta(k) \in Int
BY ZetaType DEF F

LEMMA ZetaTurn == \A k, j \in Int : k % Turn = j % Turn => Zeta(k) = Zeta(j)
BY DEF Zeta

LEMMA ZetaNext == \A k \in Int : Zeta(k + 1) = Mod(2 * Zeta(k))
<1> TAKE k \in Int
<1>1. k % 16 \in 0 .. 15 /\ (k + 1) % 16 = (IF k % 16 = 15 THEN 0 ELSE (k % 16) + 1)
  OBVIOUS
<1> DEFINE j == k % 16
<1>2. j \in 0 .. 15 /\ (k + 1) % 16 = (IF j = 15 THEN 0 ELSE j + 1)
  BY <1>1
<1> SUFFICES ZetaTo[1 + (IF j = 15 THEN 0 ELSE j + 1)] = Mod(2 * ZetaTo[1 + j])
  BY <1>2 DEF Zeta, Turn
<1> HIDE DEF j
<1>3. j = 0 \/ j = 1 \/ j = 2 \/ j = 3 \/ j = 4 \/ j = 5 \/ j = 6 \/ j = 7 \/ j = 8
      \/ j = 9 \/ j = 10 \/ j = 11 \/ j = 12 \/ j = 13 \/ j = 14 \/ j = 15
  BY <1>2
<1> QED BY <1>3 DEF ZetaTo, Mod, Field

LEMMA ZetaValues == Zeta(0) = 1 /\ Zeta(2) = 4 /\ Zeta(-2) = 193 /\ Zeta(4) = 16 /\ Zeta(8) = 256
<1>1. 0 % 16 = 0 /\ 2 % 16 = 2 /\ (-2) % 16 = 14 /\ 4 % 16 = 4 /\ 8 % 16 = 8
  <2>1. \A k \in Int : k + 2 = 0 => k % 16 = 14
    OBVIOUS
  <2>2. (-2) \in Int /\ (-2) + 2 = 0
    OBVIOUS
  <2>3. (-2) % 16 = 14
    BY <2>1, <2>2
  <2>4. 0 % 16 = 0 /\ 2 % 16 = 2 /\ 4 % 16 = 4 /\ 8 % 16 = 8
    OBVIOUS
  <2> QED BY <2>3, <2>4
<1>2. ZetaTo[1] = 1 /\ ZetaTo[3] = 4 /\ ZetaTo[15] = 193 /\ ZetaTo[5] = 16 /\ ZetaTo[9] = 256
  BY DEF ZetaTo
<1> QED BY <1>1, <1>2 DEF Zeta, Turn

LEMMA ZetaSum == \A a, b \in Int : Zeta(a + b) = Mod(Zeta(a) * Zeta(b))
<1> SUFFICES ASSUME NEW a \in Int, NEW b \in Int PROVE Zeta(a + b) = Mod(Zeta(a) * Zeta(b))
  OBVIOUS
<1> DEFINE S == {j \in Nat : Zeta(a + j) = Mod(Zeta(a) * Zeta(j))}
<1>1. 0 \in S
  <2>1. Zeta(a) * 1 = Zeta(a) /\ Mod(Zeta(a)) = Zeta(a) /\ a + 0 = a
    BY ZetaType, ZetaInt, ModSmall
  <2> QED BY <2>1, ZetaValues
<1>2. ASSUME NEW j \in S PROVE j + 1 \in S
  <2>1. j \in Nat /\ a + j \in Int /\ j \in Int /\ Zeta(a) \in Int /\ Zeta(j) \in Int
    BY ZetaInt
  <2>2. Zeta((a + j) + 1) = Mod(2 * Mod(Zeta(a) * Zeta(j))) /\ Zeta(j + 1) = Mod(2 * Zeta(j))
    BY <2>1, ZetaNext
  <2> DEFINE x == Zeta(a)
             y == Zeta(j)
  <2>3. x \in Int /\ y \in Int
    BY <2>1
  <2> HIDE DEF x, y
  <2>4. x * y \in Int /\ 2 * y \in Int /\ 2 * (x * y) = x * (2 * y)
    BY <2>3
  <2>5. Mod(2 * Mod(x * y)) = Mod(x * Mod(2 * y))
    BY <2>3, <2>4, ModTimes
  <2>6. Zeta((a + j) + 1) = Mod(Zeta(a) * Zeta(j + 1))
    BY <2>2, <2>5 DEF x, y
  <2> QED BY <2>1, <2>6
<1>3. b % Turn \in Nat /\ (b % Turn) % Turn = b % Turn /\ (a + (b % Turn)) % Turn = (a + b) % Turn
      /\ a + (b % Turn) \in Int /\ b % Turn \in Int
  BY DEF Turn
<1>4. b % Turn \in S
  <2>1. S \in SUBSET Nat
    OBVIOUS
  <2> HIDE DEF S
  <2>2. 0 .. b % Turn \subseteq S
    BY <1>1, <1>2, <1>3, <2>1, Induction
  <2> QED BY <1>3, <2>2
<1>5. Zeta(a + (b % Turn)) = Zeta(a + b) /\ Zeta(b % Turn) = Zeta(b)
  BY <1>3, ZetaTurn
<1>6. Zeta(a + (b % Turn)) = Mod(Zeta(a) * Zeta(b % Turn))
  BY <1>4
<1> QED BY <1>5, <1>6

(***************************************************************************)
(* Cosine and sine of half an angle.                                       *)
(***************************************************************************)

LEMMA Constants == Imag = 16 /\ Half = 129 /\ InvSqrt2 = 227
BY ZetaValues DEF Imag, Half, InvSqrt2, Mod, Field

LEMMA CosSinForm ==
  ASSUME NEW a \in Int
  PROVE  CosHalf(a) = Mod((Zeta(a) + Zeta(-a)) * 129) /\ SinHalf(a) = Mod((Zeta(-a) - Zeta(a)) * 8)
<1>1. Zeta(a) \in Int /\ Zeta(-a) \in Int
  BY ZetaInt
<1>2. Mod((Zeta(-a) - Zeta(a)) * 129 * 16) = Mod((Zeta(-a) - Zeta(a)) * 8)
  BY <1>1 DEF Mod, Field
<1> QED BY <1>2, Constants DEF CosHalf, SinHalf

LEMMA CosSinType == \A a \in Int : CosHalf(a) \in F /\ SinHalf(a) \in F
<1> TAKE a \in Int
<1>1. Zeta(a) \in Int /\ Zeta(-a) \in Int
  BY ZetaInt
<1> QED BY <1>1, CosSinForm, ModType

LEMMA CosSinMinus ==
  ASSUME NEW a \in Int
  PROVE  CosHalf(-a) = CosHalf(a) /\ SinHalf(-a) = Mod(-SinHalf(a))
<1>1. Zeta(a) \in Int /\ Zeta(-a) \in Int /\ -a \in Int /\ -(-a) = a
  BY ZetaInt
<1>2. Mod((Zeta(a) - Zeta(-a)) * 8) = Mod(-Mod((Zeta(-a) - Zeta(a)) * 8))
  BY <1>1 DEF Mod, Field
<1>3. Zeta(-a) + Zeta(a) = Zeta(a) + Zeta(-a)
  BY <1>1
<1>4. CosHalf(-a) = Mod((Zeta(-a) + Zeta(-(-a))) * 129) /\ SinHalf(-a) = Mod((Zeta(-(-a)) - Zeta(-a)) * 8)
  BY <1>1, CosSinForm
<1> QED BY <1>1, <1>2, <1>3, <1>4, CosSinForm

LEMMA CosSinTurn ==
  ASSUME NEW a \in Int, NEW b \in Int, a % Turn = b % Turn
  PROVE  CosHalf(a) = CosHalf(b) /\ SinHalf(a) = SinHalf(b)
<1>1. (-a) % Turn = (-b) % Turn /\ -a \in Int /\ -b \in Int
  BY DEF Turn
<1>2. Zeta(a) = Zeta(b) /\ Zeta(-a) = Zeta(-b)
  BY <1>1, ZetaTurn
<1> QED BY <1>2 DEF CosHalf, SinHalf

LEMMA CosSinZero == CosHalf(0) = 1 /\ SinHalf(0) = 0
BY ZetaValues, Constants DEF CosHalf, SinHalf, Mod, Field

LEMMA SumOfAngles ==
  ASSUME NEW z \in Int, NEW y \in Int, NEW w \in Int, NEW v \in Int
  PROVE  /\ Mod((Mod(z * w) + Mod(y * v)) * 129)
              = Mod(((z + y) * 129) * ((w + v) * 129) - ((y - z) * 8) * ((v - w) * 8))
         /\ Mod((Mod(y * v) - Mod(z * w)) * 8)
              = Mod(((y - z) * 8) * ((w + v) * 129) + ((z + y) * 129) * ((v - w) * 8))
<1> DEFINE p == z * w
           r == y * v
           s == z * v + y * w
<1>1. p \in Int /\ r \in Int /\ s \in Int
  OBVIOUS
<1>2. /\ ((z + y) * 129) * ((w + v) * 129) = 16641 * (p + r + s)
      /\ ((y - z) * 8) * ((v - w) * 8) = 64 * (p + r - s)
  OBVIOUS
<1>3. ((y - z) * 8) * ((w + v) * 129) + ((z + y) * 129) * ((v - w) * 8) = 2064 * (r - p)
  OBVIOUS
<1> HIDE DEF p, r, s
<1>4. /\ Mod((Mod(p) + Mod(r)) * 129) = Mod(16641 * (p + r + s) - 64 * (p + r - s))
      /\ Mod((Mod(r) - Mod(p)) * 8) = Mod(2064 * (r - p))
  BY <1>1 DEF Mod, Field
<1> QED BY <1>2, <1>3, <1>4 DEF p, r

LEMMA CosSinSum ==
  ASSUME NEW a \in Int, NEW b \in Int
  PROVE  /\ CosHalf(a + b) = Mod(CosHalf(a) * CosHalf(b) - SinHalf(a) * SinHalf(b))
         /\ SinHalf(a + b) = Mod(SinHalf(a) * CosHalf(b) + CosHalf(a) * SinHalf(b))
<1> DEFINE z == Zeta(a)
           y == Zeta(-a)
           w == Zeta(b)
           v == Zeta(-b)
<1>1. z \in Int /\ y \in Int /\ w \in Int /\ v \in Int
  BY ZetaInt
<1>2. Zeta(a + b) = Mod(z * w) /\ Zeta(-(a + b)) = Mod(y * v)
  <2>1. -a \in Int /\ -b \in Int /\ -(a + b) = (-a) + (-b)
    OBVIOUS
  <2> QED BY <2>1, ZetaSum
<1>3. /\ CosHalf(a + b) = Mod((Mod(z * w) + Mod(y * v)) * 129)
      /\ SinHalf(a + b) = Mod((Mod(y * v) - Mod(z * w)) * 8)
  BY <1>2, CosSinForm
<1>4. /\ CosHalf(a) = Mod((z + y) * 129) /\ SinHalf(a) = Mod((y - z) * 8)
      /\ CosHalf(b) = Mod((w + v) * 129) /\ SinHalf(b) = Mod((v - w) * 8)
  BY CosSinForm
<1> HIDE DEF z, y, w, v
<1> DEFINE ca == (z + y) * 129
           sa == (y - z) * 8
           cb == (w + v) * 129
           sb == (v - w) * 8
<1>5. ca \in Int /\ sa \in Int /\ cb \in Int /\ sb \in Int
  BY <1>1
<1>6. /\ CosHalf(a + b) = Mod(ca * cb - sa * sb)
      /\ SinHalf(a + b) = Mod(sa * cb + ca * sb)
  BY <1>1, <1>3, SumOfAngles
<1> HIDE DEF ca, sa, cb, sb
<1>7. ASSUME NEW s \in Int, NEW t \in Int PROVE Mod(Mod(s) * Mod(t)) = Mod(s * t) /\ Mod(s) * Mod(t) \in Int
  <2>1. Mod(s) \in Int /\ Mod(t) \in Int
    BY ModType, FIsInt
  <2>2. Mod(Mod(s) * Mod(t)) = Mod(Mod(s) * t)
    BY <2>1, ModTimes
  <2>3. Mod(s) * t = t * Mod(s) /\ t * s = s * t
    BY <2>1
  <2> QED BY <2>1, <2>2, <2>3, ModTimes
<1> DEFINE Fit(s, t, e, f) ==
             Mod(s) = Mod(e) /\ Mod(t) = Mod(f) => Mod(s - t) = Mod(e - f) /\ Mod(s + t) = Mod(e + f)
<1>8. \A s, t, e, f \in Int : Fit(s, t, e, f)
  BY DEF Mod, Field
<1> HIDE DEF Fit
<1>9. /\ Mod(Mod(ca) * Mod(cb) - Mod(sa) * Mod(sb)) = Mod(ca * cb - sa * sb)
      /\ Mod(Mod(sa) * Mod(cb) + Mod(ca) * Mod(sb)) = Mod(sa * cb + ca * sb)
  <2>1. ca * cb \in Int /\ sa * sb \in Int /\ sa * cb \in Int /\ ca * sb \in Int
    BY <1>5
  <2>2. /\ Mod(Mod(ca) * Mod(cb)) = Mod(ca * cb) /\ Mod(ca) * Mod(cb) \in Int
        /\ Mod(Mod(sa) * Mod(sb)) = Mod(sa * sb) /\ Mod(sa) * Mod(sb) \in Int
        /\ Mod(Mod(sa) * Mod(cb)) = Mod(sa * cb) /\ Mod(sa) * Mod(cb) \in Int
        /\ Mod(Mod(ca) * Mod(sb)) = Mod(ca * sb) /\ Mod(ca) * Mod(sb) \in Int
    BY <1>5, <1>7
  <2> DEFINE cc == ca * cb
             ss == sa * sb
             sc == sa * cb
             cs == ca * sb
  <2> HIDE DEF cc, ss, sc, cs
  <2>3. cc \in Int /\ ss \in Int /\ sc \in Int /\ cs \in Int
    BY <2>1 DEF cc, ss, sc, cs
  <2>4. /\ Mod(Mod(ca) * Mod(cb)) = Mod(cc) /\ Mod(ca) * Mod(cb) \in Int
        /\ Mod(Mod(sa) * Mod(sb)) = Mod(ss) /\ Mod(sa) * Mod(sb) \in Int
        /\ Mod(Mod(sa) * Mod(cb)) = Mod(sc) /\ Mod(sa) * Mod(cb) \in Int
        /\ Mod(Mod(ca) * Mod(sb)) = Mod(cs) /\ Mod(ca) * Mod(sb) \in Int
    BY <2>2 DEF cc, ss, sc, cs
  <2>5. /\ Mod(Mod(ca) * Mod(cb) - Mod(sa) * Mod(sb)) = Mod(cc - ss)
        /\ Mod(Mod(sa) * Mod(cb) + Mod(ca) * Mod(sb)) = Mod(sc + cs)
    <3>1. Fit(Mod(ca) * Mod(cb), Mod(sa) * Mod(sb), cc, ss) /\ Fit(Mod(sa) * Mod(cb), Mod(ca) * Mod(sb), sc, cs)
      BY <1>8, <2>3, <2>4
    <3> QED BY <2>4, <3>1 DEF Fit
  <2> QED BY <2>5 DEF cc, ss, sc, cs
<1> QED BY <1>4, <1>6, <1>9 DEF ca, sa, cb, sb

(***************************************************************************)
(* The matrices of the gates, and what passes what.                        *)
(***************************************************************************)
MI == Diag(1, 1)
MX == <<<<0, 1>>, <<1, 0>>>>
MY == <<<<0, -Imag>>, <<Imag, 0>>>>
MZ == Diag(1, -1)
MH == <<<<InvSqrt2, InvSqrt2>>, <<InvSqrt2, -InvSqrt2>>>>
MPhase(k) == Diag(1, Zeta(2 * k))
MRx(a) == <<<<CosHalf(a), -Imag * SinHalf(a)>>, <<-Imag * SinHalf(a), CosHalf(a)>>>>
MRy(a) == <<<<CosHalf(a), -SinHalf(a)>>, <<SinHalf(a), CosHalf(a)>>>>
MRz(a) == Diag(Zeta(-a), Zeta(a))
MU(a, b, c) ==
  <<<<CosHalf(a), -Zeta(2 * c) * SinHalf(a)>>, <<Zeta(2 * b) * SinHalf(a), Zeta(2 * (b + c)) * CosHalf(a)>>>>

LEMMA FixedTypes == MI \in Mat /\ MX \in Mat /\ MY \in Mat /\ MZ \in Mat /\ MH \in Mat
BY Constants DEF MI, MX, MY, MZ, MH, Mat, Diag

LEMMA TurnTypes ==
  ASSUME NEW a \in Int
  PROVE  MPhase(a) \in Mat /\ MRx(a) \in Mat /\ MRy(a) \in Mat /\ MRz(a) \in Mat
<1>1. 2 * a \in Int /\ -a \in Int
  OBVIOUS
<1>2. Zeta(2 * a) \in Int /\ Zeta(-a) \in Int /\ Zeta(a) \in Int
  BY <1>1, ZetaInt
<1>3. CosHalf(a) \in Int /\ SinHalf(a) \in Int /\ -SinHalf(a) \in Int /\ -Imag * SinHalf(a) \in Int
  BY CosSinType, Constants DEF F
<1> QED BY <1>2, <1>3 DEF MPhase, MRx, MRy, MRz, Mat, Diag

LEMMA UType ==
  ASSUME NEW a \in Int, NEW b \in Int, NEW c \in Int
  PROVE  MU(a, b, c) \in Mat
<1>1. 2 * b \in Int /\ 2 * c \in Int /\ 2 * (b + c) \in Int
  OBVIOUS
<1>2. Zeta(2 * b) \in Int /\ Zeta(2 * c) \in Int /\ Zeta(2 * (b + c)) \in Int
  BY <1>1, ZetaInt
<1>3. CosHalf(a) \in Int /\ SinHalf(a) \in Int
  BY CosSinType DEF F
<1>4. -Zeta(2 * c) * SinHalf(a) \in Int /\ Zeta(2 * b) * SinHalf(a) \in Int
      /\ Zeta(2 * (b + c)) * CosHalf(a) \in Int
  BY <1>2, <1>3
<1> QED BY <1>3, <1>4 DEF MU, Mat

(* Fixed gates among themselves.                                             *)
LEMMA FixedIdentities ==
  /\ Alike(Mul(MH, MH), MI)
  /\ Alike(Mul(MX, MH), Mul(MH, MZ))
  /\ Alike(Mul(MZ, MH), Mul(MH, MX))
  /\ Alike(Mul(MY, MH), Mul(MH, Times(-1, MY)))
  /\ Alike(Mul(Times(-1, MY), MH), Mul(MH, MY))
<1>1. Alike(Mul(MH, MH), MI)
  BY Constants DEF Alike, Mul, MI, MH, Diag, Mod, Field
<1>2. Alike(Mul(MX, MH), Mul(MH, MZ))
  BY Constants DEF Alike, Mul, MX, MZ, MH, Diag, Mod, Field
<1>3. Alike(Mul(MZ, MH), Mul(MH, MX))
  BY Constants DEF Alike, Mul, MX, MZ, MH, Diag, Mod, Field
<1>4. Alike(Mul(MY, MH), Mul(MH, Times(-1, MY)))
  BY Constants DEF Alike, Mul, MY, MH, Times, Mod, Field
<1>5. Alike(Mul(Times(-1, MY), MH), Mul(MH, MY))
  BY Constants DEF Alike, Mul, MY, MH, Times, Mod, Field
<1> QED BY <1>1, <1>2, <1>3, <1>4, <1>5

(* What passes a rotation, and which way it turns it.                        *)
LEMMA PassesRy ==
  ASSUME NEW a \in Int
  PROVE  /\ Alike(Mul(MX, MRy(a)), Mul(MRy(-a), MX))
         /\ Alike(Mul(MY, MRy(a)), Mul(MRy(a), MY))
         /\ Alike(Mul(MZ, MRy(a)), Mul(MRy(-a), MZ))
         /\ Alike(Mul(MH, MRy(a)), Mul(MRy(-a), MH))
<1> DEFINE c == CosHalf(a)
           s == SinHalf(a)
<1>1. c \in Int /\ s \in Int
  BY CosSinType DEF F
<1>2. CosHalf(-a) = c /\ SinHalf(-a) = Mod(-s)
  BY CosSinMinus
<1> HIDE DEF c, s
<1>3. MRy(a) = <<<<c, -s>>, <<s, c>>>> /\ MRy(-a) = <<<<c, -Mod(-s)>>, <<Mod(-s), c>>>>
  BY <1>2 DEF MRy, c, s
<1>4. Alike(Mul(MX, MRy(a)), Mul(MRy(-a), MX))
  BY <1>1, <1>3 DEF Alike, Mul, MX, Mod, Field
<1>5. Alike(Mul(MY, MRy(a)), Mul(MRy(a), MY))
  BY <1>1, <1>3, Constants DEF Alike, Mul, MY, Mod, Field
<1>6. Alike(Mul(MZ, MRy(a)), Mul(MRy(-a), MZ))
  BY <1>1, <1>3 DEF Alike, Mul, MZ, Diag, Mod, Field
<1>7. Alike(Mul(MH, MRy(a)), Mul(MRy(-a), MH))
  <2> DEFINE r == Mod(-s)
  <2>1. PICK k \in Int : -s = r + 257 * k
    BY <1>1, ModQuotient DEF Field
  <2>2. r \in Int
    BY <1>1, ModType DEF F
  <2>3. /\ Mul(MH, MRy(a)) = <<<<227 * c + 227 * s, 227 * (-s) + 227 * c>>,
                              <<227 * c + (-227) * s, 227 * (-s) + (-227) * c>>>>
        /\ Mul(MRy(-a), MH) = <<<<c * 227 + (-r) * 227, c * 227 + (-r) * (-227)>>,
                               <<r * 227 + c * 227, r * 227 + c * (-227)>>>>
    BY <1>1, <1>3, Constants DEF Mul, MH
  <2> HIDE DEF r
  <2>4. Mod(227 * c + 227 * s) = Mod(c * 227 + (-r) * 227)
    BY <1>1, <2>1, <2>2 DEF Mod, Field
  <2>5. Mod(227 * (-s) + 227 * c) = Mod(c * 227 + (-r) * (-227))
    BY <1>1, <2>1, <2>2 DEF Mod, Field
  <2>6. Mod(227 * c + (-227) * s) = Mod(r * 227 + c * 227)
    BY <1>1, <2>1, <2>2 DEF Mod, Field
  <2>7. Mod(227 * (-s) + (-227) * c) = Mod(r * 227 + c * (-227))
    BY <1>1, <2>1, <2>2 DEF Mod, Field
  <2> QED BY <2>3, <2>4, <2>5, <2>6, <2>7 DEF Alike
<1> QED BY <1>4, <1>5, <1>6, <1>7

LEMMA PassesRx ==
  ASSUME NEW a \in Int
  PROVE  /\ Alike(Mul(MX, MRx(a)), Mul(MRx(a), MX))
         /\ Alike(Mul(MY, MRx(a)), Mul(MRx(-a), MY))
         /\ Alike(Mul(MZ, MRx(a)), Mul(MRx(-a), MZ))
<1> DEFINE c == CosHalf(a)
           s == SinHalf(a)
<1>1. c \in Int /\ s \in Int
  BY CosSinType DEF F
<1>2. CosHalf(-a) = c /\ SinHalf(-a) = Mod(-s)
  BY CosSinMinus
<1> HIDE DEF c, s
<1>3. /\ MRx(a) = <<<<c, -16 * s>>, <<-16 * s, c>>>>
      /\ MRx(-a) = <<<<c, -16 * Mod(-s)>>, <<-16 * Mod(-s), c>>>>
  BY <1>2, Constants DEF MRx, c, s
<1>4. Alike(Mul(MX, MRx(a)), Mul(MRx(a), MX))
  BY <1>1, <1>3 DEF Alike, Mul, MX, Mod, Field
<1>5. Alike(Mul(MY, MRx(a)), Mul(MRx(-a), MY))
  BY <1>1, <1>3, Constants DEF Alike, Mul, MY, Mod, Field
<1>6. Alike(Mul(MZ, MRx(a)), Mul(MRx(-a), MZ))
  BY <1>1, <1>3 DEF Alike, Mul, MZ, Diag, Mod, Field
<1> QED BY <1>4, <1>5, <1>6

(* Rotations about one axis add up.                                          *)
LEMMA RotationsAdd ==
  ASSUME NEW a \in Int, NEW b \in Int
  PROVE  /\ Alike(Mul(MRy(b), MRy(a)), MRy(a + b))
         /\ Alike(Mul(MRx(b), MRx(a)), MRx(a + b))
<1> DEFINE c == CosHalf(a)
           s == SinHalf(a)
           d == CosHalf(b)
           t == SinHalf(b)
<1>1. c \in Int /\ s \in Int /\ d \in Int /\ t \in Int
  BY CosSinType DEF F
<1>2. CosHalf(a + b) = Mod(c * d - s * t) /\ SinHalf(a + b) = Mod(s * d + c * t)
  BY CosSinSum
<1> HIDE DEF c, s, d, t
<1> DEFINE cd == c * d
           st == s * t
           sd == s * d
           ct == c * t
<1>3. /\ cd \in Int /\ st \in Int /\ sd \in Int /\ ct \in Int
      /\ d * c = cd /\ t * s = st /\ d * s = sd /\ t * c = ct
  BY <1>1
<1>4. /\ MRy(a) = <<<<c, -s>>, <<s, c>>>> /\ MRy(b) = <<<<d, -t>>, <<t, d>>>>
      /\ MRx(a) = <<<<c, -16 * s>>, <<-16 * s, c>>>> /\ MRx(b) = <<<<d, -16 * t>>, <<-16 * t, d>>>>
  BY Constants DEF MRx, MRy, c, s, d, t
<1>5. /\ MRy(a + b) = <<<<Mod(cd - st), -Mod(sd + ct)>>, <<Mod(sd + ct), Mod(cd - st)>>>>
      /\ MRx(a + b) = <<<<Mod(cd - st), -16 * Mod(sd + ct)>>, <<-16 * Mod(sd + ct), Mod(cd - st)>>>>
  BY <1>2, Constants DEF MRx, MRy
<1>6. Mul(MRy(b), MRy(a)) = <<<<cd - st, -(sd + ct)>>, <<sd + ct, cd - st>>>>
  <2>1. /\ d * c + (-t) * s = cd - st /\ d * (-s) + (-t) * c = -(sd + ct)
        /\ t * c + d * s = sd + ct /\ t * (-s) + d * c = cd - st
    BY <1>1
  <2> QED BY <1>4, <2>1 DEF Mul
<1>7. Mul(MRx(b), MRx(a)) = <<<<cd + 256 * st, -16 * (sd + ct)>>, <<-16 * (sd + ct), cd + 256 * st>>>>
  <2>1. /\ d * c + (-16 * t) * (-16 * s) = cd + 256 * st
        /\ d * (-16 * s) + (-16 * t) * c = -16 * (sd + ct)
        /\ (-16 * t) * c + d * (-16 * s) = -16 * (sd + ct)
        /\ (-16 * t) * (-16 * s) + d * c = cd + 256 * st
    BY <1>1
  <2> QED BY <1>4, <2>1 DEF Mul
<1> HIDE DEF cd, st, sd, ct
<1>8. /\ Mod(Mod(cd - st)) = Mod(cd - st) /\ Mod(-Mod(sd + ct)) = Mod(-(sd + ct))
      /\ Mod(Mod(sd + ct)) = Mod(sd + ct) /\ Mod(cd + 256 * st) = Mod(cd - st)
      /\ Mod(-16 * Mod(sd + ct)) = Mod(-16 * (sd + ct))
  BY <1>3 DEF Mod, Field
<1> QED BY <1>5, <1>6, <1>7, <1>8 DEF Alike

LEMMA NoRotation == Alike(MRy(0), MI) /\ Alike(MRx(0), MI)
BY CosSinZero, Constants DEF MRy, MRx, MI, Diag, Alike, Mod, Field

LEMMA RotationTurn ==
  ASSUME NEW a \in Int, NEW b \in Int, a % Turn = b % Turn
  PROVE  MRy(a) = MRy(b) /\ MRx(a) = MRx(b)
BY CosSinTurn DEF MRy, MRx

(* A rotation about Z is a phase gate, up to a phase.                        *)
LEMMA PhaseIsRz ==
  ASSUME NEW a \in Int
  PROVE  Alike(MPhase(a), Times(Zeta(a), MRz(a)))
<1>1. Zeta(a) \in Int /\ Zeta(-a) \in Int /\ a + (-a) = 0 /\ a + a = 2 * a /\ -a \in Int
  BY ZetaInt
<1>2. Mod(Zeta(a) * Zeta(-a)) = 1 /\ Mod(Zeta(a) * Zeta(a)) = Zeta(2 * a)
  BY <1>1, ZetaSum, ZetaValues
<1>3. Zeta(a) * 0 = 0
  BY <1>1
<1>4. Mod(1) = 1 /\ Mod(Zeta(2 * a)) = Zeta(2 * a)
  <2>1. 2 * a \in Int
    OBVIOUS
  <2>2. Mod(1) = 1
    BY DEF Mod, Field
  <2> QED BY <2>1, <2>2, ZetaType, ModSmall
<1> QED BY <1>2, <1>3, <1>4 DEF Alike, MPhase, MRz, Diag, Times

(* The general gate is three rotations, up to a phase.                       *)
LEMMA UIsRotations ==
  ASSUME NEW a \in Int, NEW b \in Int, NEW c \in Int
  PROVE  Alike(MU(a, b, c), Mul(MPhase(b), Mul(MRy(a), MPhase(c))))
<1> DEFINE x == CosHalf(a)
           s == SinHalf(a)
           y == Zeta(2 * b)
           z == Zeta(2 * c)
<1>1. 2 * b \in Int /\ 2 * c \in Int /\ 2 * (b + c) = 2 * b + 2 * c
  OBVIOUS
<1>2. x \in Int /\ s \in Int /\ y \in Int /\ z \in Int
  BY <1>1, CosSinType, ZetaInt DEF F
<1>3. Zeta(2 * (b + c)) = Mod(y * z)
  BY <1>1, ZetaSum
<1> HIDE DEF x, s, y, z
<1>4. Mul(MRy(a), Diag(1, z)) = <<<<x, (-s) * z>>, <<s, x * z>>>>
  <2>1. /\ x * 1 + (-s) * 0 = x /\ x * 0 + (-s) * z = (-s) * z
        /\ s * 1 + x * 0 = s /\ s * 0 + x * z = x * z
    BY <1>2
  <2> QED BY <2>1 DEF Mul, MRy, Diag, x, s
<1>5. Mul(Diag(1, y), <<<<x, (-s) * z>>, <<s, x * z>>>>) = <<<<x, (-s) * z>>, <<y * s, y * (x * z)>>>>
  <2>1. /\ 1 * x + 0 * s = x /\ 1 * ((-s) * z) + 0 * (x * z) = (-s) * z
        /\ 0 * x + y * s = y * s /\ 0 * ((-s) * z) + y * (x * z) = y * (x * z)
    BY <1>2
  <2> QED BY <2>1 DEF Mul, Diag
<1>6. MU(a, b, c) = <<<<x, (-z) * s>>, <<y * s, Mod(y * z) * x>>>>
  <2>1. MU(a, b, c) = <<<<x, -z * s>>, <<y * s, Zeta(2 * (b + c)) * x>>>>
    BY DEF MU, x, s, y, z
  <2>2. -z * s = (-z) * s
    BY <1>2
  <2> QED BY <1>3, <2>1, <2>2
<1>7. (-z) * s = (-s) * z
  BY <1>2
<1>8. Mod(Mod(y * z) * x) = Mod(y * (x * z))
  <2>1. y * z \in Int /\ Mod(y * z) \in Int
    BY <1>2, ModType DEF F
  <2>2. Mod(y * z) * x = x * Mod(y * z) /\ x * (y * z) = y * (x * z)
    BY <1>2, <2>1
  <2> QED BY <1>2, <2>1, <2>2, ModTimes
<1>9. MPhase(b) = Diag(1, y) /\ MPhase(c) = Diag(1, z)
  BY DEF MPhase, y, z
<1> QED BY <1>4, <1>5, <1>6, <1>7, <1>8, <1>9 DEF Alike

(***************************************************************************)
(* What a gate does to a state vector.                                     *)
(***************************************************************************)

LEMMA AppliedOne ==
  ASSUME NEW g, NEW q \in {0, 1}, NEW v \in Vec, g.on = <<q>>, g.name \notin Controlled \cup {"Swap"}
  PROVE  Applied(g, v) = Act(q, Matrix(g), v)
<1>1. Len(g.on) = 1 /\ g.on[Len(g.on)] = q
  OBVIOUS
<1>2. /\ 0 \div 1 = 0 /\ 1 \div 1 = 1 /\ 2 \div 1 = 2 /\ 3 \div 1 = 3
      /\ 0 \div 2 = 0 /\ 1 \div 2 = 0 /\ 2 \div 2 = 1 /\ 3 \div 2 = 1
      /\ 0 % 2 = 0 /\ 1 % 2 = 1 /\ 2 % 2 = 0 /\ 3 % 2 = 1 /\ 2 ^ 0 = 1 /\ 2 ^ 1 = 2
  OBVIOUS
<1>3. CASE q = 0
  <2>1. Bit(0, 0) = 0 /\ Bit(0, 1) = 1 /\ Bit(0, 2) = 0 /\ Bit(0, 3) = 1
    BY <1>2 DEF Bit
  <2>2. /\ WithBit(0, 0, 0) = 0 /\ WithBit(0, 1, 0) = 0 /\ WithBit(0, 2, 0) = 2 /\ WithBit(0, 3, 0) = 2
        /\ WithBit(0, 0, 1) = 1 /\ WithBit(0, 1, 1) = 1 /\ WithBit(0, 2, 1) = 3 /\ WithBit(0, 3, 1) = 3
    BY <1>2, <2>1 DEF WithBit
  <2> QED BY <1>1, <1>3, <2>1, <2>2 DEF Applied, Quad, Amp, Act, Row
<1>4. CASE q = 1
  <2>1. Bit(1, 0) = 0 /\ Bit(1, 1) = 0 /\ Bit(1, 2) = 1 /\ Bit(1, 3) = 1
    BY <1>2 DEF Bit
  <2>2. /\ WithBit(1, 0, 0) = 0 /\ WithBit(1, 1, 0) = 1 /\ WithBit(1, 2, 0) = 0 /\ WithBit(1, 3, 0) = 1
        /\ WithBit(1, 0, 1) = 2 /\ WithBit(1, 1, 1) = 3 /\ WithBit(1, 2, 1) = 2 /\ WithBit(1, 3, 1) = 3
    BY <1>2, <2>1 DEF WithBit
  <2> QED BY <1>1, <1>4, <2>1, <2>2 DEF Applied, Quad, Amp, Act, Row
<1> QED BY <1>3, <1>4

LEMMA AppliedTwo ==
  ASSUME NEW g, NEW q \in {0, 1}, NEW v \in Vec, g.on = <<1 - q, q>>, g.name \in Controlled
  PROVE  Applied(g, v) = ActOn(q, Matrix(g), v)
<1>1. Len(g.on) = 2 /\ g.on[Len(g.on)] = q /\ g.on[1] = 1 - q /\ g.name # "Swap"
  BY DEF Controlled
<1>2. /\ 0 \div 1 = 0 /\ 1 \div 1 = 1 /\ 2 \div 1 = 2 /\ 3 \div 1 = 3
      /\ 0 \div 2 = 0 /\ 1 \div 2 = 0 /\ 2 \div 2 = 1 /\ 3 \div 2 = 1
      /\ 0 % 2 = 0 /\ 1 % 2 = 1 /\ 2 % 2 = 0 /\ 3 % 2 = 1 /\ 2 ^ 0 = 1 /\ 2 ^ 1 = 2
  OBVIOUS
<1>3. /\ Bit(0, 0) = 0 /\ Bit(0, 1) = 1 /\ Bit(0, 2) = 0 /\ Bit(0, 3) = 1
      /\ Bit(1, 0) = 0 /\ Bit(1, 1) = 0 /\ Bit(1, 2) = 1 /\ Bit(1, 3) = 1
  BY <1>2 DEF Bit
<1>4. CASE q = 0
  <2>2. WithBit(0, 2, 0) = 2 /\ WithBit(0, 3, 0) = 2 /\ WithBit(0, 2, 1) = 3 /\ WithBit(0, 3, 1) = 3
    BY <1>2, <1>3 DEF WithBit
  <2> QED BY <1>1, <1>3, <1>4, <2>2 DEF Applied, Quad, Amp, ActOn, Row
<1>5. CASE q = 1
  <2>2. WithBit(1, 1, 0) = 1 /\ WithBit(1, 3, 0) = 1 /\ WithBit(1, 1, 1) = 3 /\ WithBit(1, 3, 1) = 3
    BY <1>2, <1>3 DEF WithBit
  <2> QED BY <1>1, <1>3, <1>5, <2>2 DEF Applied, Quad, Amp, ActOn, Row
<1> QED BY <1>4, <1>5

LEMMA AppliedSwap ==
  ASSUME NEW g, NEW v, g.name = "Swap"
  PROVE  Applied(g, v) = Exchanged(v)
<1>1. Swapped(0) = 0 /\ Swapped(1) = 2 /\ Swapped(2) = 1 /\ Swapped(3) = 3
  BY DEF Swapped
<1> QED BY <1>1 DEF Applied, Quad, Amp, Exchanged

(***************************************************************************)
(* The gates and their matrices.                                           *)
(***************************************************************************)
Angle(g) == IF g.angles = <<>> THEN 0 ELSE g.angles[1]

LEMMA MatricesOfPlain ==
  ASSUME NEW g
  PROVE  /\ g.name = "I" => Matrix(g) = MI
         /\ g.name = "Measure" => Matrix(g) = MI
         /\ g.name = "X" => Matrix(g) = MX
         /\ g.name = "CNOT" => Matrix(g) = MX
         /\ g.name = "Y" => Matrix(g) = MY
         /\ g.name = "CY" => Matrix(g) = MY
         /\ g.name = "Z" => Matrix(g) = MZ
         /\ g.name = "CZ" => Matrix(g) = MZ
         /\ g.name = "H" => Matrix(g) = MH
         /\ g.name = "CH" => Matrix(g) = MH
         /\ g.name = "S" => Matrix(g) = MPhase(2)
         /\ g.name = "Sdg" => Matrix(g) = MPhase(-2)
         /\ g.name = "T" => Matrix(g) = MPhase(1)
         /\ g.name = "Tdg" => Matrix(g) = MPhase(-1)
<1>1. (g.name = "I" => Matrix(g) = MI) /\ (g.name = "Measure" => Matrix(g) = MI)
  BY DEF Matrix, MI, Diag
<1>2. (g.name = "X" => Matrix(g) = MX) /\ (g.name = "CNOT" => Matrix(g) = MX)
  BY DEF Matrix, MX
<1>3. (g.name = "Y" => Matrix(g) = MY) /\ (g.name = "CY" => Matrix(g) = MY)
  BY DEF Matrix, MY
<1>4. (g.name = "Z" => Matrix(g) = MZ) /\ (g.name = "CZ" => Matrix(g) = MZ)
  BY DEF Matrix, MZ, Diag
<1>5. (g.name = "H" => Matrix(g) = MH) /\ (g.name = "CH" => Matrix(g) = MH)
  BY DEF Matrix, MH
<1>6. (g.name = "S" => Matrix(g) = MPhase(2)) /\ (g.name = "Sdg" => Matrix(g) = MPhase(-2))
  BY DEF Matrix, MPhase, Diag
<1>7. (g.name = "T" => Matrix(g) = MPhase(1)) /\ (g.name = "Tdg" => Matrix(g) = MPhase(-1))
  BY DEF Matrix, MPhase, Diag
<1> QED BY <1>1, <1>2, <1>3, <1>4, <1>5, <1>6, <1>7

LEMMA MatricesOfTurning ==
  ASSUME NEW g
  PROVE  /\ g.name \in {"U1", "CPhase"} => Matrix(g) = MPhase(Angle(g))
         /\ g.name \in {"Rx", "CRX", "CRx"} => Matrix(g) = MRx(Angle(g))
         /\ g.name \in {"Ry", "CRY", "CRy"} => Matrix(g) = MRy(Angle(g))
         /\ g.name \in {"Rz", "CRZ", "CRz"} => Matrix(g) = MRz(Angle(g))
         /\ g.name = "U" => Matrix(g) = MU(Angle(g), g.angles[2], g.angles[3])
<1>1. g.name \in {"U1", "CPhase"} => Matrix(g) = MPhase(Angle(g))
  BY DEF Matrix, MPhase, Diag, Angle
<1>2. g.name \in {"Rx", "CRX", "CRx"} => Matrix(g) = MRx(Angle(g))
  BY DEF Matrix, MRx, Angle
<1>3. g.name \in {"Ry", "CRY", "CRy"} => Matrix(g) = MRy(Angle(g))
  BY DEF Matrix, MRy, Angle
<1>4. g.name \in {"Rz", "CRZ", "CRz"} => Matrix(g) = MRz(Angle(g))
  BY DEF Matrix, MRz, Diag, Angle
<1>5. g.name = "U" => Matrix(g) = MU(Angle(g), g.angles[2], g.angles[3])
  BY DEF Matrix, MU, Angle
<1> QED BY <1>1, <1>2, <1>3, <1>4, <1>5

LEMMA AngleType == \A g \in Gates : Angle(g) \in Int
BY DEF Angle, Gates, Angles

LEMMA UAngles == \A g \in Gates : g.name = "U" => g.angles[2] \in Int /\ g.angles[3] \in Int
BY DEF Gates, Angles, Turning

LEMMA MatrixType == \A g \in Gates : g.name # "Swap" => Matrix(g) \in Mat
<1> TAKE g \in Gates
<1>1. Angle(g) \in Int /\ 2 \in Int /\ -2 \in Int /\ 1 \in Int /\ -1 \in Int
  BY AngleType
<1>2. g.name \in Plain \cup {"CNOT", "CY", "CZ", "CH"} => Matrix(g) \in Mat
  BY <1>1, MatricesOfPlain, FixedTypes, TurnTypes DEF Plain
<1>3. g.name \in Turning => Matrix(g) \in Mat
  BY <1>1, MatricesOfTurning, TurnTypes DEF Turning
<1>4. g.name = "U" => Matrix(g) \in Mat
  BY <1>1, MatricesOfTurning, UAngles, UType
<1> QED BY <1>2, <1>3, <1>4 DEF Gates, OnTwo, Controlled, Turning

(* A gate acts on its only qubit, on its target where its control is 1, or   *)
(* exchanges the two.                                                        *)
LEMMA WaysToAct ==
  ASSUME NEW g \in Gates
  PROVE  \/ g.name = "Swap"
         \/ \E q \in {0, 1} : g.on = <<q>> /\ g.name \notin Controlled \cup {"Swap"}
         \/ \E q \in {0, 1} : g.on = <<1 - q, q>> /\ g.name \in Controlled
<1>1. CASE g.name \notin OnTwo
  <2>1. g.on = <<0>> \/ g.on = <<1>>
    BY <1>1 DEF Gates
  <2> QED BY <1>1, <2>1 DEF OnTwo
<1>2. CASE g.name \in Controlled
  <2>1. g.on = <<0, 1>> \/ g.on = <<1, 0>>
    <3>1. g.name \in OnTwo
      BY <1>2 DEF OnTwo
    <3>2. Len(g.on) = 2 /\ g.on \in {<<0>>, <<1>>, <<0, 1>>, <<1, 0>>}
      BY <3>1 DEF Gates
    <3>3. Len(<<0>>) = 1 /\ Len(<<1>>) = 1
      OBVIOUS
    <3> QED BY <3>2, <3>3
  <2>2. 1 - 0 = 1 /\ 1 - 1 = 0
    OBVIOUS
  <2> QED BY <1>2, <2>1, <2>2
<1> QED BY <1>1, <1>2 DEF OnTwo

LEMMA AppliedType == \A g \in Gates, v \in Vec : Applied(g, v) \in Vec
<1> TAKE g \in Gates, v \in Vec
<1>1. CASE g.name = "Swap"
  BY <1>1, AppliedSwap, ExchangedType
<1>2. ASSUME NEW q \in {0, 1}, g.on = <<q>>, g.name \notin Controlled \cup {"Swap"} PROVE Applied(g, v) \in Vec
  BY <1>2, AppliedOne, MatrixType, ActType
<1>3. ASSUME NEW q \in {0, 1}, g.on = <<1 - q, q>>, g.name \in Controlled PROVE Applied(g, v) \in Vec
  <2>1. g.name # "Swap"
    BY <1>3 DEF Controlled
  <2> QED BY <1>3, <2>1, AppliedTwo, MatrixType, ActOnType
<1> QED BY <1>1, <1>2, <1>3, WaysToAct

LEMMA AppliedPhased ==
  \A g \in Gates, k \in Int, v \in Vec : Applied(g, Phased(k, v)) = Phased(k, Applied(g, v))
<1> TAKE g \in Gates, k \in Int, v \in Vec
<1>0. Phased(k, v) \in Vec
  BY PhasedType
<1>1. CASE g.name = "Swap"
  <2>1. Act(0, MI, Phased(k, v)) = Phased(k, Act(0, MI, v)) /\ Exchanged(Phased(k, v)) = Phased(k, Exchanged(v))
    BY FixedTypes, ActPhased
  <2> QED BY <1>1, <2>1, AppliedSwap
<1>2. ASSUME NEW q \in {0, 1}, g.on = <<q>>, g.name \notin Controlled \cup {"Swap"}
      PROVE  Applied(g, Phased(k, v)) = Phased(k, Applied(g, v))
  BY <1>0, <1>2, AppliedOne, MatrixType, ActPhased
<1>3. ASSUME NEW q \in {0, 1}, g.on = <<1 - q, q>>, g.name \in Controlled
      PROVE  Applied(g, Phased(k, v)) = Phased(k, Applied(g, v))
  <2>1. g.name # "Swap"
    BY <1>3 DEF Controlled
  <2> QED BY <1>0, <1>3, <2>1, AppliedTwo, MatrixType, ActPhased
<1> QED BY <1>1, <1>2, <1>3, WaysToAct

(***************************************************************************)
(* What a sequence of gates does to a state vector.                        *)
(***************************************************************************)
Run(v, circuit) ==
  LET upto[k \in 0 .. Len(circuit)] == IF k = 0 THEN v ELSE Applied(circuit[k], upto[k - 1])
  IN upto[Len(circuit)]
RunsAs(f, v, circuit) ==
  f[0] = v /\ \A i \in 1 .. Len(circuit) : f[i] = Applied(circuit[i], f[i - 1])

LEMMA RunSteps ==
  ASSUME NEW v \in Vec, NEW c \in Seq(Gates)
  PROVE  \E f \in [0 .. Len(c) -> Vec] : RunsAs(f, v, c) /\ Run(v, c) = f[Len(c)]
<1> DEFINE n == Len(c)
           Body(h) == [k \in 0 .. n |-> IF k = 0 THEN v ELSE Applied(c[k], h[k - 1])]
           step == [p \in Vec \X (1 .. n) |-> Applied(c[p[2]], p[1])]
<1>0. n \in Nat /\ \A i \in 1 .. n : c[i] \in Gates
  BY LenProperties, ElementOfSeq
<1>1. step \in [Vec \X (1 .. n) -> Vec]
  <2>1. \A p \in Vec \X (1 .. n) : Applied(c[p[2]], p[1]) \in Vec
    <3> HIDE DEF n
    <3> QED BY <1>0, AppliedType
  <2> QED BY <2>1
<1>2. \A w \in Vec, i \in 1 .. n : step[<<w, i>>] = Applied(c[i], w)
  <2>1. ASSUME NEW w \in Vec, NEW i \in 1 .. n PROVE step[<<w, i>>] = Applied(c[i], w)
    <3>1. <<w, i>> \in Vec \X (1 .. n)
      OBVIOUS
    <3> HIDE DEF n
    <3> QED BY <3>1
  <2> QED BY <2>1
<1> HIDE DEF step, n
<1>3. PICK f \in [0 .. n -> Vec] : Recursion(f, n, v, step)
  BY <1>0, <1>1, RecursionOverInterval, Zenon
<1>4. f[0] = v /\ \A i \in 1 .. n : f[i] = Applied(c[i], f[i - 1])
  <2>1. ASSUME NEW i \in 1 .. n PROVE f[i] = Applied(c[i], f[i - 1])
    <3>1. f[i - 1] \in Vec
      BY <1>0
    <3>2. f[i] = step[<<f[i - 1], i>>]
      BY <1>3 DEF Recursion
    <3> QED BY <1>2, <3>1, <3>2
  <2> QED BY <1>3, <2>1 DEF Recursion
<1>5. f = Body(f)
  <2>1. \A k \in 0 .. n : k # 0 => k \in 1 .. n
    BY <1>0
  <2>2. \A k \in 0 .. n : f[k] = IF k = 0 THEN v ELSE Applied(c[k], f[k - 1])
    BY <1>4, <2>1
  <2>3. f = [k \in 0 .. n |-> f[k]]
    OBVIOUS
  <2> QED BY <2>2, <2>3
<1> DEFINE upto == CHOOSE h : h = Body(h)
<1>6. upto = Body(upto)
  <2> HIDE DEF Body
  <2> QED BY <1>5
<1>7. Run(v, c) = upto[n]
  BY DEF Run, n
<1> HIDE DEF upto
<1>8. \A k \in 0 .. n : upto[k] = IF k = 0 THEN v ELSE Applied(c[k], upto[k - 1])
  BY <1>6
<1>9. GoOnAlike(f, upto, n)
  <2>1. 0 \in 0 .. n /\ \A i \in 1 .. n : i \in 0 .. n /\ i # 0
    BY <1>0
  <2> QED BY <1>4, <1>8, <2>1 DEF GoOnAlike
<1>10. f[n] = upto[n]
  <2>1. n \in 0 .. n
    BY <1>0
  <2> QED BY <1>0, <1>9, <2>1, SameRecursion
<1> QED BY <1>4, <1>7, <1>10 DEF RunsAs, n

LEMMA RunIs ==
  ASSUME NEW v \in Vec, NEW c \in Seq(Gates), NEW f, RunsAs(f, v, c)
  PROVE  Run(v, c) = f[Len(c)]
<1>1. PICK h \in [0 .. Len(c) -> Vec] : RunsAs(h, v, c) /\ Run(v, c) = h[Len(c)]
  BY RunSteps
<1>2. Len(c) \in Nat /\ Len(c) \in 0 .. Len(c)
  BY LenProperties
<1>3. GoOnAlike(h, f, Len(c))
  BY <1>1 DEF RunsAs, GoOnAlike
<1> QED BY <1>1, <1>2, <1>3, SameRecursion

LEMMA RunType == \A v \in Vec, c \in Seq(Gates) : Run(v, c) \in Vec
<1> TAKE v \in Vec, c \in Seq(Gates)
<1>1. PICK f \in [0 .. Len(c) -> Vec] : Run(v, c) = f[Len(c)]
  BY RunSteps
<1>2. Len(c) \in 0 .. Len(c)
  BY LenProperties
<1> QED BY <1>1, <1>2

LEMMA RunEmpty == \A v \in Vec : Run(v, <<>>) = v
<1> TAKE v \in Vec
<1>1. <<>> \in Seq(Gates) /\ Len(<<>>) = 0
  BY EmptySeq
<1>2. PICK f \in [0 .. Len(<<>>) -> Vec] : RunsAs(f, v, <<>>) /\ Run(v, <<>>) = f[Len(<<>>)]
  BY <1>1, RunSteps
<1> QED BY <1>1, <1>2 DEF RunsAs

LEMMA RunAppend ==
  \A v \in Vec, c \in Seq(Gates), g \in Gates : Run(v, Append(c, g)) = Applied(g, Run(v, c))
<1> TAKE v \in Vec, c \in Seq(Gates), g \in Gates
<1>1. Append(c, g) \in Seq(Gates) /\ Len(Append(c, g)) = Len(c) + 1 /\ Len(c) \in Nat
  BY AppendProperties, LenProperties
<1>2. PICK f \in [0 .. Len(Append(c, g)) -> Vec] :
        RunsAs(f, v, Append(c, g)) /\ Run(v, Append(c, g)) = f[Len(Append(c, g))]
  BY <1>1, RunSteps
<1>3. \A i \in 1 .. Len(c) : Append(c, g)[i] = c[i]
  BY AppendProperties
<1>4. Append(c, g)[Len(c) + 1] = g
  BY AppendProperties
<1>5. RunsAs(f, v, c)
  <2>1. \A i \in 1 .. Len(c) : i \in 1 .. Len(Append(c, g))
    BY <1>1
  <2> QED BY <1>2, <1>3, <2>1 DEF RunsAs
<1>6. Run(v, c) = f[Len(c)]
  BY <1>5, RunIs
<1>7. f[Len(c) + 1] = Applied(Append(c, g)[Len(c) + 1], f[(Len(c) + 1) - 1]) /\ (Len(c) + 1) - 1 = Len(c)
  <2>1. Len(c) + 1 \in 1 .. Len(Append(c, g))
    BY <1>1
  <2> QED BY <1>1, <1>2, <2>1 DEF RunsAs
<1> QED BY <1>1, <1>2, <1>4, <1>6, <1>7

LEMMA RunConcat ==
  \A v \in Vec, c \in Seq(Gates), d \in Seq(Gates) : Run(v, c \o d) = Run(Run(v, c), d)
<1> SUFFICES ASSUME NEW v \in Vec, NEW c \in Seq(Gates)
             PROVE  \A d \in Seq(Gates) : Run(v, c \o d) = Run(Run(v, c), d)
  OBVIOUS
<1> DEFINE S == {d \in Seq(Gates) : Run(v, c \o d) = Run(Run(v, c), d)}
<1>0. Run(v, c) \in Vec
  BY RunType
<1>1. <<>> \in S
  BY <1>0, EmptySeq, ConcatEmptySeq, RunEmpty
<1>2. ASSUME NEW d \in S, NEW g \in Gates PROVE Append(d, g) \in S
  <2>1. Append(d, g) \in Seq(Gates) /\ c \o d \in Seq(Gates)
    BY AppendProperties, ConcatProperties
  <2>2. c \o Append(d, g) = Append(c \o d, g)
    BY SMTT(30)
  <2>3. Run(v, Append(c \o d, g)) = Applied(g, Run(v, c \o d))
    BY <2>1, RunAppend
  <2>4. Run(Run(v, c), Append(d, g)) = Applied(g, Run(Run(v, c), d))
    BY <1>0, RunAppend
  <2> QED BY <2>1, <2>2, <2>3, <2>4
<1>3. S \in SUBSET Seq(Gates)
  OBVIOUS
<1> HIDE DEF S
<1>4. S = Seq(Gates)
  BY <1>1, <1>2, <1>3, SequenceInduction
<1> QED BY <1>4 DEF S

(* A unitary is its four columns.                                            *)
Quads == Vec \X Vec \X Vec \X Vec

LEMMA ThenColumns ==
  \A u \in Quads, g \in Gates :
    /\ Then(u, g) \in Quads
    /\ \A i \in 1 .. 4 : Then(u, g)[i] = Applied(g, u[i])
<1> TAKE u \in Quads, g \in Gates
<1>1. Then(u, g) = <<Applied(g, u[1]), Applied(g, u[2]), Applied(g, u[3]), Applied(g, u[4])>>
  BY DEF Then, Quad, Amp
<1>2. u[1] \in Vec /\ u[2] \in Vec /\ u[3] \in Vec /\ u[4] \in Vec
  BY DEF Quads
<1>3. \A i \in 1 .. 4 : i = 1 \/ i = 2 \/ i = 3 \/ i = 4
  OBVIOUS
<1>4. /\ Applied(g, u[1]) \in Vec /\ Applied(g, u[2]) \in Vec
      /\ Applied(g, u[3]) \in Vec /\ Applied(g, u[4]) \in Vec
  BY <1>2, AppliedType
<1>5. Then(u, g) \in Quads
  BY <1>1, <1>4 DEF Quads
<1> QED BY <1>1, <1>3, <1>5

LEMMA AfterColumns ==
  ASSUME NEW u \in Quads, NEW c \in Seq(Gates)
  PROVE  After(u, c) = <<Run(u[1], c), Run(u[2], c), Run(u[3], c), Run(u[4], c)>>
<1> DEFINE n == Len(c)
           Body(h) == [k \in 0 .. n |-> IF k = 0 THEN u ELSE Then(h[k - 1], c[k])]
<1>0. n \in Nat /\ \A i \in 1 .. n : c[i] \in Gates
  BY LenProperties, ElementOfSeq
<1>1. u[1] \in Vec /\ u[2] \in Vec /\ u[3] \in Vec /\ u[4] \in Vec /\ u = <<u[1], u[2], u[3], u[4]>>
  BY DEF Quads
<1>2. PICK f1 \in [0 .. n -> Vec] : RunsAs(f1, u[1], c) /\ Run(u[1], c) = f1[n]
  BY <1>1, RunSteps
<1>3. PICK f2 \in [0 .. n -> Vec] : RunsAs(f2, u[2], c) /\ Run(u[2], c) = f2[n]
  BY <1>1, RunSteps
<1>4. PICK f3 \in [0 .. n -> Vec] : RunsAs(f3, u[3], c) /\ Run(u[3], c) = f3[n]
  BY <1>1, RunSteps
<1>5. PICK f4 \in [0 .. n -> Vec] : RunsAs(f4, u[4], c) /\ Run(u[4], c) = f4[n]
  BY <1>1, RunSteps
<1> DEFINE f == [k \in 0 .. n |-> <<f1[k], f2[k], f3[k], f4[k]>>]
<1>6. \A k \in 0 .. n : f[k] = <<f1[k], f2[k], f3[k], f4[k]>>
  OBVIOUS
<1>7. f[0] = u
  <2>1. 0 \in 0 .. n
    BY <1>0
  <2> QED BY <1>1, <1>2, <1>3, <1>4, <1>5, <1>6, <2>1 DEF RunsAs
<1>f. f = [k \in 0 .. n |-> f[k]]
  OBVIOUS
<1> HIDE DEF f
<1>8. \A i \in 1 .. n : f[i] = Then(f[i - 1], c[i])
  <2>1. ASSUME NEW i \in 1 .. n PROVE f[i] = Then(f[i - 1], c[i])
    <3>1. i \in 0 .. n /\ i - 1 \in 0 .. n
      BY <1>0
    <3>2. /\ f1[i] = Applied(c[i], f1[i - 1]) /\ f2[i] = Applied(c[i], f2[i - 1])
          /\ f3[i] = Applied(c[i], f3[i - 1]) /\ f4[i] = Applied(c[i], f4[i - 1])
      BY <1>2, <1>3, <1>4, <1>5 DEF RunsAs, n
    <3>3. f[i - 1] = <<f1[i - 1], f2[i - 1], f3[i - 1], f4[i - 1]>>
      BY <1>6, <3>1
    <3>4. Then(f[i - 1], c[i]) = <<Applied(c[i], f1[i - 1]), Applied(c[i], f2[i - 1]),
                                   Applied(c[i], f3[i - 1]), Applied(c[i], f4[i - 1])>>
      BY <3>3 DEF Then, Quad, Amp
    <3> QED BY <1>6, <3>1, <3>2, <3>4
  <2> QED BY <2>1
<1>9. f = Body(f)
  <2>1. \A k \in 0 .. n : k # 0 => k \in 1 .. n
    BY <1>0
  <2>2. \A k \in 0 .. n : f[k] = IF k = 0 THEN u ELSE Then(f[k - 1], c[k])
    BY <1>7, <1>8, <2>1
  <2> QED BY <1>f, <2>2
<1> DEFINE upto == CHOOSE h : h = Body(h)
<1>10. upto = Body(upto)
  <2> HIDE DEF Body
  <2> QED BY <1>9
<1>11. After(u, c) = upto[n]
  BY DEF After
<1> HIDE DEF upto
<1>12. \A k \in 0 .. n : upto[k] = IF k = 0 THEN u ELSE Then(upto[k - 1], c[k])
  BY <1>10
<1> HIDE DEF n
<1>13. GoOnAlike(f, upto, n)
  <2>1. 0 \in 0 .. n /\ \A i \in 1 .. n : i \in 0 .. n /\ i # 0
    BY <1>0
  <2> QED BY <1>7, <1>8, <1>12, <2>1 DEF GoOnAlike
<1>14. f[n] = upto[n] /\ n \in 0 .. n
  <2>1. n \in 0 .. n
    BY <1>0
  <2> QED BY <1>0, <1>13, <2>1, SameRecursion
<1> QED BY <1>2, <1>3, <1>4, <1>5, <1>6, <1>11, <1>14

(***************************************************************************)
(* What a state of the pass stands for.                                    *)
(***************************************************************************)
PassType ==
  [queue_Rx : [Qubits -> BOOLEAN], queue_Ry : [Qubits -> BOOLEAN], queue_H : [Qubits -> BOOLEAN],
   angles_Rx : [Qubits -> Int], angles_Ry : [Qubits -> Int],
   modified_circuit : Seq(Gates), queued_gates : Seq(Gates), measure : Seq(Qubits)]

(* Nothing is held back without its flag.                                    *)
Sound(s) ==
  /\ s \in PassType
  /\ \A q \in Qubits : /\ ~s.queue_Rx[q] => s.angles_Rx[q] = 0
                       /\ ~s.queue_Ry[q] => s.angles_Ry[q] = 0

(* What H, Rx and Ry held back on a qubit do to a state vector.              *)
Back(q, h, x, y, v) == Act(q, MRy(y), Act(q, MRx(x), IF h THEN Act(q, MH, v) ELSE v))
Kept(s, q, v) == Back(q, s.queue_H[q], s.angles_Rx[q], s.angles_Ry[q], v)

Total(s) == s.modified_circuit \o s.queued_gates
Meaning(s, v) == Kept(s, 0, Kept(s, 1, Run(v, Total(s))))

(* The gates a state has put out or holds that create superpositions.        *)
One(b) == IF b THEN 1 ELSE 0
Flags(s, q) == One(s.queue_H[q]) + One(s.queue_Rx[q]) + One(s.queue_Ry[q])
Cost(s) == Count(Total(s)) + Flags(s, 0) + Flags(s, 1)
Weight(g) == IF g.name \in Branching THEN 1 ELSE 0

(* What is held back goes out, and nothing else changes.                     *)
Flushes(s, s2) ==
  /\ Sound(s2)
  /\ Cost(s2) = Cost(s)
  /\ \A v \in Vec : Meaning(s2, v) = Meaning(s, v)

(* A handler does what its gate does, up to a phase.                         *)
Simulates(s, s2, g) ==
  /\ Sound(s2)
  /\ Cost(s2) <= Cost(s) + Weight(g)
  /\ \E k \in 0 .. 15 : \A v \in Vec : Meaning(s2, v) = Phased(Zeta(k), Applied(g, Meaning(s, v)))

LEMMA CountFinite ==
  ASSUME NEW c \in Seq(Gates)
  PROVE  /\ IsFiniteSet({i \in DOMAIN c : c[i].name \in Branching})
         /\ Count(c) \in Nat
<1>1. DOMAIN c = 1 .. Len(c) /\ Len(c) \in Nat
  BY LenProperties
<1>2. IsFiniteSet(1 .. Len(c))
  BY <1>1, FS_Interval
<1>3. IsFiniteSet({i \in DOMAIN c : c[i].name \in Branching})
  BY <1>1, <1>2, FS_Subset
<1> QED BY <1>3, FS_CardinalityType DEF Count

LEMMA CountEmpty == Count(<<>>) = 0
<1>1. {i \in DOMAIN <<>> : <<>>[i].name \in Branching} = {}
  OBVIOUS
<1> QED BY <1>1, FS_EmptySet DEF Count

LEMMA CountAppend ==
  \A c \in Seq(Gates), g \in Gates : Count(Append(c, g)) = Count(c) + Weight(g)
<1> TAKE c \in Seq(Gates), g \in Gates
<1> DEFINE T(d) == {i \in DOMAIN d : d[i].name \in Branching}
           n == Len(c) + 1
<1>1. /\ DOMAIN c = 1 .. Len(c) /\ Len(c) \in Nat
      /\ DOMAIN Append(c, g) = 1 .. n
      /\ Append(c, g)[n] = g
      /\ \A i \in 1 .. Len(c) : Append(c, g)[i] = c[i]
  <2>1. Append(c, g) \in Seq(Gates) /\ Len(Append(c, g)) = n
    BY AppendProperties
  <2> QED BY <2>1, AppendProperties, LenProperties
<1>2. \A i \in 1 .. n : i \in 1 .. Len(c) \/ i = n
  BY <1>1
<1>3. T(Append(c, g)) = IF g.name \in Branching THEN T(c) \cup {n} ELSE T(c)
  <2>1. \A i \in 1 .. Len(c) : i \in 1 .. n
    BY <1>1
  <2>2. n \in 1 .. n
    BY <1>1
  <2> HIDE DEF n
  <2> QED BY <1>1, <1>2, <2>1, <2>2
<1>4. n \notin T(c) /\ IsFiniteSet(T(c)) /\ Cardinality(T(c)) \in Nat
  <2>1. n \notin 1 .. Len(c)
    BY <1>1
  <2>2. IsFiniteSet(T(c))
    BY CountFinite
  <2> HIDE DEF n
  <2>3. n \notin T(c)
    BY <1>1, <2>1
  <2> HIDE DEF T
  <2> QED BY <2>2, <2>3, FS_CardinalityType
<1> HIDE DEF T
<1>5. Cardinality(T(c) \cup {n}) = Cardinality(T(c)) + 1
  BY <1>4, FS_AddElement
<1>6. Count(Append(c, g)) = Cardinality(T(Append(c, g))) /\ Count(c) = Cardinality(T(c))
  BY DEF Count, T
<1> QED BY <1>3, <1>4, <1>5, <1>6 DEF Weight

LEMMA CountOne == \A g \in Gates : Count(<<g>>) = Weight(g)
<1> TAKE g \in Gates
<1>1. <<g>> = Append(<<>>, g) /\ <<>> \in Seq(Gates)
  BY EmptySeq
<1>2. Weight(g) \in Nat
  BY DEF Weight
<1>3. Count(Append(<<>>, g)) = Count(<<>>) + Weight(g)
  BY <1>1, CountAppend
<1> QED BY <1>1, <1>2, <1>3, CountEmpty

LEMMA ConcatAppend ==
  ASSUME NEW D, NEW c \in Seq(D), NEW d \in Seq(D), NEW e \in D
  PROVE  c \o Append(d, e) = Append(c \o d, e)
BY SMTT(30)

LEMMA CountConcat ==
  \A c \in Seq(Gates), d \in Seq(Gates) : Count(c \o d) = Count(c) + Count(d)
<1> SUFFICES ASSUME NEW c \in Seq(Gates)
             PROVE  \A d \in Seq(Gates) : Count(c \o d) = Count(c) + Count(d)
  OBVIOUS
<1> DEFINE T == {d \in Seq(Gates) : Count(c \o d) = Count(c) + Count(d)}
<1>1. <<>> \in T
  <2>1. Count(c) \in Nat
    BY CountFinite
  <2> QED BY <2>1, EmptySeq, ConcatEmptySeq, CountEmpty
<1>2. ASSUME NEW d \in T, NEW g \in Gates PROVE Append(d, g) \in T
  <2>1. Append(d, g) \in Seq(Gates) /\ c \o d \in Seq(Gates)
    BY AppendProperties, ConcatProperties
  <2>2. c \o Append(d, g) = Append(c \o d, g)
    BY ConcatAppend
  <2>3. Count(Append(c \o d, g)) = Count(c \o d) + Weight(g) /\ Count(Append(d, g)) = Count(d) + Weight(g)
    BY <2>1, CountAppend
  <2>4. Count(c) \in Nat /\ Count(d) \in Nat /\ Weight(g) \in Nat
    BY CountFinite DEF Weight
  <2>5. Count(c \o d) = Count(c) + Count(d)
    OBVIOUS
  <2>6. Count(Append(c \o d, g)) = Count(c) + Count(Append(d, g))
    BY <2>3, <2>4, <2>5
  <2> QED BY <2>1, <2>2, <2>6
<1>3. T \in SUBSET Seq(Gates)
  OBVIOUS
<1> HIDE DEF T
<1>4. T = Seq(Gates)
  BY <1>1, <1>2, <1>3, SequenceInduction
<1> QED BY <1>4 DEF T

(* The gates the pass puts out.                                              *)
LEMMA GatesPutOut ==
  ASSUME NEW q \in Qubits, NEW a \in Int
  PROVE  /\ \A n \in Plain : Gate(n, <<q>>, <<>>) \in Gates
         /\ \A n \in {"Rx", "Ry", "Rz", "U1"} : Gate(n, <<q>>, <<a>>) \in Gates
         /\ \A n \in {"CH", "CNOT", "CY", "CZ", "Swap"} : Gate(n, <<1 - q, q>>, <<>>) \in Gates
         /\ \A n \in {"CRx", "CRy", "CRz", "CPhase"} : Gate(n, <<1 - q, q>>, <<a>>) \in Gates
<1>1. <<q>> \in {<<0>>, <<1>>, <<0, 1>>, <<1, 0>>} /\ Len(<<q>>) = 1
  BY DEF Qubits
<1>2. <<1 - q, q>> \in {<<0>>, <<1>>, <<0, 1>>, <<1, 0>>} /\ Len(<<1 - q, q>>) = 2
  BY DEF Qubits
<1>3. <<>> \in Seq(Int) /\ Len(<<>>) = 0 /\ <<a>> \in Seq(Int) /\ Len(<<a>>) = 1
  BY EmptySeq
<1>4. \A n \in Plain : Gate(n, <<q>>, <<>>) \in Gates
  <2>1. ASSUME NEW n \in Plain PROVE n \notin OnTwo /\ Angles(n) = 0
    BY DEF Plain, OnTwo, Controlled, Angles, Turning
  <2> QED BY <1>1, <1>3, <2>1 DEF Gates, Gate
<1>5. \A n \in {"Rx", "Ry", "Rz", "U1"} : Gate(n, <<q>>, <<a>>) \in Gates
  <2>1. ASSUME NEW n \in {"Rx", "Ry", "Rz", "U1"} PROVE n \notin OnTwo /\ Angles(n) = 1 /\ n \in Turning
    BY DEF OnTwo, Controlled, Angles, Turning
  <2> QED BY <1>1, <1>3, <2>1 DEF Gates, Gate
<1>6. \A n \in {"CH", "CNOT", "CY", "CZ", "Swap"} : Gate(n, <<1 - q, q>>, <<>>) \in Gates
  <2>1. ASSUME NEW n \in {"CH", "CNOT", "CY", "CZ", "Swap"} PROVE n \in OnTwo /\ Angles(n) = 0
    BY DEF OnTwo, Controlled, Angles, Turning
  <2> QED BY <1>2, <1>3, <2>1 DEF Gates, Gate
<1>7. \A n \in {"CRx", "CRy", "CRz", "CPhase"} : Gate(n, <<1 - q, q>>, <<a>>) \in Gates
  <2>1. ASSUME NEW n \in {"CRx", "CRy", "CRz", "CPhase"} PROVE n \in OnTwo /\ Angles(n) = 1 /\ n \in Turning
    BY DEF OnTwo, Controlled, Angles, Turning
  <2> QED BY <1>2, <1>3, <2>1 DEF Gates, Gate
<1> QED BY <1>4, <1>5, <1>6, <1>7

LEMMA BackType ==
  ASSUME NEW q, NEW h \in BOOLEAN, NEW x \in Int, NEW y \in Int, NEW v \in Vec
  PROVE  Back(q, h, x, y, v) \in Vec
BY ActType, FixedTypes, TurnTypes DEF Back

LEMMA SoundFields ==
  ASSUME NEW s, Sound(s), NEW q \in Qubits
  PROVE  /\ s.queue_H[q] \in BOOLEAN /\ s.queue_Rx[q] \in BOOLEAN /\ s.queue_Ry[q] \in BOOLEAN
         /\ s.angles_Rx[q] \in Int /\ s.angles_Ry[q] \in Int
         /\ s.modified_circuit \in Seq(Gates) /\ s.queued_gates \in Seq(Gates)
         /\ Total(s) \in Seq(Gates)
<1>1. s.modified_circuit \in Seq(Gates) /\ s.queued_gates \in Seq(Gates)
  BY DEF Sound, PassType
<1>2. Total(s) \in Seq(Gates)
  BY <1>1, ConcatProperties DEF Total
<1> QED BY <1>1, <1>2 DEF Sound, PassType

LEMMA KeptType ==
  ASSUME NEW s, Sound(s), NEW q \in Qubits, NEW v \in Vec
  PROVE  Kept(s, q, v) \in Vec
BY SoundFields, BackType DEF Kept

(* What is held back on one qubit passes what happens on the other.          *)
LEMMA ActsPass ==
  ASSUME NEW q \in Qubits, NEW m \in Mat, NEW n \in Mat, NEW v \in Vec
  PROVE  Act(1 - q, m, Act(q, n, v)) = Act(q, n, Act(1 - q, m, v))
<1>1. CASE q = 0
  BY <1>1, ActCommute
<1>2. CASE q = 1
  BY <1>2, ActCommute
<1> QED BY <1>1, <1>2 DEF Qubits

LEMMA BackPasses ==
  ASSUME NEW q \in Qubits, NEW h \in BOOLEAN, NEW x \in Int, NEW y \in Int, NEW m \in Mat, NEW v \in Vec
  PROVE  Act(1 - q, m, Back(q, h, x, y, v)) = Back(q, h, x, y, Act(1 - q, m, v))
<1> DEFINE a == IF h THEN Act(q, MH, v) ELSE v
           b == Act(q, MRx(x), a)
<1>1. MH \in Mat /\ MRx(x) \in Mat /\ MRy(y) \in Mat
  BY FixedTypes, TurnTypes
<1>2. a \in Vec /\ b \in Vec
  BY <1>1, ActType
<1>3. Act(1 - q, m, a) = IF h THEN Act(q, MH, Act(1 - q, m, v)) ELSE Act(1 - q, m, v)
  BY <1>1, ActsPass
<1>4. Act(1 - q, m, b) = Act(q, MRx(x), Act(1 - q, m, a))
  <2> HIDE DEF a
  <2> QED BY <1>1, <1>2, ActsPass
<1>5. Act(1 - q, m, Act(q, MRy(y), b)) = Act(q, MRy(y), Act(1 - q, m, b))
  <2> HIDE DEF b
  <2> QED BY <1>1, <1>2, ActsPass
<1> QED BY <1>3, <1>4, <1>5 DEF Back

LEMMA KeptPasses ==
  ASSUME NEW s, Sound(s), NEW q \in Qubits, NEW m \in Mat, NEW v \in Vec
  PROVE  Act(1 - q, m, Kept(s, q, v)) = Kept(s, q, Act(1 - q, m, v))
BY SoundFields, BackPasses DEF Kept

LEMMA KeptCommute ==
  ASSUME NEW s, Sound(s), NEW q \in Qubits, NEW v \in Vec
  PROVE  Kept(s, q, Kept(s, 1 - q, v)) = Kept(s, 1 - q, Kept(s, q, v))
<1> DEFINE p == 1 - q
           h == s.queue_H[p]
           x == s.angles_Rx[p]
           y == s.angles_Ry[p]
           a == IF h THEN Act(p, MH, v) ELSE v
           b == Act(p, MRx(x), a)
<1>0. p \in Qubits
  BY DEF Qubits
<1>t. h \in BOOLEAN /\ x \in Int /\ y \in Int
  BY <1>0, SoundFields
<1>1. MH \in Mat /\ MRx(x) \in Mat /\ MRy(y) \in Mat
  BY <1>t, FixedTypes, TurnTypes
<1>2. a \in Vec /\ b \in Vec
  BY <1>1, ActType
<1> HIDE DEF h, x, y
<1>3. Kept(s, q, a) = IF h THEN Act(p, MH, Kept(s, q, v)) ELSE Kept(s, q, v)
  BY <1>1, KeptPasses
<1>4. Kept(s, q, b) = Act(p, MRx(x), Kept(s, q, a))
  <2> HIDE DEF a
  <2> QED BY <1>1, <1>2, KeptPasses
<1>5. Kept(s, q, Act(p, MRy(y), b)) = Act(p, MRy(y), Kept(s, q, b))
  <2> HIDE DEF b
  <2> QED BY <1>1, <1>2, KeptPasses
<1>6. Kept(s, p, v) = Act(p, MRy(y), b)
  BY DEF Kept, Back, h, x, y
<1>7. Kept(s, p, Kept(s, q, v)) = Act(p, MRy(y), Kept(s, q, b))
  <2>1. Kept(s, p, Kept(s, q, v)) = Act(p, MRy(y), Act(p, MRx(x), IF h THEN Act(p, MH, Kept(s, q, v)) ELSE Kept(s, q, v)))
    BY DEF Kept, Back, h, x, y
  <2> QED BY <1>3, <1>4, <2>1
<1> QED BY <1>5, <1>6, <1>7

(* The qubits may be read in either order.                                   *)
LEMMA MeaningFrom ==
  ASSUME NEW s, Sound(s), NEW q \in Qubits, NEW v \in Vec
  PROVE  /\ Run(v, Total(s)) \in Vec
         /\ Meaning(s, v) \in Vec
         /\ Meaning(s, v) = Kept(s, q, Kept(s, 1 - q, Run(v, Total(s))))
<1>1. Total(s) \in Seq(Gates)
  BY SoundFields
<1>2. Run(v, Total(s)) \in Vec
  BY <1>1, RunType
<1>3. 0 \in Qubits /\ 1 \in Qubits
  BY DEF Qubits
<1>4. Meaning(s, v) \in Vec
  BY <1>2, <1>3, KeptType DEF Meaning
<1>5. CASE q = 0
  BY <1>2, <1>4, <1>5 DEF Meaning
<1>6. CASE q = 1
  BY <1>2, <1>4, <1>3, <1>6, KeptCommute DEF Meaning
<1> QED BY <1>5, <1>6 DEF Qubits

(***************************************************************************)
(* Steps of the pass on one qubit.                                         *)
(***************************************************************************)
SameOn(s, s2, q) ==
  /\ s2.queue_H[q] = s.queue_H[q]
  /\ s2.queue_Rx[q] = s.queue_Rx[q] /\ s2.angles_Rx[q] = s.angles_Rx[q]
  /\ s2.queue_Ry[q] = s.queue_Ry[q] /\ s2.angles_Ry[q] = s.angles_Ry[q]
Adds(s, s2, q, n) == \A v \in Vec : Run(v, Total(s2)) = Act(q, n, Run(v, Total(s)))
Turns(s, s2, q, n, m, k) == \A x \in Vec : Kept(s2, q, Act(q, n, x)) = Phased(k, Act(q, m, Kept(s, q, x)))
Means(s, s2, q, m, k) == \A v \in Vec : Meaning(s2, v) = Phased(k, Act(q, m, Meaning(s, v)))

LEMMA ActOne ==
  ASSUME NEW q, NEW v \in Vec
  PROVE  Act(q, MI, v) = v /\ ActOn(q, MI, v) = v
<1>1. PICK x, y, z, w \in F : v = <<x, y, z, w>>
  BY VecParts
<1>2. ASSUME NEW a \in F, NEW b \in F PROVE Row(1, 0, a, b) = a /\ Row(0, 1, a, b) = b
  <2>1. a \in Int /\ b \in Int
    BY FIsInt
  <2>2. 1 * a + 0 * b = a /\ 0 * a + 1 * b = b
    BY <2>1
  <2> QED BY <2>2, ModSmall DEF Row
<1>3. CASE q = 0
  BY <1>1, <1>2, <1>3 DEF Act, ActOn, MI, Diag
<1>4. CASE q # 0
  BY <1>1, <1>2, <1>4 DEF Act, ActOn, MI, Diag
<1> QED BY <1>3, <1>4

LEMMA KeptSame ==
  ASSUME NEW s, NEW s2, NEW q, SameOn(s, s2, q), NEW v
  PROVE  Kept(s2, q, v) = Kept(s, q, v)
BY DEF SameOn, Kept

LEMMA OneQubitStep ==
  ASSUME NEW s, NEW s2, Sound(s), Sound(s2), NEW q \in Qubits, NEW n \in Mat, NEW m \in Mat,
         NEW k \in Int, SameOn(s, s2, 1 - q), Adds(s, s2, q, n), Turns(s, s2, q, n, m, k)
  PROVE  Means(s, s2, q, m, k)
<1> SUFFICES ASSUME NEW v \in Vec PROVE Meaning(s2, v) = Phased(k, Act(q, m, Meaning(s, v)))
  BY DEF Means
<1> DEFINE r == Run(v, Total(s))
           x == Kept(s, 1 - q, r)
<1>1. 1 - q \in Qubits /\ 1 - (1 - q) = q
  BY DEF Qubits
<1>2. r \in Vec /\ Meaning(s, v) = Kept(s, q, x)
  BY MeaningFrom
<1>3. x \in Vec
  BY <1>1, <1>2, KeptType
<1>4. Run(v, Total(s2)) = Act(q, n, r)
  BY DEF Adds
<1>5. Meaning(s2, v) = Kept(s2, q, Kept(s2, 1 - q, Act(q, n, r)))
  BY <1>4, MeaningFrom
<1> HIDE DEF r
<1>6. Act(q, n, r) \in Vec
  BY <1>2, ActType
<1>7. Kept(s2, 1 - q, Act(q, n, r)) = Kept(s, 1 - q, Act(q, n, r))
  BY KeptSame
<1>8. Act(1 - (1 - q), n, Kept(s, 1 - q, r)) = Kept(s, 1 - q, Act(1 - (1 - q), n, r))
  BY <1>1, <1>2, KeptPasses
<1>9. Kept(s2, 1 - q, Act(q, n, r)) = Act(q, n, x)
  BY <1>1, <1>7, <1>8
<1> HIDE DEF x
<1> QED BY <1>2, <1>3, <1>5, <1>9 DEF Turns

(* A step that adds nothing.                                                 *)
LEMMA AddsNothing ==
  ASSUME NEW s, NEW s2, Sound(s), NEW q \in Qubits, Total(s2) = Total(s)
  PROVE  Adds(s, s2, q, MI)
BY MeaningFrom, ActOne DEF Adds

(* A step that adds a gate on one qubit.                                     *)
LEMMA AddsGate ==
  ASSUME NEW s, NEW s2, Sound(s), NEW q \in Qubits, NEW g \in Gates, g.on = <<q>>,
         g.name \notin OnTwo, Total(s2) = Append(Total(s), g)
  PROVE  /\ Adds(s, s2, q, Matrix(g)) /\ Matrix(g) \in Mat
         /\ Count(Total(s2)) = Count(Total(s)) + Weight(g)
<1>1. Total(s) \in Seq(Gates)
  BY SoundFields
<1>2. Matrix(g) \in Mat
  BY MatrixType DEF OnTwo
<1>3. ASSUME NEW v \in Vec PROVE Run(v, Total(s2)) = Act(q, Matrix(g), Run(v, Total(s)))
  <2>1. Run(v, Total(s)) \in Vec
    BY <1>1, RunType
  <2>2. Run(v, Append(Total(s), g)) = Applied(g, Run(v, Total(s)))
    BY <1>1, RunAppend
  <2>3. Applied(g, Run(v, Total(s))) = Act(q, Matrix(g), Run(v, Total(s)))
    BY <2>1, AppliedOne DEF OnTwo, Qubits
  <2> QED BY <2>2, <2>3
<1>4. Adds(s, s2, q, Matrix(g))
  BY <1>3 DEF Adds
<1>5. Count(Append(Total(s), g)) = Count(Total(s)) + Weight(g)
  BY <1>1, CountAppend
<1> QED BY <1>2, <1>4, <1>5

LEMMA CostType ==
  ASSUME NEW s, Sound(s)
  PROVE  /\ Count(Total(s)) \in Nat /\ Flags(s, 0) \in Nat /\ Flags(s, 1) \in Nat /\ Cost(s) \in Nat
         /\ \A q \in Qubits : Cost(s) = Count(Total(s)) + Flags(s, q) + Flags(s, 1 - q)
<1>1. 0 \in Qubits /\ 1 \in Qubits
  BY DEF Qubits
<1>2. Total(s) \in Seq(Gates)
  BY <1>1, SoundFields
<1>3. Count(Total(s)) \in Nat
  BY <1>2, CountFinite
<1>4. \A q : Flags(s, q) \in Nat
  BY DEF Flags, One
<1> QED BY <1>3, <1>4 DEF Cost, Qubits

(***************************************************************************)
(* What is held back going out.                                            *)
(***************************************************************************)
AfterRz(s, s2, q) ==
  /\ Flushes(s, s2) /\ SameOn(s, s2, 1 - q) /\ s2.queued_gates = <<>> /\ SameOn(s, s2, q)
AfterH(s, s2, q) ==
  /\ Flushes(s, s2) /\ SameOn(s, s2, 1 - q) /\ s2.queued_gates = <<>>
  /\ ~s2.queue_H[q]
  /\ s2.queue_Rx[q] = s.queue_Rx[q] /\ s2.angles_Rx[q] = s.angles_Rx[q]
  /\ s2.queue_Ry[q] = s.queue_Ry[q] /\ s2.angles_Ry[q] = s.angles_Ry[q]
AfterRx(s, s2, q) ==
  /\ Flushes(s, s2) /\ SameOn(s, s2, 1 - q) /\ s2.queued_gates = <<>>
  /\ ~s2.queue_H[q] /\ ~s2.queue_Rx[q]
  /\ s2.queue_Ry[q] = s.queue_Ry[q] /\ s2.angles_Ry[q] = s.angles_Ry[q]
AfterRy(s, s2, q) ==
  /\ Flushes(s, s2) /\ SameOn(s, s2, 1 - q) /\ s2.queued_gates = <<>>
  /\ ~s2.queue_H[q] /\ ~s2.queue_Rx[q] /\ ~s2.queue_Ry[q]

LEMMA FlushesOnce == ASSUME NEW s, Sound(s) PROVE Flushes(s, s)
BY DEF Flushes

LEMMA FlushesTwice ==
  ASSUME NEW s, NEW s2, NEW s3, Flushes(s, s2), Flushes(s2, s3)
  PROVE  Flushes(s, s3)
BY DEF Flushes

LEMMA PhasedNot == \A k \in Int, v \in Vec : Mod(k) = 1 => Phased(k, v) = v
BY PhasedAlike, PhasedOne DEF Mod, Field

(* A gate that goes out, held back no more.                                  *)
LEMMA GoesOut ==
  ASSUME NEW s, NEW s2, Sound(s), Sound(s2), NEW q \in Qubits, NEW g \in Gates, g.on = <<q>>,
         g.name \notin OnTwo, g.name \in Branching, Total(s2) = Append(Total(s), g),
         SameOn(s, s2, 1 - q), Flags(s, q) = Flags(s2, q) + 1,
         \A x \in Vec : Kept(s2, q, Act(q, Matrix(g), x)) = Kept(s, q, x)
  PROVE  Flushes(s, s2)
<1>1. Adds(s, s2, q, Matrix(g)) /\ Matrix(g) \in Mat /\ Count(Total(s2)) = Count(Total(s)) + Weight(g)
  BY AddsGate
<1>2. ASSUME NEW x \in Vec
      PROVE  Kept(s2, q, Act(q, Matrix(g), x)) = Phased(1, Act(q, MI, Kept(s, q, x)))
  <2>1. Kept(s, q, x) \in Vec
    BY KeptType
  <2> QED BY <2>1, ActOne, PhasedOne
<1>3. Turns(s, s2, q, Matrix(g), MI, 1)
  BY <1>2 DEF Turns
<1>4. Means(s, s2, q, MI, 1)
  BY <1>1, <1>3, OneQubitStep, FixedTypes
<1>5. ASSUME NEW v \in Vec PROVE Meaning(s2, v) = Meaning(s, v)
  <2>1. Meaning(s, v) \in Vec
    BY MeaningFrom DEF Qubits
  <2> QED BY <1>4, <2>1, ActOne, PhasedOne DEF Means
<1>6. Cost(s2) = Cost(s)
  <2>1. Flags(s2, 1 - q) = Flags(s, 1 - q)
    BY DEF SameOn, Flags
  <2>2. Weight(g) = 1
    BY DEF Weight
  <2>3. /\ Cost(s) = Count(Total(s)) + Flags(s, q) + Flags(s, 1 - q)
        /\ Cost(s2) = Count(Total(s2)) + Flags(s2, q) + Flags(s2, 1 - q)
    BY CostType
  <2>4. \A p : Flags(s2, p) \in Int /\ Flags(s, p) \in Int
    BY DEF Flags, One
  <2>5. Count(Total(s)) \in Int
    BY CostType
  <2> QED BY <1>1, <2>1, <2>2, <2>3, <2>4, <2>5
<1> QED BY <1>5, <1>6 DEF Flushes

LEMMA Emitted ==
  ASSUME NEW s, s \in PassType, NEW g \in Gates
  PROVE  /\ Emit(s, g) \in PassType
         /\ Emit(s, g).queue_H = s.queue_H /\ Emit(s, g).queue_Rx = s.queue_Rx
         /\ Emit(s, g).queue_Ry = s.queue_Ry /\ Emit(s, g).angles_Rx = s.angles_Rx
         /\ Emit(s, g).angles_Ry = s.angles_Ry /\ Emit(s, g).queued_gates = s.queued_gates
         /\ Emit(s, g).modified_circuit = Append(s.modified_circuit, g)
<1>1. s.modified_circuit \in Seq(Gates)
  BY DEF PassType
<1>2. Append(s.modified_circuit, g) \in Seq(Gates)
  BY <1>1, AppendProperties
<1> QED BY <1>2 DEF Emit, PassType

LEMMA Enqueued ==
  ASSUME NEW s, s \in PassType, NEW g \in Gates
  PROVE  /\ Enqueue(s, g) \in PassType
         /\ Enqueue(s, g).queue_H = s.queue_H /\ Enqueue(s, g).queue_Rx = s.queue_Rx
         /\ Enqueue(s, g).queue_Ry = s.queue_Ry /\ Enqueue(s, g).angles_Rx = s.angles_Rx
         /\ Enqueue(s, g).angles_Ry = s.angles_Ry
         /\ Enqueue(s, g).modified_circuit = s.modified_circuit
         /\ Enqueue(s, g).queued_gates = Append(s.queued_gates, g)
<1>1. s.queued_gates \in Seq(Gates)
  BY DEF PassType
<1>2. Append(s.queued_gates, g) \in Seq(Gates)
  BY <1>1, AppendProperties
<1> QED BY <1>2 DEF Enqueue, PassType

(* No rotation by no angle.                                                  *)
LEMMA NoTurn ==
  \A x \in Vec : \A q : Act(q, MRx(0), x) = x /\ Act(q, MRy(0), x) = x
<1> SUFFICES ASSUME NEW x \in Vec, NEW q PROVE Act(q, MRx(0), x) = x /\ Act(q, MRy(0), x) = x
  OBVIOUS
<1>1. MRx(0) \in Mat /\ MRy(0) \in Mat /\ MI \in Mat
  BY TurnTypes, FixedTypes
<1>2. Act(q, MRx(0), x) = Act(q, MI, x) /\ Act(q, MRy(0), x) = Act(q, MI, x)
  BY <1>1, NoRotation, ActAlike
<1> QED BY <1>2, ActOne

LEMMA PhaseQueueOut ==
  ASSUME NEW s, Sound(s), NEW q \in Qubits
  PROVE  AfterRz(s, execute_phase_and_permute(s), q)
<1> DEFINE p == execute_phase_and_permute(s)
<1>1. s \in PassType /\ s.modified_circuit \in Seq(Gates) /\ s.queued_gates \in Seq(Gates)
  BY SoundFields DEF Sound
<1>2. Total(s) \in Seq(Gates) /\ <<>> \in Seq(Gates)
  BY SoundFields, EmptySeq
<1>3. p \in PassType
  BY <1>1, <1>2 DEF execute_phase_and_permute, PassType, Total
<1>4. /\ p.queue_H = s.queue_H /\ p.queue_Rx = s.queue_Rx /\ p.queue_Ry = s.queue_Ry
      /\ p.angles_Rx = s.angles_Rx /\ p.angles_Ry = s.angles_Ry
      /\ p.queued_gates = <<>> /\ p.modified_circuit = Total(s)
  BY <1>1 DEF execute_phase_and_permute, PassType, Total
<1> HIDE DEF p
<1>5. Total(p) = Total(s)
  BY <1>2, <1>4, ConcatEmptySeq DEF Total
<1>6. Sound(p)
  BY <1>3, <1>4 DEF Sound
<1>7. \A r : SameOn(s, p, r)
  BY <1>4 DEF SameOn
<1>8. Cost(p) = Cost(s) /\ \A v : Meaning(p, v) = Meaning(s, v)
  BY <1>4, <1>5 DEF Cost, Flags, Meaning, Kept
<1>9. AfterRz(s, p, q)
  BY <1>4, <1>6, <1>7, <1>8 DEF AfterRz, Flushes
<1> QED BY <1>9 DEF p

LEMMA ExecuteH ==
  ASSUME NEW s, Sound(s), NEW q \in Qubits, s.queued_gates = <<>>
  PROVE  AfterH(s, execute_H(s, q), q)
<1>1. CASE ~s.queue_H[q]
  <2>1. execute_H(s, q) = s
    BY <1>1 DEF execute_H
  <2> QED BY <1>1, <2>1, FlushesOnce DEF AfterH, SameOn
<1>2. CASE s.queue_H[q]
  <2> DEFINE g == Gate("H", <<q>>, <<>>)
             s2 == execute_H(s, q)
  <2>1. g \in Gates /\ g.on = <<q>> /\ g.name \notin OnTwo /\ g.name \in Branching /\ Matrix(g) = MH
    <3>1. g \in Gates
      <4>1. 0 \in Int /\ "H" \in Plain
        BY DEF Plain
      <4> QED BY <4>1, GatesPutOut
    <3>2. g.on = <<q>> /\ g.name = "H"
      BY DEF Gate
    <3> QED BY <3>1, <3>2, MatricesOfPlain DEF OnTwo, Controlled, Branching
  <2> HIDE DEF g
  <2>2. s2 = [Emit(s, g) EXCEPT !.queue_H[q] = FALSE]
    BY <1>2 DEF execute_H, g
  <2>3. s \in PassType /\ s.modified_circuit \in Seq(Gates) /\ 1 - q \in Qubits /\ 1 - q # q
    BY SoundFields DEF Sound, Qubits
  <2>4. Append(s.modified_circuit, g) \in Seq(Gates)
    BY <2>1, <2>3, AppendProperties
  <2>5. /\ s2 \in PassType
        /\ s2.queue_H[q] = FALSE /\ s2.queue_H[1 - q] = s.queue_H[1 - q]
        /\ s2.queue_Rx = s.queue_Rx /\ s2.queue_Ry = s.queue_Ry
        /\ s2.angles_Rx = s.angles_Rx /\ s2.angles_Ry = s.angles_Ry
        /\ s2.queued_gates = <<>> /\ s2.modified_circuit = Append(s.modified_circuit, g)
    <3> DEFINE e == Emit(s, g)
    <3>1. /\ e \in PassType /\ e.queue_H = s.queue_H /\ e.queue_Rx = s.queue_Rx /\ e.queue_Ry = s.queue_Ry
          /\ e.angles_Rx = s.angles_Rx /\ e.angles_Ry = s.angles_Ry
          /\ e.queued_gates = <<>> /\ e.modified_circuit = Append(s.modified_circuit, g)
      BY <2>1, <2>3, Emitted
    <3> HIDE DEF e, s2
    <3>2. s2 = [e EXCEPT !.queue_H[q] = FALSE]
      BY <2>2 DEF e
    <3>3. s2 \in PassType
      BY <3>1, <3>2 DEF PassType
    <3>4. /\ s2.queue_H = [e.queue_H EXCEPT ![q] = FALSE]
          /\ s2.queue_Rx = e.queue_Rx /\ s2.queue_Ry = e.queue_Ry
          /\ s2.angles_Rx = e.angles_Rx /\ s2.angles_Ry = e.angles_Ry
          /\ s2.queued_gates = e.queued_gates /\ s2.modified_circuit = e.modified_circuit
      BY <3>1, <3>2 DEF PassType
    <3>5. e.queue_H \in [Qubits -> BOOLEAN]
      BY <3>1 DEF PassType
    <3> QED BY <2>3, <3>1, <3>3, <3>4, <3>5
  <2> HIDE DEF s2
  <2>6. Sound(s2)
    BY <2>5 DEF Sound
  <2>7. Total(s2) = Append(Total(s), g)
    BY <2>3, <2>4, <2>5, ConcatEmptySeq DEF Total
  <2>8. SameOn(s, s2, 1 - q) /\ Flags(s, q) = Flags(s2, q) + 1
    <3>1. s.queue_H[q] = TRUE
      BY <1>2, SoundFields
    <3> QED BY <2>5, <3>1 DEF SameOn, Flags, One
  <2>9. \A x \in Vec : Kept(s2, q, Act(q, Matrix(g), x)) = Kept(s, q, x)
    BY <1>2, <2>1, <2>5 DEF Kept, Back
  <2>10. Flushes(s, s2)
    BY <2>1, <2>6, <2>7, <2>8, <2>9, GoesOut
  <2>11. AfterH(s, s2, q)
    BY <2>5, <2>8, <2>10 DEF AfterH
  <2> QED BY <2>11 DEF s2
<1> QED BY <1>1, <1>2

LEMMA ExecuteRx ==
  ASSUME NEW s, Sound(s), NEW q \in Qubits, s.queued_gates = <<>>
  PROVE  AfterRx(s, execute_RxH(s, q), q)
<1> DEFINE h == execute_H(s, q)
<1>1. AfterH(s, h, q)
  BY ExecuteH
<1>2. Sound(h) /\ Flushes(s, h) /\ h.queued_gates = <<>> /\ ~h.queue_H[q] /\ h.queue_Rx[q] = s.queue_Rx[q]
      /\ h.queue_Ry[q] = s.queue_Ry[q] /\ h.angles_Ry[q] = s.angles_Ry[q] /\ SameOn(s, h, 1 - q)
  BY <1>1 DEF AfterH, Flushes
<1>3. execute_RxH(s, q) =
        IF h.queue_Rx[q]
        THEN [Emit(h, Gate("Rx", <<q>>, <<h.angles_Rx[q]>>)) EXCEPT !.queue_Rx[q] = FALSE, !.angles_Rx[q] = 0]
        ELSE h
  BY DEF execute_RxH
<1> HIDE DEF h
<1>4. CASE ~h.queue_Rx[q]
  BY <1>2, <1>3, <1>4 DEF AfterRx
<1>5. CASE h.queue_Rx[q]
  <2> DEFINE a == h.angles_Rx[q]
             g == Gate("Rx", <<q>>, <<a>>)
             s2 == execute_RxH(s, q)
  <2>1. g \in Gates /\ g.on = <<q>> /\ g.name \notin OnTwo /\ g.name \in Branching /\ Matrix(g) = MRx(a)
    <3>1. g \in Gates
      BY <1>2, SoundFields, GatesPutOut
    <3>2. g.on = <<q>> /\ g.name = "Rx" /\ g.angles = <<a>>
      BY DEF Gate
    <3>3. Angle(g) = a
      BY <3>2 DEF Angle
    <3> QED BY <3>1, <3>2, <3>3, MatricesOfTurning DEF OnTwo, Controlled, Branching
  <2>2. s2 = [Emit(h, g) EXCEPT !.queue_Rx[q] = FALSE, !.angles_Rx[q] = 0]
    BY <1>3, <1>5
  <2>3. h \in PassType /\ h.modified_circuit \in Seq(Gates) /\ 1 - q \in Qubits /\ 1 - q # q /\ a \in Int
    BY <1>2, SoundFields DEF Sound, Qubits
  <2> HIDE DEF g
  <2>4. Append(h.modified_circuit, g) \in Seq(Gates)
    BY <2>1, <2>3, AppendProperties
  <2>5. /\ s2 \in PassType
        /\ s2.queue_Rx[q] = FALSE /\ s2.queue_Rx[1 - q] = h.queue_Rx[1 - q]
        /\ s2.angles_Rx[q] = 0 /\ s2.angles_Rx[1 - q] = h.angles_Rx[1 - q]
        /\ s2.queue_H = h.queue_H /\ s2.queue_Ry = h.queue_Ry /\ s2.angles_Ry = h.angles_Ry
        /\ s2.queued_gates = <<>> /\ s2.modified_circuit = Append(h.modified_circuit, g)
    <3> DEFINE e == Emit(h, g)
    <3>1. /\ e \in PassType /\ e.queue_H = h.queue_H /\ e.queue_Rx = h.queue_Rx /\ e.queue_Ry = h.queue_Ry
          /\ e.angles_Rx = h.angles_Rx /\ e.angles_Ry = h.angles_Ry
          /\ e.queued_gates = <<>> /\ e.modified_circuit = Append(h.modified_circuit, g)
      BY <1>2, <2>1, <2>3, Emitted
    <3> HIDE DEF e, s2
    <3>2. s2 = [e EXCEPT !.queue_Rx[q] = FALSE, !.angles_Rx[q] = 0]
      BY <2>2 DEF e
    <3>3. s2 \in PassType
      <4> DEFINE flag == [e.queue_Rx EXCEPT ![q] = FALSE]
                 angle == [e.angles_Rx EXCEPT ![q] = 0]
      <4>1. flag \in [Qubits -> BOOLEAN] /\ angle \in [Qubits -> Int]
        BY <3>1 DEF PassType
      <4>2. s2 = [e EXCEPT !.queue_Rx = flag, !.angles_Rx = angle]
        BY <3>2
      <4> HIDE DEF flag, angle
      <4> QED BY <3>1, <4>1, <4>2 DEF PassType
    <3>4. /\ s2.queue_Rx = [e.queue_Rx EXCEPT ![q] = FALSE] /\ s2.angles_Rx = [e.angles_Rx EXCEPT ![q] = 0]
          /\ s2.queue_H = e.queue_H /\ s2.queue_Ry = e.queue_Ry /\ s2.angles_Ry = e.angles_Ry
          /\ s2.queued_gates = e.queued_gates /\ s2.modified_circuit = e.modified_circuit
      BY <3>1, <3>2 DEF PassType
    <3>5. e.queue_Rx \in [Qubits -> BOOLEAN] /\ e.angles_Rx \in [Qubits -> Int]
      BY <3>1 DEF PassType
    <3> QED BY <2>3, <3>1, <3>3, <3>4, <3>5
  <2> HIDE DEF s2
  <2>6. Sound(s2)
    <3>1. ASSUME NEW r \in Qubits
          PROVE  (~s2.queue_Rx[r] => s2.angles_Rx[r] = 0) /\ (~s2.queue_Ry[r] => s2.angles_Ry[r] = 0)
      <4>1. r = q \/ r = 1 - q
        BY DEF Qubits
      <4> QED BY <1>2, <2>5, <4>1 DEF Sound
    <3> QED BY <2>5, <3>1 DEF Sound
  <2>7. Total(s2) = Append(Total(h), g)
    BY <1>2, <2>3, <2>4, <2>5, ConcatEmptySeq DEF Total
  <2>8. SameOn(h, s2, 1 - q) /\ Flags(h, q) = Flags(s2, q) + 1
    <3>1. h.queue_Rx[q] = TRUE
      BY <1>2, <1>5, SoundFields
    <3> QED BY <2>5, <3>1 DEF SameOn, Flags, One
  <2>9. ASSUME NEW x \in Vec PROVE Kept(s2, q, Act(q, Matrix(g), x)) = Kept(h, q, x)
    <3>1. Act(q, MRx(a), x) \in Vec
      BY <2>3, TurnTypes, ActType
    <3>2. Act(q, MRx(0), Act(q, MRx(a), x)) = Act(q, MRx(a), x)
      BY <3>1, NoTurn
    <3> QED BY <1>2, <2>1, <2>5, <3>2 DEF Kept, Back
  <2>10. Flushes(h, s2)
    BY <1>2, <2>1, <2>6, <2>7, <2>8, <2>9, GoesOut
  <2>11. Flushes(s, s2)
    BY <1>2, <2>10, FlushesTwice
  <2>12. SameOn(s, s2, 1 - q)
    BY <1>2, <2>8 DEF SameOn
  <2>13. AfterRx(s, s2, q)
    BY <1>2, <2>5, <2>11, <2>12 DEF AfterRx
  <2> QED BY <2>13 DEF s2
<1> QED BY <1>4, <1>5

LEMMA ExecuteRy ==
  ASSUME NEW s, Sound(s), NEW q \in Qubits, s.queued_gates = <<>>
  PROVE  AfterRy(s, execute_RyRxH(s, q), q)
<1> DEFINE h == execute_RxH(s, q)
<1>1. AfterRx(s, h, q)
  BY ExecuteRx
<1>2. Sound(h) /\ Flushes(s, h) /\ h.queued_gates = <<>> /\ ~h.queue_H[q] /\ ~h.queue_Rx[q]
      /\ SameOn(s, h, 1 - q)
  BY <1>1 DEF AfterRx, Flushes
<1>3. execute_RyRxH(s, q) =
        IF h.queue_Ry[q]
        THEN [Emit(h, Gate("Ry", <<q>>, <<h.angles_Ry[q]>>)) EXCEPT !.queue_Ry[q] = FALSE, !.angles_Ry[q] = 0]
        ELSE h
  BY DEF execute_RyRxH
<1> HIDE DEF h
<1>4. CASE ~h.queue_Ry[q]
  BY <1>2, <1>3, <1>4 DEF AfterRy
<1>5. CASE h.queue_Ry[q]
  <2> DEFINE a == h.angles_Ry[q]
             g == Gate("Ry", <<q>>, <<a>>)
             s2 == execute_RyRxH(s, q)
  <2>1. g \in Gates /\ g.on = <<q>> /\ g.name \notin OnTwo /\ g.name \in Branching /\ Matrix(g) = MRy(a)
    <3>1. g \in Gates
      BY <1>2, SoundFields, GatesPutOut
    <3>2. g.on = <<q>> /\ g.name = "Ry" /\ g.angles = <<a>>
      BY DEF Gate
    <3>3. Angle(g) = a
      BY <3>2 DEF Angle
    <3> QED BY <3>1, <3>2, <3>3, MatricesOfTurning DEF OnTwo, Controlled, Branching
  <2>2. s2 = [Emit(h, g) EXCEPT !.queue_Ry[q] = FALSE, !.angles_Ry[q] = 0]
    BY <1>3, <1>5
  <2>3. h \in PassType /\ h.modified_circuit \in Seq(Gates) /\ 1 - q \in Qubits /\ 1 - q # q /\ a \in Int
    BY <1>2, SoundFields DEF Sound, Qubits
  <2> HIDE DEF g
  <2>4. Append(h.modified_circuit, g) \in Seq(Gates)
    BY <2>1, <2>3, AppendProperties
  <2>5. /\ s2 \in PassType
        /\ s2.queue_Ry[q] = FALSE /\ s2.queue_Ry[1 - q] = h.queue_Ry[1 - q]
        /\ s2.angles_Ry[q] = 0 /\ s2.angles_Ry[1 - q] = h.angles_Ry[1 - q]
        /\ s2.queue_H = h.queue_H /\ s2.queue_Rx = h.queue_Rx /\ s2.angles_Rx = h.angles_Rx
        /\ s2.queued_gates = <<>> /\ s2.modified_circuit = Append(h.modified_circuit, g)
    <3> DEFINE e == Emit(h, g)
    <3>1. /\ e \in PassType /\ e.queue_H = h.queue_H /\ e.queue_Rx = h.queue_Rx /\ e.queue_Ry = h.queue_Ry
          /\ e.angles_Rx = h.angles_Rx /\ e.angles_Ry = h.angles_Ry
          /\ e.queued_gates = <<>> /\ e.modified_circuit = Append(h.modified_circuit, g)
      BY <1>2, <2>1, <2>3, Emitted
    <3> HIDE DEF e, s2
    <3>2. s2 = [e EXCEPT !.queue_Ry[q] = FALSE, !.angles_Ry[q] = 0]
      BY <2>2 DEF e
    <3>3. s2 \in PassType
      <4> DEFINE flag == [e.queue_Ry EXCEPT ![q] = FALSE]
                 angle == [e.angles_Ry EXCEPT ![q] = 0]
      <4>1. flag \in [Qubits -> BOOLEAN] /\ angle \in [Qubits -> Int]
        BY <3>1 DEF PassType
      <4>2. s2 = [e EXCEPT !.queue_Ry = flag, !.angles_Ry = angle]
        BY <3>2
      <4> HIDE DEF flag, angle
      <4> QED BY <3>1, <4>1, <4>2 DEF PassType
    <3>4. /\ s2.queue_Ry = [e.queue_Ry EXCEPT ![q] = FALSE] /\ s2.angles_Ry = [e.angles_Ry EXCEPT ![q] = 0]
          /\ s2.queue_H = e.queue_H /\ s2.queue_Rx = e.queue_Rx /\ s2.angles_Rx = e.angles_Rx
          /\ s2.queued_gates = e.queued_gates /\ s2.modified_circuit = e.modified_circuit
      BY <3>1, <3>2 DEF PassType
    <3>5. e.queue_Ry \in [Qubits -> BOOLEAN] /\ e.angles_Ry \in [Qubits -> Int]
      BY <3>1 DEF PassType
    <3> QED BY <2>3, <3>1, <3>3, <3>4, <3>5
  <2> HIDE DEF s2
  <2>6. Sound(s2)
    <3>1. ASSUME NEW r \in Qubits
          PROVE  (~s2.queue_Rx[r] => s2.angles_Rx[r] = 0) /\ (~s2.queue_Ry[r] => s2.angles_Ry[r] = 0)
      <4>1. r = q \/ r = 1 - q
        BY DEF Qubits
      <4> QED BY <1>2, <2>5, <4>1 DEF Sound
    <3> QED BY <2>5, <3>1 DEF Sound
  <2>7. Total(s2) = Append(Total(h), g)
    BY <1>2, <2>3, <2>4, <2>5, ConcatEmptySeq DEF Total
  <2>8. SameOn(h, s2, 1 - q) /\ Flags(h, q) = Flags(s2, q) + 1
    <3>1. h.queue_Ry[q] = TRUE
      BY <1>2, <1>5, SoundFields
    <3> QED BY <2>5, <3>1 DEF SameOn, Flags, One
  <2>9. ASSUME NEW x \in Vec PROVE Kept(s2, q, Act(q, Matrix(g), x)) = Kept(h, q, x)
    <3>0. h.angles_Rx[q] = 0
      BY <1>2 DEF Sound
    <3>1. Act(q, MRy(a), x) \in Vec
      BY <2>3, TurnTypes, ActType
    <3>2. ASSUME NEW y \in Vec PROVE Act(q, MRx(0), y) = y /\ Act(q, MRy(0), y) = y
      BY NoTurn
    <3> QED BY <1>2, <2>1, <2>5, <3>0, <3>1, <3>2 DEF Kept, Back
  <2>10. Flushes(h, s2)
    BY <1>2, <2>1, <2>6, <2>7, <2>8, <2>9, GoesOut
  <2>11. Flushes(s, s2)
    BY <1>2, <2>10, FlushesTwice
  <2>12. SameOn(s, s2, 1 - q)
    BY <1>2, <2>8 DEF SameOn
  <2>13. AfterRy(s, s2, q)
    BY <1>2, <2>5, <2>11, <2>12 DEF AfterRy
  <2> QED BY <2>13 DEF s2
<1> QED BY <1>4, <1>5

LEMMA Executes ==
  ASSUME NEW s, Sound(s), NEW q \in Qubits
  PROVE  /\ AfterRy(s, execute_queued_ops(s, q, "Ry"), q)
         /\ AfterRx(s, execute_queued_ops(s, q, "Rx"), q)
         /\ AfterH(s, execute_queued_ops(s, q, "H"), q)
         /\ AfterRz(s, execute_queued_ops(s, q, "Rz"), q)
<1> DEFINE p == execute_phase_and_permute(s)
<1>1. AfterRz(s, p, q)
  BY PhaseQueueOut
<1>2. /\ execute_queued_ops(s, q, "Ry") = execute_RyRxH(p, q)
      /\ execute_queued_ops(s, q, "Rx") = execute_RxH(p, q)
      /\ execute_queued_ops(s, q, "H") = execute_H(p, q)
      /\ execute_queued_ops(s, q, "Rz") = p
  BY DEF execute_queued_ops
<1> HIDE DEF p
<1>3. Sound(p) /\ p.queued_gates = <<>>
  BY <1>1 DEF AfterRz, Flushes
<1>4. AfterRy(p, execute_RyRxH(p, q), q) /\ AfterRx(p, execute_RxH(p, q), q) /\ AfterH(p, execute_H(p, q), q)
  BY <1>3, ExecuteH, ExecuteRx, ExecuteRy
<1>5. \A s2 : Flushes(p, s2) => Flushes(s, s2)
  BY <1>1, FlushesTwice DEF AfterRz
<1>6. \A s2 : AfterRy(p, s2, q) => AfterRy(s, s2, q)
  BY <1>1, <1>5 DEF AfterRy, AfterRz, SameOn
<1>7. \A s2 : AfterRx(p, s2, q) => AfterRx(s, s2, q)
  BY <1>1, <1>5 DEF AfterRx, AfterRz, SameOn
<1>8. \A s2 : AfterH(p, s2, q) => AfterH(s, s2, q)
  BY <1>1, <1>5 DEF AfterH, AfterRz, SameOn
<1> QED BY <1>1, <1>2, <1>4, <1>6, <1>7, <1>8

(***************************************************************************)
(* What passes what is held back.                                          *)
(***************************************************************************)

LEMMA TurnedType == \A a \in Int : Turned(a) \in Int /\ Turned(a) % Turn = a % Turn
BY DEF Turned, Turn

LEMMA MinusTwice == \A a \in Int : (-Turned(-a)) % Turn = a % Turn /\ -a \in Int
BY DEF Turned, Turn

LEMMA PastRotation ==
  ASSUME NEW q, NEW a \in Int, NEW v \in Vec
  PROVE  /\ Act(q, MX, Act(q, MRy(a), v)) = Act(q, MRy(Turned(-a)), Act(q, MX, v))
         /\ Act(q, MZ, Act(q, MRy(a), v)) = Act(q, MRy(Turned(-a)), Act(q, MZ, v))
         /\ Act(q, MY, Act(q, MRy(a), v)) = Act(q, MRy(a), Act(q, MY, v))
         /\ Act(q, MH, Act(q, MRy(a), v)) = Act(q, MRy(Turned(-a)), Act(q, MH, v))
         /\ Act(q, MX, Act(q, MRx(a), v)) = Act(q, MRx(a), Act(q, MX, v))
         /\ Act(q, MZ, Act(q, MRx(a), v)) = Act(q, MRx(Turned(-a)), Act(q, MZ, v))
         /\ Act(q, MY, Act(q, MRx(a), v)) = Act(q, MRx(Turned(-a)), Act(q, MY, v))
<1>1. -a \in Int /\ Turned(-a) \in Int /\ Turned(-a) % Turn = (-a) % Turn
  BY TurnedType
<1>2. MRy(Turned(-a)) = MRy(-a) /\ MRx(Turned(-a)) = MRx(-a)
  BY <1>1, RotationTurn
<1>3. /\ MX \in Mat /\ MY \in Mat /\ MZ \in Mat /\ MH \in Mat
      /\ MRy(a) \in Mat /\ MRx(a) \in Mat /\ MRy(-a) \in Mat /\ MRx(-a) \in Mat
  BY <1>1, FixedTypes, TurnTypes
<1>4. /\ Act(q, MX, Act(q, MRy(a), v)) = Act(q, MRy(-a), Act(q, MX, v))
      /\ Act(q, MY, Act(q, MRy(a), v)) = Act(q, MRy(a), Act(q, MY, v))
      /\ Act(q, MZ, Act(q, MRy(a), v)) = Act(q, MRy(-a), Act(q, MZ, v))
      /\ Act(q, MH, Act(q, MRy(a), v)) = Act(q, MRy(-a), Act(q, MH, v))
  BY <1>3, PassesRy, ActPasses
<1>5. /\ Act(q, MX, Act(q, MRx(a), v)) = Act(q, MRx(a), Act(q, MX, v))
      /\ Act(q, MY, Act(q, MRx(a), v)) = Act(q, MRx(-a), Act(q, MY, v))
      /\ Act(q, MZ, Act(q, MRx(a), v)) = Act(q, MRx(-a), Act(q, MZ, v))
  BY <1>3, PassesRx, ActPasses
<1> QED BY <1>2, <1>4, <1>5

LEMMA PastH ==
  ASSUME NEW q, NEW v \in Vec
  PROVE  /\ Act(q, MX, Act(q, MH, v)) = Act(q, MH, Act(q, MZ, v))
         /\ Act(q, MZ, Act(q, MH, v)) = Act(q, MH, Act(q, MX, v))
         /\ Act(q, MY, Act(q, MH, v)) = Act(q, MH, Act(q, Times(-1, MY), v))
         /\ Act(q, MH, Act(q, MH, v)) = v
<1>1. MX \in Mat /\ MY \in Mat /\ MZ \in Mat /\ MH \in Mat /\ MI \in Mat
  BY FixedTypes
<1>2. Times(-1, MY) \in Mat
  BY Constants DEF Times, MY, Mat
<1>3. /\ Act(q, MX, Act(q, MH, v)) = Act(q, MH, Act(q, MZ, v))
      /\ Act(q, MZ, Act(q, MH, v)) = Act(q, MH, Act(q, MX, v))
      /\ Act(q, MY, Act(q, MH, v)) = Act(q, MH, Act(q, Times(-1, MY), v))
  BY <1>1, <1>2, FixedIdentities, ActPasses
<1>4. Act(q, MH, Act(q, MH, v)) = Act(q, MI, v)
  <2>1. Act(q, MH, Act(q, MH, v)) = Act(q, Mul(MH, MH), v) /\ Mul(MH, MH) \in Mat
    BY <1>1, ActAct, MulType
  <2> QED BY <1>1, <2>1, FixedIdentities, ActAlike
<1> QED BY <1>3, <1>4, ActOne

LEMMA BackPhased ==
  ASSUME NEW q, NEW h \in BOOLEAN, NEW x \in Int, NEW y \in Int, NEW k \in Int, NEW v \in Vec
  PROVE  Back(q, h, x, y, Phased(k, v)) = Phased(k, Back(q, h, x, y, v))
<1> DEFINE a == IF h THEN Act(q, MH, v) ELSE v
           b == Act(q, MRx(x), a)
<1>1. MH \in Mat /\ MRx(x) \in Mat /\ MRy(y) \in Mat
  BY FixedTypes, TurnTypes
<1>2. a \in Vec /\ b \in Vec
  BY <1>1, ActType
<1>3. (IF h THEN Act(q, MH, Phased(k, v)) ELSE Phased(k, v)) = Phased(k, a)
  BY <1>1, ActPhased
<1>4. Act(q, MRx(x), Phased(k, a)) = Phased(k, b)
  <2> HIDE DEF a
  <2> QED BY <1>1, <1>2, ActPhased
<1>5. Act(q, MRy(y), Phased(k, b)) = Phased(k, Act(q, MRy(y), b))
  <2> HIDE DEF b
  <2> QED BY <1>1, <1>2, ActPhased
<1> QED BY <1>3, <1>4, <1>5 DEF Back

(* What is behind what is held back of H.                                    *)
Behind(q, h, v) == IF h THEN Act(q, MH, v) ELSE v

LEMMA BehindType ==
  ASSUME NEW q, NEW h \in BOOLEAN, NEW v \in Vec PROVE Behind(q, h, v) \in Vec
BY ActType, FixedTypes DEF Behind

LEMMA PastRotations ==
  ASSUME NEW q, NEW h \in BOOLEAN, NEW x \in Int, NEW y \in Int, NEW v \in Vec
  PROVE  /\ Act(q, MX, Back(q, h, x, y, v))
              = Act(q, MRy(Turned(-y)), Act(q, MRx(x), Act(q, MX, Behind(q, h, v))))
         /\ Act(q, MY, Back(q, h, x, y, v))
              = Act(q, MRy(y), Act(q, MRx(Turned(-x)), Act(q, MY, Behind(q, h, v))))
         /\ Act(q, MZ, Back(q, h, x, y, v))
              = Act(q, MRy(Turned(-y)), Act(q, MRx(Turned(-x)), Act(q, MZ, Behind(q, h, v))))
<1> DEFINE a == Behind(q, h, v)
           b == Act(q, MRx(x), a)
<1>1. a \in Vec
  BY BehindType
<1>2. b \in Vec
  BY <1>1, TurnTypes, ActType
<1>3. Back(q, h, x, y, v) = Act(q, MRy(y), b)
  BY DEF Back, Behind
<1> HIDE DEF a
<1>4. /\ Act(q, MX, b) = Act(q, MRx(x), Act(q, MX, a))
      /\ Act(q, MY, b) = Act(q, MRx(Turned(-x)), Act(q, MY, a))
      /\ Act(q, MZ, b) = Act(q, MRx(Turned(-x)), Act(q, MZ, a))
  BY <1>1, PastRotation
<1> HIDE DEF b
<1>5. /\ Act(q, MX, Act(q, MRy(y), b)) = Act(q, MRy(Turned(-y)), Act(q, MX, b))
      /\ Act(q, MY, Act(q, MRy(y), b)) = Act(q, MRy(y), Act(q, MY, b))
      /\ Act(q, MZ, Act(q, MRy(y), b)) = Act(q, MRy(Turned(-y)), Act(q, MZ, b))
  BY <1>2, PastRotation
<1> QED BY <1>3, <1>4, <1>5 DEF a

LEMMA XPasses ==
  ASSUME NEW q, NEW h \in BOOLEAN, NEW x \in Int, NEW y \in Int, NEW v \in Vec
  PROVE  /\ h => Act(q, MX, Back(q, h, x, y, v)) = Back(q, h, x, Turned(-y), Act(q, MZ, v))
         /\ ~h => Act(q, MX, Back(q, h, x, y, v)) = Back(q, h, x, Turned(-y), Act(q, MX, v))
<1>1. h => Act(q, MX, Behind(q, h, v)) = Behind(q, h, Act(q, MZ, v))
  BY PastH DEF Behind
<1>2. ~h => Act(q, MX, Behind(q, h, v)) = Behind(q, h, Act(q, MX, v))
  BY DEF Behind
<1>3. Act(q, MX, Back(q, h, x, y, v))
        = Act(q, MRy(Turned(-y)), Act(q, MRx(x), Act(q, MX, Behind(q, h, v))))
  BY PastRotations
<1>4. \A w : Back(q, h, x, Turned(-y), w) = Act(q, MRy(Turned(-y)), Act(q, MRx(x), Behind(q, h, w)))
  BY DEF Back, Behind
<1> QED BY <1>1, <1>2, <1>3, <1>4

LEMMA ZPasses ==
  ASSUME NEW q, NEW h \in BOOLEAN, NEW x \in Int, NEW y \in Int, NEW v \in Vec
  PROVE  /\ h => Act(q, MZ, Back(q, h, x, y, v)) = Back(q, h, Turned(-x), Turned(-y), Act(q, MX, v))
         /\ ~h => Act(q, MZ, Back(q, h, x, y, v)) = Back(q, h, Turned(-x), Turned(-y), Act(q, MZ, v))
<1>1. h => Act(q, MZ, Behind(q, h, v)) = Behind(q, h, Act(q, MX, v))
  BY PastH DEF Behind
<1>2. ~h => Act(q, MZ, Behind(q, h, v)) = Behind(q, h, Act(q, MZ, v))
  BY DEF Behind
<1>3. Act(q, MZ, Back(q, h, x, y, v))
        = Act(q, MRy(Turned(-y)), Act(q, MRx(Turned(-x)), Act(q, MZ, Behind(q, h, v))))
  BY PastRotations
<1>4. \A w : Back(q, h, Turned(-x), Turned(-y), w)
               = Act(q, MRy(Turned(-y)), Act(q, MRx(Turned(-x)), Behind(q, h, w)))
  BY DEF Back, Behind
<1> QED BY <1>1, <1>2, <1>3, <1>4

LEMMA MinusOne ==
  ASSUME NEW v \in Vec
  PROVE  /\ \A q : Act(q, Times(-1, MY), v) = Phased(-1, Act(q, MY, v))
         /\ Phased(Zeta(8), Phased(-1, v)) = v
<1>1. \A q : Act(q, Times(-1, MY), v) = Phased(-1, Act(q, MY, v))
  BY FixedTypes, ActTimes
<1>2. Phased(256, Phased(-1, v)) = Phased(256 * (-1), v)
  BY PhasedPhased
<1>3. 256 * (-1) \in Int /\ Mod(256 * (-1)) = 1
  <2>1. \A k \in Int : k + 256 = 0 => k % 257 = 1
    OBVIOUS
  <2>2. 256 * (-1) \in Int /\ 256 * (-1) + 256 = 0
    OBVIOUS
  <2> QED BY <2>1, <2>2 DEF Mod, Field
<1>4. Phased(256 * (-1), v) = v
  BY <1>3, PhasedNot
<1> QED BY <1>1, <1>2, <1>4, ZetaValues

LEMMA YPasses ==
  ASSUME NEW q, NEW h \in BOOLEAN, NEW x \in Int, NEW y \in Int, NEW v \in Vec
  PROVE  /\ h => Back(q, h, Turned(-x), y, Act(q, MY, v))
                   = Phased(Zeta(8), Act(q, MY, Back(q, h, x, y, v)))
         /\ ~h => Back(q, h, Turned(-x), y, Act(q, MY, v)) = Act(q, MY, Back(q, h, x, y, v))
<1>1. h => Act(q, MY, Behind(q, h, v)) = Behind(q, h, Act(q, Times(-1, MY), v))
  BY PastH DEF Behind
<1>2. ~h => Act(q, MY, Behind(q, h, v)) = Behind(q, h, Act(q, MY, v))
  BY DEF Behind
<1>3. Act(q, MY, Back(q, h, x, y, v))
        = Act(q, MRy(y), Act(q, MRx(Turned(-x)), Act(q, MY, Behind(q, h, v))))
  BY PastRotations
<1>4. \A w : Back(q, h, Turned(-x), y, w) = Act(q, MRy(y), Act(q, MRx(Turned(-x)), Behind(q, h, w)))
  BY DEF Back, Behind
<1>5. ASSUME h PROVE Back(q, h, Turned(-x), y, Act(q, MY, v)) = Phased(Zeta(8), Act(q, MY, Back(q, h, x, y, v)))
  <2> DEFINE w == Act(q, MY, v)
             b == Back(q, h, Turned(-x), y, w)
  <2>1. w \in Vec /\ -x \in Int /\ Turned(-x) \in Int
    BY FixedTypes, ActType, TurnedType
  <2>2. b \in Vec
    BY <2>1, BackType
  <2>3. Act(q, MY, Back(q, h, x, y, v)) = Back(q, h, Turned(-x), y, Phased(-1, w))
    BY <1>1, <1>3, <1>4, <1>5, MinusOne
  <2>4. Back(q, h, Turned(-x), y, Phased(-1, w)) = Phased(-1, b)
    <3> HIDE DEF w
    <3> QED BY <2>1, BackPhased
  <2> HIDE DEF b
  <2>5. Phased(Zeta(8), Phased(-1, b)) = b
    BY <2>2, MinusOne
  <2> QED BY <2>3, <2>4, <2>5 DEF b
<1> QED BY <1>2, <1>3, <1>4, <1>5

LEMMA HPasses ==
  ASSUME NEW q, NEW h \in BOOLEAN, NEW y \in Int, NEW v \in Vec
  PROVE  Act(q, MH, Back(q, h, 0, y, v)) = Back(q, ~h, 0, Turned(-y), v)
<1> DEFINE a == Behind(q, h, v)
<1>1. a \in Vec
  BY BehindType
<1>2. Back(q, h, 0, y, v) = Act(q, MRy(y), a)
  <2>1. Act(q, MRx(0), a) = a
    BY <1>1, NoTurn
  <2> QED BY <2>1 DEF Back, Behind
<1>3. Act(q, MH, Act(q, MRy(y), a)) = Act(q, MRy(Turned(-y)), Act(q, MH, a))
  <2> HIDE DEF a
  <2> QED BY <1>1, PastRotation
<1>4. Act(q, MH, a) = Behind(q, ~h, v)
  BY PastH DEF Behind
<1>5. Behind(q, ~h, v) \in Vec
  BY BehindType
<1>6. Act(q, MRx(0), Behind(q, ~h, v)) = Behind(q, ~h, v)
  BY <1>5, NoTurn
<1>7. Back(q, ~h, 0, Turned(-y), v) = Act(q, MRy(Turned(-y)), Behind(q, ~h, v))
  BY <1>6 DEF Back, Behind
<1> QED BY <1>2, <1>3, <1>4, <1>7

(***************************************************************************)
(* One-qubit gates.                                                        *)
(***************************************************************************)

(* What a handler on one qubit does: a matrix, up to a phase, for at most w  *)
(* more gates that create superpositions.                                    *)
Does(s, s2, q, m, k, w) == Sound(s2) /\ Cost(s2) <= Cost(s) + w /\ Means(s, s2, q, m, Zeta(k))

LEMMA FlushThenDoes ==
  ASSUME NEW s, NEW s2, NEW s3, NEW q, NEW m, NEW k, NEW w, Flushes(s, s2), Does(s2, s3, q, m, k, w)
  PROVE  Does(s, s3, q, m, k, w)
<1>1. /\ Sound(s3) /\ Cost(s3) <= Cost(s) + w
      /\ \A v \in Vec : Meaning(s3, v) = Phased(Zeta(k), Act(q, m, Meaning(s, v)))
  BY DEF Flushes, Does, Means
<1> QED BY <1>1 DEF Does, Means

LEMMA FlushThenSimulates ==
  ASSUME NEW s, NEW s2, NEW s3, NEW g, Flushes(s, s2), Simulates(s2, s3, g)
  PROVE  Simulates(s, s3, g)
<1>1. PICK k \in 0 .. 15 : \A v \in Vec : Meaning(s3, v) = Phased(Zeta(k), Applied(g, Meaning(s2, v)))
  BY DEF Simulates
<1>2. Sound(s3) /\ Cost(s3) <= Cost(s) + Weight(g)
  BY DEF Flushes, Simulates
<1>3. \A v \in Vec : Meaning(s3, v) = Phased(Zeta(k), Applied(g, Meaning(s, v)))
  BY <1>1 DEF Flushes
<1> QED BY <1>2, <1>3 DEF Simulates

LEMMA DoesSimulates ==
  ASSUME NEW s, Sound(s), NEW s2, NEW q \in Qubits, NEW k \in 0 .. 15, NEW g \in Gates, g.on = <<q>>,
         g.name \notin OnTwo, Does(s, s2, q, Matrix(g), k, Weight(g))
  PROVE  Simulates(s, s2, g)
<1>1. ASSUME NEW v \in Vec PROVE Applied(g, Meaning(s, v)) = Act(q, Matrix(g), Meaning(s, v))
  <2>1. Meaning(s, v) \in Vec
    BY MeaningFrom
  <2> QED BY <2>1, AppliedOne DEF OnTwo, Qubits
<1>2. \A v \in Vec : Meaning(s2, v) = Phased(Zeta(k), Applied(g, Meaning(s, v)))
  BY <1>1 DEF Does, Means
<1> QED BY <1>2 DEF Simulates, Does

(* Nothing held back does nothing.                                           *)
LEMMA NothingKept ==
  ASSUME NEW s, Sound(s), NEW q \in Qubits, ~s.queue_H[q], ~s.queue_Rx[q], ~s.queue_Ry[q], NEW v \in Vec
  PROVE  Kept(s, q, v) = v
BY NoTurn DEF Kept, Back, Sound

LEMMA SameOnTrans ==
  ASSUME NEW s, NEW s2, NEW s3, NEW q, SameOn(s, s2, q), SameOn(s2, s3, q)
  PROVE  SameOn(s, s3, q)
BY DEF SameOn

(* A gate joins the queue, or goes out past the empty queue.                 *)
LEMMA EnqueueOne ==
  ASSUME NEW s, Sound(s), NEW g \in Gates
  PROVE  /\ Sound(Enqueue(s, g)) /\ Total(Enqueue(s, g)) = Append(Total(s), g)
         /\ \A r : SameOn(s, Enqueue(s, g), r)
         /\ Cost(Enqueue(s, g)) = Cost(s) + Weight(g)
<1> DEFINE e == Enqueue(s, g)
<1>1. s \in PassType /\ s.modified_circuit \in Seq(Gates) /\ s.queued_gates \in Seq(Gates) /\ Total(s) \in Seq(Gates)
  BY SoundFields DEF Sound, Qubits
<1>2. /\ e \in PassType
      /\ e.queue_H = s.queue_H /\ e.queue_Rx = s.queue_Rx /\ e.queue_Ry = s.queue_Ry
      /\ e.angles_Rx = s.angles_Rx /\ e.angles_Ry = s.angles_Ry
      /\ e.modified_circuit = s.modified_circuit /\ e.queued_gates = Append(s.queued_gates, g)
  BY <1>1, Enqueued
<1> HIDE DEF e
<1>3. Sound(e)
  BY <1>2 DEF Sound
<1>4. s.modified_circuit \o Append(s.queued_gates, g) = Append(s.modified_circuit \o s.queued_gates, g)
  <2> DEFINE c == s.modified_circuit
             d == s.queued_gates
  <2>1. c \in Seq(Gates) /\ d \in Seq(Gates)
    BY <1>1
  <2> HIDE DEF c, d
  <2>2. c \o Append(d, g) = Append(c \o d, g)
    BY <2>1, ConcatAppend
  <2> QED BY <2>2 DEF c, d
<1>5. Total(e) = Append(Total(s), g)
  BY <1>2, <1>4 DEF Total
<1>6. \A r : SameOn(s, e, r)
  BY <1>2 DEF SameOn
<1>7. Count(Total(e)) = Count(Total(s)) + Weight(g)
  BY <1>1, <1>5, CountAppend
<1>8. Cost(e) = Cost(s) + Weight(g)
  <2>1. Flags(e, 0) = Flags(s, 0) /\ Flags(e, 1) = Flags(s, 1) /\ Weight(g) \in Int
    BY <1>2 DEF Flags, Weight
  <2>2. Count(Total(s)) \in Int /\ Flags(s, 0) \in Int /\ Flags(s, 1) \in Int
    BY CostType
  <2> QED BY <1>7, <2>1, <2>2 DEF Cost
<1>9. Sound(e) /\ Total(e) = Append(Total(s), g) /\ (\A r : SameOn(s, e, r)) /\ Cost(e) = Cost(s) + Weight(g)
  BY <1>3, <1>5, <1>6, <1>8
<1> QED BY <1>9 DEF e

LEMMA EmitOne ==
  ASSUME NEW s, Sound(s), s.queued_gates = <<>>, NEW g \in Gates
  PROVE  /\ Sound(Emit(s, g)) /\ Total(Emit(s, g)) = Append(Total(s), g)
         /\ \A r : SameOn(s, Emit(s, g), r)
         /\ Cost(Emit(s, g)) = Cost(s) + Weight(g)
<1> DEFINE e == Emit(s, g)
<1>1. s \in PassType /\ s.modified_circuit \in Seq(Gates) /\ Total(s) \in Seq(Gates)
  BY SoundFields DEF Sound, Qubits
<1>2. /\ e \in PassType
      /\ e.queue_H = s.queue_H /\ e.queue_Rx = s.queue_Rx /\ e.queue_Ry = s.queue_Ry
      /\ e.angles_Rx = s.angles_Rx /\ e.angles_Ry = s.angles_Ry
      /\ e.modified_circuit = Append(s.modified_circuit, g) /\ e.queued_gates = <<>>
  BY <1>1, Emitted
<1> HIDE DEF e
<1>3. Sound(e)
  BY <1>2 DEF Sound
<1>5. Total(e) = Append(Total(s), g)
  <2>1. Append(s.modified_circuit, g) \in Seq(Gates)
    BY <1>1, AppendProperties
  <2> QED BY <1>1, <1>2, <2>1, ConcatEmptySeq DEF Total
<1>6. \A r : SameOn(s, e, r)
  BY <1>2 DEF SameOn
<1>7. Count(Total(e)) = Count(Total(s)) + Weight(g)
  BY <1>1, <1>5, CountAppend
<1>8. Cost(e) = Cost(s) + Weight(g)
  <2>1. Flags(e, 0) = Flags(s, 0) /\ Flags(e, 1) = Flags(s, 1) /\ Weight(g) \in Int
    BY <1>2 DEF Flags, Weight
  <2>2. Count(Total(s)) \in Int /\ Flags(s, 0) \in Int /\ Flags(s, 1) \in Int
    BY CostType
  <2> QED BY <1>7, <2>1, <2>2 DEF Cost
<1>9. Sound(e) /\ Total(e) = Append(Total(s), g) /\ (\A r : SameOn(s, e, r)) /\ Cost(e) = Cost(s) + Weight(g)
  BY <1>3, <1>5, <1>6, <1>8
<1> QED BY <1>9 DEF e

(* An angle that is held back is turned round.                               *)
Turned2(s, s2, q) ==
  /\ Sound(s2) /\ Total(s2) = Total(s) /\ Cost(s2) = Cost(s) /\ SameOn(s, s2, 1 - q)
  /\ s2.queue_H[q] = s.queue_H[q] /\ s2.queue_Rx[q] = s.queue_Rx[q] /\ s2.queue_Ry[q] = s.queue_Ry[q]

LEMMA TurnedNothing == Turned(-0) = 0
BY DEF Turned, Turn

LEMMA NegatesRy ==
  ASSUME NEW s, Sound(s), NEW q \in Qubits
  PROVE  /\ Turned2(s, NegateRy(s, q), q)
         /\ NegateRy(s, q).angles_Ry[q] = Turned(-s.angles_Ry[q])
         /\ NegateRy(s, q).angles_Rx[q] = s.angles_Rx[q]
         /\ NegateRy(s, q).queued_gates = s.queued_gates
<1>1. CASE ~s.queue_Ry[q]
  <2>1. NegateRy(s, q) = s /\ s.angles_Ry[q] = 0
    BY <1>1 DEF NegateRy, Sound
  <2> QED BY <2>1, TurnedNothing DEF Turned2, SameOn
<1>2. CASE s.queue_Ry[q]
  <2> DEFINE n == NegateRy(s, q)
             angle == [s.angles_Ry EXCEPT ![q] = Turned(-@)]
  <2>1. s \in PassType /\ s.angles_Ry \in [Qubits -> Int] /\ 1 - q \in Qubits /\ 1 - q # q
    BY DEF Sound, PassType, Qubits
  <2>2. -s.angles_Ry[q] \in Int
    BY <2>1
  <2>3. Turned(-s.angles_Ry[q]) \in Int
    BY <2>2, TurnedType
  <2>4. /\ angle \in [Qubits -> Int] /\ angle[q] = Turned(-s.angles_Ry[q])
        /\ angle[1 - q] = s.angles_Ry[1 - q]
    BY <2>1, <2>3
  <2>5. n = [s EXCEPT !.angles_Ry = angle]
    BY <1>2 DEF NegateRy
  <2> HIDE DEF angle, n
  <2>6. /\ n \in PassType /\ n.angles_Ry = angle
        /\ n.queue_H = s.queue_H /\ n.queue_Rx = s.queue_Rx /\ n.queue_Ry = s.queue_Ry
        /\ n.angles_Rx = s.angles_Rx
        /\ n.modified_circuit = s.modified_circuit /\ n.queued_gates = s.queued_gates
    BY <2>1, <2>4, <2>5 DEF PassType
  <2>7. Sound(n)
    <3>1. ASSUME NEW r \in Qubits
          PROVE  (~n.queue_Rx[r] => n.angles_Rx[r] = 0) /\ (~n.queue_Ry[r] => n.angles_Ry[r] = 0)
      <4>1. r = q \/ r = 1 - q
        BY DEF Qubits
      <4> QED BY <1>2, <2>4, <2>6, <4>1 DEF Sound
    <3> QED BY <2>6, <3>1 DEF Sound
  <2>8. Total(n) = Total(s)
    BY <2>6 DEF Total
  <2>9. Cost(n) = Cost(s)
    BY <2>6, <2>8 DEF Cost, Flags
  <2>10. SameOn(s, n, 1 - q)
    BY <2>4, <2>6 DEF SameOn
  <2>11. Turned2(s, n, q) /\ n.angles_Ry[q] = Turned(-s.angles_Ry[q]) /\ n.angles_Rx[q] = s.angles_Rx[q]
         /\ n.queued_gates = s.queued_gates
    BY <2>4, <2>6, <2>7, <2>8, <2>9, <2>10 DEF Turned2
  <2> QED BY <2>11 DEF n
<1> QED BY <1>1, <1>2

LEMMA NegatesRx ==
  ASSUME NEW s, Sound(s), NEW q \in Qubits
  PROVE  /\ Turned2(s, NegateRx(s, q), q)
         /\ NegateRx(s, q).angles_Rx[q] = Turned(-s.angles_Rx[q])
         /\ NegateRx(s, q).angles_Ry[q] = s.angles_Ry[q]
<1>1. CASE ~s.queue_Rx[q]
  <2>1. NegateRx(s, q) = s /\ s.angles_Rx[q] = 0
    BY <1>1 DEF NegateRx, Sound
  <2> QED BY <2>1, TurnedNothing DEF Turned2, SameOn
<1>2. CASE s.queue_Rx[q]
  <2> DEFINE n == NegateRx(s, q)
             angle == [s.angles_Rx EXCEPT ![q] = Turned(-@)]
  <2>1. s \in PassType /\ s.angles_Rx \in [Qubits -> Int] /\ 1 - q \in Qubits /\ 1 - q # q
    BY DEF Sound, PassType, Qubits
  <2>2. -s.angles_Rx[q] \in Int
    BY <2>1
  <2>3. Turned(-s.angles_Rx[q]) \in Int
    BY <2>2, TurnedType
  <2>4. /\ angle \in [Qubits -> Int] /\ angle[q] = Turned(-s.angles_Rx[q])
        /\ angle[1 - q] = s.angles_Rx[1 - q]
    BY <2>1, <2>3
  <2>5. n = [s EXCEPT !.angles_Rx = angle]
    BY <1>2 DEF NegateRx
  <2> HIDE DEF angle, n
  <2>6. /\ n \in PassType /\ n.angles_Rx = angle
        /\ n.queue_H = s.queue_H /\ n.queue_Rx = s.queue_Rx /\ n.queue_Ry = s.queue_Ry
        /\ n.angles_Ry = s.angles_Ry
        /\ n.modified_circuit = s.modified_circuit /\ n.queued_gates = s.queued_gates
    BY <2>1, <2>4, <2>5 DEF PassType
  <2>7. Sound(n)
    <3>1. ASSUME NEW r \in Qubits
          PROVE  (~n.queue_Rx[r] => n.angles_Rx[r] = 0) /\ (~n.queue_Ry[r] => n.angles_Ry[r] = 0)
      <4>1. r = q \/ r = 1 - q
        BY DEF Qubits
      <4> QED BY <1>2, <2>4, <2>6, <4>1 DEF Sound
    <3> QED BY <2>6, <3>1 DEF Sound
  <2>8. Total(n) = Total(s)
    BY <2>6 DEF Total
  <2>9. Cost(n) = Cost(s)
    BY <2>6, <2>8 DEF Cost, Flags
  <2>10. SameOn(s, n, 1 - q)
    BY <2>4, <2>6 DEF SameOn
  <2>11. Turned2(s, n, q) /\ n.angles_Rx[q] = Turned(-s.angles_Rx[q]) /\ n.angles_Ry[q] = s.angles_Ry[q]
    BY <2>4, <2>6, <2>7, <2>8, <2>9, <2>10 DEF Turned2
  <2> QED BY <2>11 DEF n
<1> QED BY <1>1, <1>2

(* A fixed gate that joins the queue past what is turned round.              *)
LEMMA QueuedPast ==
  ASSUME NEW s, Sound(s), NEW n, NEW q \in Qubits, Turned2(s, n, q), NEW g \in Gates, g.on = <<q>>,
         g.name \notin OnTwo, g.name \notin Branching, NEW m \in Mat, NEW k \in 0 .. 15,
         \A x \in Vec : Back(q, n.queue_H[q], n.angles_Rx[q], n.angles_Ry[q], Act(q, Matrix(g), x))
                          = Phased(Zeta(k), Act(q, m, Kept(s, q, x)))
  PROVE  Does(s, Enqueue(n, g), q, m, k, 0)
<1> DEFINE e == Enqueue(n, g)
<1>1. Sound(n) /\ Total(n) = Total(s) /\ Cost(n) = Cost(s) /\ SameOn(s, n, 1 - q)
  BY DEF Turned2
<1>2. Sound(e) /\ Total(e) = Append(Total(n), g) /\ (\A r : SameOn(n, e, r)) /\ Cost(e) = Cost(n)
  <2>1. Sound(e) /\ Total(e) = Append(Total(n), g) /\ (\A r : SameOn(n, e, r)) /\ Cost(e) = Cost(n) + Weight(g)
    BY <1>1, EnqueueOne
  <2>2. Weight(g) = 0 /\ Cost(n) \in Int
    BY <1>1, CostType DEF Weight
  <2> HIDE DEF e
  <2> QED BY <2>1, <2>2
<1> HIDE DEF e
<1>3. Adds(s, e, q, Matrix(g)) /\ Matrix(g) \in Mat
  BY <1>1, <1>2, AddsGate
<1>4. ASSUME NEW x \in Vec
      PROVE  Kept(e, q, Act(q, Matrix(g), x)) = Phased(Zeta(k), Act(q, m, Kept(s, q, x)))
  <2>1. Kept(e, q, Act(q, Matrix(g), x)) = Kept(n, q, Act(q, Matrix(g), x))
    <3>1. SameOn(n, e, q)
      BY <1>2
    <3> QED BY <3>1, KeptSame
  <2> QED BY <2>1 DEF Kept
<1>5. Turns(s, e, q, Matrix(g), m, Zeta(k))
  BY <1>4 DEF Turns
<1>6. SameOn(s, e, 1 - q)
  BY <1>1, <1>2, SameOnTrans
<1>7. Zeta(k) \in Int
  BY ZetaInt
<1>8. Means(s, e, q, m, Zeta(k))
  BY <1>2, <1>3, <1>5, <1>6, <1>7, OneQubitStep
<1>9. Cost(e) <= Cost(s) + 0
  <2>1. Cost(s) \in Nat
    BY CostType
  <2> QED BY <1>1, <1>2, <2>1
<1>10. Does(s, e, q, m, k, 0)
  BY <1>2, <1>8, <1>9 DEF Does
<1> QED BY <1>10 DEF e

LEMMA ByOne == \A v \in Vec : Phased(Zeta(0), v) = v
BY PhasedOne, ZetaValues

(* The fixed gates on one qubit.                                             *)
LEMMA FixedGate ==
  ASSUME NEW q \in Qubits, NEW n \in {"I", "Measure", "X", "Y", "Z", "S", "Sdg", "T", "Tdg"}
  PROVE  /\ Gate(n, <<q>>, <<>>) \in Gates /\ Gate(n, <<q>>, <<>>).name = n
         /\ Gate(n, <<q>>, <<>>).on = <<q>> /\ n \notin OnTwo /\ n \notin Branching
<1>1. n \in Plain /\ n \notin OnTwo /\ n \notin Branching /\ 0 \in Int
  BY DEF Plain, OnTwo, Controlled, Branching
<1>2. Gate(n, <<q>>, <<>>) \in Gates
  BY <1>1, GatesPutOut
<1> QED BY <1>1, <1>2 DEF Gate

LEMMA XDoes ==
  ASSUME NEW s, Sound(s), NEW q \in Qubits
  PROVE  Does(s, X(s, q), q, MX, 0, 0)
<1> DEFINE n == NegateRy(s, q)
           name == IF s.queue_H[q] THEN "Z" ELSE "X"
           g == Gate(name, <<q>>, <<>>)
           h == s.queue_H[q]
           x0 == s.angles_Rx[q]
           y0 == s.angles_Ry[q]
<1>1. Turned2(s, n, q) /\ n.angles_Ry[q] = Turned(-y0) /\ n.angles_Rx[q] = x0 /\ n.queue_H[q] = h
  BY NegatesRy DEF Turned2
<1>2. g \in Gates /\ g.name = name /\ g.on = <<q>> /\ name \notin OnTwo /\ name \notin Branching
  <2>1. name \in {"I", "Measure", "X", "Y", "Z", "S", "Sdg", "T", "Tdg"}
    OBVIOUS
  <2> HIDE DEF name
  <2> QED BY <2>1, FixedGate
<1>3. Matrix(g) = IF h THEN MZ ELSE MX
  BY <1>2, MatricesOfPlain
<1>4. h \in BOOLEAN /\ x0 \in Int /\ y0 \in Int
  BY SoundFields
<1>5. X(s, q) = Enqueue(n, g)
  BY DEF X
<1> HIDE DEF n, g, name
<1>6. ASSUME NEW x \in Vec
      PROVE  Back(q, n.queue_H[q], n.angles_Rx[q], n.angles_Ry[q], Act(q, Matrix(g), x))
               = Phased(Zeta(0), Act(q, MX, Kept(s, q, x)))
  <2>1. Kept(s, q, x) = Back(q, h, x0, y0, x)
    BY DEF Kept
  <2> HIDE DEF h, x0, y0
  <2>2. Back(q, h, x0, Turned(-y0), Act(q, Matrix(g), x)) = Act(q, MX, Back(q, h, x0, y0, x))
    BY <1>3, <1>4, XPasses
  <2>3. Act(q, MX, Back(q, h, x0, y0, x)) \in Vec
    BY <1>4, BackType, FixedTypes, ActType
  <2> QED BY <1>1, <2>1, <2>2, <2>3, ByOne
<1>7. Does(s, Enqueue(n, g), q, MX, 0, 0)
  BY <1>1, <1>2, <1>6, QueuedPast, FixedTypes
<1> QED BY <1>5, <1>7

LEMMA YDoes ==
  ASSUME NEW s, Sound(s), NEW q \in Qubits
  PROVE  \E k \in 0 .. 15 : Does(s, Y(s, q), q, MY, k, 0)
<1> DEFINE n == NegateRx(s, q)
           g == Gate("Y", <<q>>, <<>>)
           h == s.queue_H[q]
           x0 == s.angles_Rx[q]
           y0 == s.angles_Ry[q]
           k == IF h THEN 8 ELSE 0
<1>1. Turned2(s, n, q) /\ n.angles_Rx[q] = Turned(-x0) /\ n.angles_Ry[q] = y0 /\ n.queue_H[q] = h
  BY NegatesRx DEF Turned2
<1>2. g \in Gates /\ g.name = "Y" /\ g.on = <<q>> /\ "Y" \notin OnTwo /\ "Y" \notin Branching
  BY FixedGate
<1>3. Matrix(g) = MY
  BY <1>2, MatricesOfPlain
<1>4. h \in BOOLEAN /\ x0 \in Int /\ y0 \in Int
  BY SoundFields
<1>5. Y(s, q) = Enqueue(n, g)
  BY DEF Y
<1> HIDE DEF n, g
<1>6. ASSUME NEW x \in Vec
      PROVE  Back(q, n.queue_H[q], n.angles_Rx[q], n.angles_Ry[q], Act(q, Matrix(g), x))
               = Phased(Zeta(k), Act(q, MY, Kept(s, q, x)))
  <2>1. Kept(s, q, x) = Back(q, h, x0, y0, x)
    BY DEF Kept
  <2> HIDE DEF h, x0, y0
  <2>2. Act(q, MY, Back(q, h, x0, y0, x)) \in Vec
    BY <1>4, BackType, FixedTypes, ActType
  <2>3. Back(q, h, Turned(-x0), y0, Act(q, MY, x)) = Phased(Zeta(k), Act(q, MY, Back(q, h, x0, y0, x)))
    BY <1>4, <2>2, YPasses, ByOne
  <2> QED BY <1>1, <1>3, <2>1, <2>3
<1>k. k \in 0 .. 15
  OBVIOUS
<1> HIDE DEF k
<1>7. Does(s, Enqueue(n, g), q, MY, k, 0)
  BY <1>1, <1>2, <1>6, <1>k, QueuedPast, FixedTypes
<1> QED BY <1>5, <1>7, <1>k

LEMMA ZDoes ==
  ASSUME NEW s, Sound(s), NEW q \in Qubits
  PROVE  Does(s, Z(s, q), q, MZ, 0, 0)
<1> DEFINE n1 == NegateRy(s, q)
           n == NegateRx(n1, q)
           name == IF s.queue_H[q] THEN "X" ELSE "Z"
           g == Gate(name, <<q>>, <<>>)
           h == s.queue_H[q]
           x0 == s.angles_Rx[q]
           y0 == s.angles_Ry[q]
<1>0. Turned2(s, n1, q) /\ n1.angles_Ry[q] = Turned(-y0) /\ n1.angles_Rx[q] = x0 /\ n1.queue_H[q] = h /\ Sound(n1)
  BY NegatesRy DEF Turned2
<1> HIDE DEF n1
<1>1. Turned2(s, n, q) /\ n.angles_Ry[q] = Turned(-y0) /\ n.angles_Rx[q] = Turned(-x0) /\ n.queue_H[q] = h
  <2>1. Turned2(n1, n, q) /\ n.angles_Ry[q] = n1.angles_Ry[q] /\ n.angles_Rx[q] = Turned(-n1.angles_Rx[q])
    BY <1>0, NegatesRx
  <2> HIDE DEF n
  <2>2. Turned2(s, n, q)
    BY <1>0, <2>1 DEF Turned2, SameOn
  <2> QED BY <1>0, <2>1, <2>2 DEF Turned2
<1>2. g \in Gates /\ g.name = name /\ g.on = <<q>> /\ name \notin OnTwo /\ name \notin Branching
  <2>1. name \in {"I", "Measure", "X", "Y", "Z", "S", "Sdg", "T", "Tdg"}
    OBVIOUS
  <2> HIDE DEF name
  <2> QED BY <2>1, FixedGate
<1>3. Matrix(g) = IF h THEN MX ELSE MZ
  BY <1>2, MatricesOfPlain
<1>4. h \in BOOLEAN /\ x0 \in Int /\ y0 \in Int
  BY SoundFields
<1>5. Z(s, q) = Enqueue(n, g)
  BY DEF Z, n1
<1> HIDE DEF n, g, name
<1>6. ASSUME NEW x \in Vec
      PROVE  Back(q, n.queue_H[q], n.angles_Rx[q], n.angles_Ry[q], Act(q, Matrix(g), x))
               = Phased(Zeta(0), Act(q, MZ, Kept(s, q, x)))
  <2>1. Kept(s, q, x) = Back(q, h, x0, y0, x)
    BY DEF Kept
  <2> HIDE DEF h, x0, y0
  <2>2. Back(q, h, Turned(-x0), Turned(-y0), Act(q, Matrix(g), x)) = Act(q, MZ, Back(q, h, x0, y0, x))
    BY <1>3, <1>4, ZPasses
  <2>3. Act(q, MZ, Back(q, h, x0, y0, x)) \in Vec
    BY <1>4, BackType, FixedTypes, ActType
  <2> QED BY <1>1, <2>1, <2>2, <2>3, ByOne
<1>7. Does(s, Enqueue(n, g), q, MZ, 0, 0)
  BY <1>1, <1>2, <1>6, QueuedPast, FixedTypes
<1> QED BY <1>5, <1>7

Toggled(e, q) == [e EXCEPT !.queue_H[q] = ~@]

LEMMA ToggledH ==
  ASSUME NEW e, Sound(e), NEW q \in Qubits, NEW s2, s2 = Toggled(e, q)
  PROVE  /\ Sound(s2) /\ Total(s2) = Total(e) /\ SameOn(e, s2, 1 - q) /\ Cost(s2) <= Cost(e) + 1
         /\ s2.queue_H[q] = ~e.queue_H[q]
         /\ s2.angles_Rx[q] = e.angles_Rx[q] /\ s2.angles_Ry[q] = e.angles_Ry[q]
<1> DEFINE flag == [e.queue_H EXCEPT ![q] = ~@]
<1>1. e \in PassType /\ e.queue_H \in [Qubits -> BOOLEAN] /\ 1 - q \in Qubits /\ 1 - q # q
  BY DEF Sound, PassType, Qubits
<1>2. flag \in [Qubits -> BOOLEAN] /\ flag[q] = ~e.queue_H[q] /\ flag[1 - q] = e.queue_H[1 - q]
  BY <1>1
<1>3. s2 = [e EXCEPT !.queue_H = flag]
  BY DEF Toggled
<1> HIDE DEF flag
<1>4. /\ s2 \in PassType /\ s2.queue_H = flag
      /\ s2.queue_Rx = e.queue_Rx /\ s2.queue_Ry = e.queue_Ry
      /\ s2.angles_Rx = e.angles_Rx /\ s2.angles_Ry = e.angles_Ry
      /\ s2.modified_circuit = e.modified_circuit /\ s2.queued_gates = e.queued_gates
  BY <1>1, <1>2, <1>3 DEF PassType
<1>5. Sound(s2)
  BY <1>4 DEF Sound
<1>6. Total(s2) = Total(e)
  BY <1>4 DEF Total
<1>7. SameOn(e, s2, 1 - q)
  BY <1>2, <1>4 DEF SameOn
<1>8. Flags(s2, q) <= Flags(e, q) + 1 /\ Flags(s2, 1 - q) = Flags(e, 1 - q)
  BY <1>2, <1>4 DEF Flags, One
<1>9. Cost(s2) <= Cost(e) + 1
  <2>1. /\ Cost(e) = Count(Total(e)) + Flags(e, q) + Flags(e, 1 - q)
        /\ Cost(s2) = Count(Total(s2)) + Flags(s2, q) + Flags(s2, 1 - q)
    BY <1>5, CostType
  <2>2. \A p : Flags(s2, p) \in Int /\ Flags(e, p) \in Int
    BY DEF Flags, One
  <2>3. Count(Total(e)) \in Int
    BY CostType
  <2> QED BY <1>6, <1>8, <2>1, <2>2, <2>3
<1> QED BY <1>2, <1>4, <1>5, <1>6, <1>7, <1>9

(* A rotation and its reverse cancel.                                        *)
LEMMA RyCancels ==
  ASSUME NEW q, NEW y \in Int, NEW v \in Vec
  PROVE  Act(q, MRy(y), Act(q, MRy(Turned(-y)), v)) = v
<1> DEFINE t == Turned(-y)
<1>1. t \in Int /\ (t + y) % Turn = 0 % Turn /\ t + y \in Int
  BY DEF Turned, Turn
<1> HIDE DEF t
<1>2. MRy(t) \in Mat /\ MRy(y) \in Mat /\ MRy(t + y) \in Mat
  BY <1>1, TurnTypes
<1>3. Act(q, MRy(y), Act(q, MRy(t), v)) = Act(q, Mul(MRy(y), MRy(t)), v) /\ Mul(MRy(y), MRy(t)) \in Mat
  BY <1>2, ActAct, MulType
<1>4. Act(q, Mul(MRy(y), MRy(t)), v) = Act(q, MRy(t + y), v)
  BY <1>1, <1>2, <1>3, RotationsAdd, ActAlike
<1>5. MRy(t + y) = MRy(0)
  BY <1>1, RotationTurn
<1> QED BY <1>3, <1>4, <1>5, NoTurn DEF t

LEMMA HDoes ==
  ASSUME NEW s, Sound(s), NEW q \in Qubits
  PROVE  Does(s, H(s, q), q, MH, 0, 1)
<1> DEFINE n == NegateRy(s, q)
           y0 == s.angles_Ry[q]
           h0 == s.queue_H[q]
           s2 == H(s, q)
<1>1. Turned2(s, n, q) /\ n.angles_Ry[q] = Turned(-y0) /\ n.angles_Rx[q] = s.angles_Rx[q]
  BY NegatesRy
<1>2. /\ Sound(n) /\ Total(n) = Total(s) /\ Cost(n) = Cost(s) /\ SameOn(s, n, 1 - q)
      /\ n.queue_H[q] = h0 /\ y0 \in Int /\ h0 \in BOOLEAN /\ s.angles_Rx[q] \in Int
  BY <1>1, SoundFields DEF Turned2
<1>3. Zeta(0) = 1
  BY ZetaValues, FixedTypes
<1>4. CASE ~s.queue_Rx[q]
  <2>1. s2 = Toggled(n, q)
    BY <1>4 DEF H, ExecuteWhen, Toggled
  <2> HIDE DEF n, s2
  <2>2. /\ Sound(s2) /\ Total(s2) = Total(n) /\ SameOn(n, s2, 1 - q) /\ Cost(s2) <= Cost(n) + 1
        /\ s2.queue_H[q] = ~n.queue_H[q]
        /\ s2.angles_Rx[q] = n.angles_Rx[q] /\ s2.angles_Ry[q] = n.angles_Ry[q]
    BY <1>2, <2>1, ToggledH
  <2>3. s.angles_Rx[q] = 0
    BY <1>4 DEF Sound
  <2>4. ASSUME NEW x \in Vec PROVE Kept(s2, q, Act(q, MI, x)) = Phased(1, Act(q, MH, Kept(s, q, x)))
    <3>1. Kept(s2, q, x) = Back(q, ~h0, 0, Turned(-y0), x) /\ Kept(s, q, x) = Back(q, h0, 0, y0, x)
      BY <1>1, <1>2, <2>2, <2>3 DEF Kept
    <3> HIDE DEF h0, y0
    <3>2. Act(q, MH, Back(q, h0, 0, y0, x)) = Back(q, ~h0, 0, Turned(-y0), x)
      BY <1>2, HPasses
    <3>3. Back(q, h0, 0, y0, x) \in Vec
      BY <1>2, BackType
    <3>4. Act(q, MH, Back(q, h0, 0, y0, x)) \in Vec
      BY <3>3, FixedTypes, ActType
    <3>5. Phased(1, Act(q, MH, Back(q, h0, 0, y0, x))) = Act(q, MH, Back(q, h0, 0, y0, x))
      BY <3>4, PhasedOne
    <3>6. Act(q, MI, x) = x
      BY ActOne
    <3> QED BY <3>1, <3>2, <3>5, <3>6
  <2>5. Turns(s, s2, q, MI, MH, 1)
    BY <2>4 DEF Turns
  <2>6. Adds(s, s2, q, MI)
    BY <1>2, <2>2, AddsNothing
  <2>7. SameOn(s, s2, 1 - q)
    BY <1>2, <2>2, SameOnTrans
  <2>8. Means(s, s2, q, MH, 1)
    BY <2>2, <2>5, <2>6, <2>7, OneQubitStep, FixedTypes
  <2> QED BY <1>2, <1>3, <2>2, <2>8 DEF Does, s2
<1>5. CASE s.queue_Rx[q]
  <2> DEFINE e == execute_queued_ops(n, q, "Rx")
  <2>1. s2 = Toggled(e, q)
    BY <1>5 DEF H, ExecuteWhen, Toggled
  <2> HIDE DEF n, s2
  <2>2. AfterRx(n, e, q)
    BY <1>2, Executes
  <2> HIDE DEF e
  <2>3. /\ Sound(e) /\ Cost(e) = Cost(s) /\ (\A v \in Vec : Meaning(e, v) = Meaning(n, v))
        /\ e.queue_H[q] = FALSE /\ e.angles_Rx[q] = 0 /\ e.angles_Ry[q] = Turned(-y0)
    <3>1. Sound(e) /\ Cost(e) = Cost(n) /\ (\A v \in Vec : Meaning(e, v) = Meaning(n, v))
      BY <2>2 DEF AfterRx, Flushes
    <3>2. ~e.queue_H[q] /\ ~e.queue_Rx[q] /\ e.angles_Ry[q] = n.angles_Ry[q]
      BY <2>2 DEF AfterRx
    <3>3. e.queue_H[q] \in BOOLEAN /\ e.angles_Rx[q] = 0
      BY <3>1, <3>2, SoundFields DEF Sound
    <3> QED BY <1>1, <1>2, <3>1, <3>2, <3>3
  <2>4. /\ Sound(s2) /\ Total(s2) = Total(e) /\ SameOn(e, s2, 1 - q) /\ Cost(s2) <= Cost(e) + 1
        /\ s2.queue_H[q] = ~e.queue_H[q]
        /\ s2.angles_Rx[q] = 0 /\ s2.angles_Ry[q] = Turned(-y0)
    BY <2>1, <2>3, ToggledH
  <2>5. ASSUME NEW v \in Vec PROVE Meaning(s2, v) = Act(q, MH, Meaning(s, v))
    <3> DEFINE w0 == Kept(s, 1 - q, Run(v, Total(s)))
               w == Act(q, MRx(s.angles_Rx[q]), Behind(q, h0, w0))
               w2 == Kept(e, 1 - q, Run(v, Total(e)))
               t == Turned(-y0)
    <3>0. 1 - q \in Qubits /\ t \in Int /\ -y0 \in Int
      BY <1>2, TurnedType DEF Qubits
    <3>1. w0 \in Vec /\ w2 \in Vec
      BY <2>3, <3>0, MeaningFrom, KeptType
    <3>2. w \in Vec
      <4>1. Behind(q, h0, w0) \in Vec
        BY <1>2, <3>1, BehindType
      <4> QED BY <1>2, <4>1, TurnTypes, ActType
    <3>3. Meaning(s, v) = Act(q, MRy(y0), w)
      <4>1. Meaning(s, v) = Kept(s, q, w0)
        BY MeaningFrom
      <4> QED BY <4>1 DEF Kept, Back, Behind
    <3>4. Meaning(n, v) = Act(q, MRy(t), w)
      <4>1. Meaning(n, v) = Kept(n, q, Kept(n, 1 - q, Run(v, Total(n))))
        BY <1>2, MeaningFrom
      <4>2. Kept(n, 1 - q, Run(v, Total(n))) = w0
        BY <1>2, KeptSame
      <4> HIDE DEF w0
      <4> QED BY <1>1, <1>2, <4>1, <4>2 DEF Kept, Back, Behind
    <3>5. Meaning(e, v) = Act(q, MRy(t), w2)
      <4>1. Meaning(e, v) = Kept(e, q, w2)
        BY <2>3, MeaningFrom
      <4> HIDE DEF w2
      <4>2. Act(q, MRx(0), w2) = w2
        BY <3>1, NoTurn
      <4> QED BY <2>3, <4>1, <4>2 DEF Kept, Back
    <3>6. Meaning(s2, v) = Act(q, MRy(t), Act(q, MH, w2))
      <4>1. Meaning(s2, v) = Kept(s2, q, Kept(s2, 1 - q, Run(v, Total(s2))))
        BY <2>4, MeaningFrom
      <4>2. Kept(s2, 1 - q, Run(v, Total(s2))) = w2
        BY <2>4, KeptSame
      <4> HIDE DEF w2
      <4>3. Act(q, MRx(0), Act(q, MH, w2)) = Act(q, MH, w2)
        BY <3>1, NoTurn, ActType, FixedTypes
      <4>4. s2.queue_H[q]
        BY <2>3, <2>4
      <4> QED BY <2>4, <4>1, <4>2, <4>3, <4>4 DEF Kept, Back
    <3> HIDE DEF w, w2, w0, t
    <3>7. w = w2
      <4>1. Act(q, MRy(t), w) = Act(q, MRy(t), w2)
        BY <2>3, <3>4, <3>5
      <4>2. Act(q, MRy(y0), Act(q, MRy(t), w)) = w /\ Act(q, MRy(y0), Act(q, MRy(t), w2)) = w2
        BY <1>2, <3>1, <3>2, RyCancels DEF t
      <4> QED BY <4>1, <4>2
    <3>8. Act(q, MH, Act(q, MRy(y0), w)) = Act(q, MRy(t), Act(q, MH, w))
      <4> HIDE DEF y0
      <4> QED BY <1>2, <3>2, PastRotation DEF t
    <3> QED BY <3>3, <3>6, <3>7, <3>8
  <2>6. Means(s, s2, q, MH, 1)
    <3>1. ASSUME NEW v \in Vec PROVE Phased(1, Act(q, MH, Meaning(s, v))) = Act(q, MH, Meaning(s, v))
      <4>1. Act(q, MH, Meaning(s, v)) \in Vec
        BY MeaningFrom, ActType, FixedTypes
      <4> QED BY <4>1, PhasedOne
    <3> QED BY <2>5, <3>1 DEF Means
  <2> QED BY <1>3, <2>3, <2>4, <2>6 DEF Does, s2
<1> QED BY <1>4, <1>5

(* Rotations about one axis add up.                                          *)
LEMMA AddedUp ==
  ASSUME NEW q, NEW a \in Int, NEW b \in Int, NEW v \in Vec
  PROVE  /\ Act(q, MRy(b), Act(q, MRy(a), v)) = Act(q, MRy(Turned(a + b)), v)
         /\ Act(q, MRx(b), Act(q, MRx(a), v)) = Act(q, MRx(Turned(a + b)), v)
<1>1. a + b \in Int /\ Turned(a + b) \in Int /\ Turned(a + b) % Turn = (a + b) % Turn
  BY TurnedType
<1>2. MRy(Turned(a + b)) = MRy(a + b) /\ MRx(Turned(a + b)) = MRx(a + b)
  BY <1>1, RotationTurn
<1>3. /\ MRy(a) \in Mat /\ MRy(b) \in Mat /\ MRy(a + b) \in Mat
      /\ MRx(a) \in Mat /\ MRx(b) \in Mat /\ MRx(a + b) \in Mat
  BY <1>1, TurnTypes
<1>4. Mul(MRy(b), MRy(a)) \in Mat /\ Mul(MRx(b), MRx(a)) \in Mat
  BY <1>3, MulType
<1>5. /\ Act(q, MRy(b), Act(q, MRy(a), v)) = Act(q, Mul(MRy(b), MRy(a)), v)
      /\ Act(q, MRx(b), Act(q, MRx(a), v)) = Act(q, Mul(MRx(b), MRx(a)), v)
  BY <1>3, ActAct
<1>6. /\ Act(q, Mul(MRy(b), MRy(a)), v) = Act(q, MRy(a + b), v)
      /\ Act(q, Mul(MRx(b), MRx(a)), v) = Act(q, MRx(a + b), v)
  <2>1. Alike(Mul(MRy(b), MRy(a)), MRy(a + b)) /\ Alike(Mul(MRx(b), MRx(a)), MRx(a + b))
    BY RotationsAdd
  <2> QED BY <1>3, <1>4, <2>1, ActAlike
<1> QED BY <1>2, <1>5, <1>6

(* A step of the pass that adds nothing but to what is held back.            *)
LEMMA HoldsMore ==
  ASSUME NEW s, NEW s2, Sound(s), Sound(s2), NEW q \in Qubits, NEW m \in Mat,
         Total(s2) = Total(s), SameOn(s, s2, 1 - q), Flags(s2, q) <= Flags(s, q) + 1,
         \A x \in Vec : Kept(s2, q, x) = Act(q, m, Kept(s, q, x))
  PROVE  Does(s, s2, q, m, 0, 1)
<1>1. ASSUME NEW x \in Vec PROVE Kept(s2, q, Act(q, MI, x)) = Phased(1, Act(q, m, Kept(s, q, x)))
  <2>1. Act(q, m, Kept(s, q, x)) \in Vec
    BY KeptType, ActType
  <2> QED BY <2>1, PhasedOne, ActOne
<1>2. Turns(s, s2, q, MI, m, 1)
  BY <1>1 DEF Turns
<1>3. Means(s, s2, q, m, 1)
  BY <1>2, AddsNothing, OneQubitStep, FixedTypes
<1>4. Cost(s2) <= Cost(s) + 1
  <2>1. /\ Cost(s) = Count(Total(s)) + Flags(s, q) + Flags(s, 1 - q)
        /\ Cost(s2) = Count(Total(s2)) + Flags(s2, q) + Flags(s2, 1 - q)
    BY CostType
  <2>2. \A p : Flags(s2, p) \in Int /\ Flags(s, p) \in Int
    BY DEF Flags, One
  <2>3. Count(Total(s)) \in Int /\ Flags(s2, 1 - q) = Flags(s, 1 - q)
    BY CostType DEF Flags, SameOn
  <2> QED BY <2>1, <2>2, <2>3
<1> QED BY <1>3, <1>4, ZetaValues DEF Does

LEMMA AddRyDoes ==
  ASSUME NEW s, Sound(s), NEW q \in Qubits, NEW b \in Int
  PROVE  Does(s, AddRy(s, q, b), q, MRy(b), 0, 1)
<1> DEFINE s2 == AddRy(s, q, b)
           flag == [s.queue_Ry EXCEPT ![q] = TRUE]
           angle == [s.angles_Ry EXCEPT ![q] = Turned(@ + b)]
           a == s.angles_Ry[q]
<1>1. /\ s \in PassType /\ s.queue_Ry \in [Qubits -> BOOLEAN] /\ s.angles_Ry \in [Qubits -> Int]
      /\ 1 - q \in Qubits /\ 1 - q # q /\ a \in Int
  BY DEF Sound, PassType, Qubits
<1>2. a + b \in Int
  BY <1>1
<1>3. Turned(a + b) \in Int
  BY <1>2, TurnedType
<1>4. /\ flag \in [Qubits -> BOOLEAN] /\ flag[q] = TRUE /\ flag[1 - q] = s.queue_Ry[1 - q]
      /\ angle \in [Qubits -> Int] /\ angle[q] = Turned(a + b) /\ angle[1 - q] = s.angles_Ry[1 - q]
  BY <1>1, <1>3
<1>5. s2 = [s EXCEPT !.queue_Ry = flag, !.angles_Ry = angle]
  BY DEF AddRy
<1> HIDE DEF flag, angle, s2
<1>6. /\ s2 \in PassType /\ s2.queue_Ry = flag /\ s2.angles_Ry = angle
      /\ s2.queue_H = s.queue_H /\ s2.queue_Rx = s.queue_Rx /\ s2.angles_Rx = s.angles_Rx
      /\ s2.modified_circuit = s.modified_circuit /\ s2.queued_gates = s.queued_gates
  BY <1>1, <1>4, <1>5 DEF PassType
<1>7. Sound(s2)
  <2>1. ASSUME NEW r \in Qubits
        PROVE  (~s2.queue_Rx[r] => s2.angles_Rx[r] = 0) /\ (~s2.queue_Ry[r] => s2.angles_Ry[r] = 0)
    <3>1. r = q \/ r = 1 - q
      BY DEF Qubits
    <3> QED BY <1>4, <1>6, <3>1 DEF Sound
  <2> QED BY <1>6, <2>1 DEF Sound
<1>8. Total(s2) = Total(s) /\ SameOn(s, s2, 1 - q) /\ Flags(s2, q) <= Flags(s, q) + 1
  BY <1>4, <1>6 DEF Total, SameOn, Flags, One
<1>9. ASSUME NEW x \in Vec PROVE Kept(s2, q, x) = Act(q, MRy(b), Kept(s, q, x))
  <2> DEFINE w == Act(q, MRx(s.angles_Rx[q]), IF s.queue_H[q] THEN Act(q, MH, x) ELSE x)
  <2>1. w \in Vec
    <3>1. (IF s.queue_H[q] THEN Act(q, MH, x) ELSE x) \in Vec
      BY FixedTypes, ActType
    <3> QED BY <3>1, SoundFields, TurnTypes, ActType
  <2>2. Kept(s, q, x) = Act(q, MRy(a), w) /\ Kept(s2, q, x) = Act(q, MRy(Turned(a + b)), w)
    BY <1>4, <1>6 DEF Kept, Back
  <2> HIDE DEF w, a
  <2> QED BY <1>1, <2>1, <2>2, AddedUp
<1>10. Does(s, s2, q, MRy(b), 0, 1)
  BY <1>7, <1>8, <1>9, HoldsMore, TurnTypes
<1> QED BY <1>10 DEF s2

LEMMA AddRxDoes ==
  ASSUME NEW s, Sound(s), NEW q \in Qubits, NEW b \in Int, ~s.queue_Ry[q]
  PROVE  Does(s, AddRx(s, q, b), q, MRx(b), 0, 1)
<1> DEFINE s2 == AddRx(s, q, b)
           flag == [s.queue_Rx EXCEPT ![q] = TRUE]
           angle == [s.angles_Rx EXCEPT ![q] = Turned(@ + b)]
           a == s.angles_Rx[q]
<1>1. /\ s \in PassType /\ s.queue_Rx \in [Qubits -> BOOLEAN] /\ s.angles_Rx \in [Qubits -> Int]
      /\ 1 - q \in Qubits /\ 1 - q # q /\ a \in Int
  BY DEF Sound, PassType, Qubits
<1>2. a + b \in Int
  BY <1>1
<1>3. Turned(a + b) \in Int
  BY <1>2, TurnedType
<1>4. /\ flag \in [Qubits -> BOOLEAN] /\ flag[q] = TRUE /\ flag[1 - q] = s.queue_Rx[1 - q]
      /\ angle \in [Qubits -> Int] /\ angle[q] = Turned(a + b) /\ angle[1 - q] = s.angles_Rx[1 - q]
  BY <1>1, <1>3
<1>5. s2 = [s EXCEPT !.queue_Rx = flag, !.angles_Rx = angle]
  BY DEF AddRx
<1> HIDE DEF flag, angle, s2
<1>6. /\ s2 \in PassType /\ s2.queue_Rx = flag /\ s2.angles_Rx = angle
      /\ s2.queue_H = s.queue_H /\ s2.queue_Ry = s.queue_Ry /\ s2.angles_Ry = s.angles_Ry
      /\ s2.modified_circuit = s.modified_circuit /\ s2.queued_gates = s.queued_gates
  BY <1>1, <1>4, <1>5 DEF PassType
<1>7. Sound(s2)
  <2>1. ASSUME NEW r \in Qubits
        PROVE  (~s2.queue_Rx[r] => s2.angles_Rx[r] = 0) /\ (~s2.queue_Ry[r] => s2.angles_Ry[r] = 0)
    <3>1. r = q \/ r = 1 - q
      BY DEF Qubits
    <3> QED BY <1>4, <1>6, <3>1 DEF Sound
  <2> QED BY <1>6, <2>1 DEF Sound
<1>8. Total(s2) = Total(s) /\ SameOn(s, s2, 1 - q) /\ Flags(s2, q) <= Flags(s, q) + 1
  BY <1>4, <1>6 DEF Total, SameOn, Flags, One
<1>9. ASSUME NEW x \in Vec PROVE Kept(s2, q, x) = Act(q, MRx(b), Kept(s, q, x))
  <2> DEFINE w == IF s.queue_H[q] THEN Act(q, MH, x) ELSE x
  <2>1. w \in Vec
    BY FixedTypes, ActType
  <2>2. s.angles_Ry[q] = 0
    BY DEF Sound
  <2>3. /\ Kept(s, q, x) = Act(q, MRy(0), Act(q, MRx(a), w))
        /\ Kept(s2, q, x) = Act(q, MRy(0), Act(q, MRx(Turned(a + b)), w))
    BY <1>4, <1>6, <2>2 DEF Kept, Back
  <2> HIDE DEF w, a
  <2>4. Act(q, MRx(a), w) \in Vec /\ Act(q, MRx(Turned(a + b)), w) \in Vec
    BY <1>1, <1>3, <2>1, TurnTypes, ActType
  <2> QED BY <1>1, <2>1, <2>3, <2>4, AddedUp, NoTurn
<1>10. Does(s, s2, q, MRx(b), 0, 1)
  BY <1>7, <1>8, <1>9, HoldsMore, TurnTypes
<1> QED BY <1>10 DEF s2

LEMMA ExecutedIf ==
  ASSUME NEW s, Sound(s), NEW q \in Qubits
  PROVE  /\ Flushes(s, execute_if(s, q)) /\ SameOn(s, execute_if(s, q), 1 - q)
         /\ ~execute_if(s, q).queue_H[q] /\ ~execute_if(s, q).queue_Rx[q] /\ ~execute_if(s, q).queue_Ry[q]
<1>1. CASE Held(s, q)
  <2>1. execute_if(s, q) = execute_queued_ops(s, q, "Ry")
    BY <1>1 DEF execute_if
  <2>2. AfterRy(s, execute_queued_ops(s, q, "Ry"), q)
    BY Executes
  <2> QED BY <2>1, <2>2 DEF AfterRy
<1>2. CASE ~Held(s, q)
  <2>1. execute_if(s, q) = s
    BY <1>2 DEF execute_if
  <2> QED BY <1>2, <2>1, FlushesOnce DEF Held, SameOn
<1> QED BY <1>1, <1>2

LEMMA ExecutedWhen ==
  ASSUME NEW s, Sound(s), NEW q \in Qubits, NEW c \in BOOLEAN
  PROVE  /\ \A op \in {"Ry", "Rx", "H", "Rz"} :
              Flushes(s, ExecuteWhen(c, s, q, op)) /\ SameOn(s, ExecuteWhen(c, s, q, op), 1 - q)
         /\ c => /\ AfterRy(s, ExecuteWhen(c, s, q, "Ry"), q)
                 /\ AfterRx(s, ExecuteWhen(c, s, q, "Rx"), q)
                 /\ AfterH(s, ExecuteWhen(c, s, q, "H"), q)
         /\ ~c => \A op : ExecuteWhen(c, s, q, op) = s
<1>1. /\ AfterRy(s, execute_queued_ops(s, q, "Ry"), q)
      /\ AfterRx(s, execute_queued_ops(s, q, "Rx"), q)
      /\ AfterH(s, execute_queued_ops(s, q, "H"), q)
      /\ AfterRz(s, execute_queued_ops(s, q, "Rz"), q)
  BY Executes
<1>2. CASE c
  <2>1. \A op : ExecuteWhen(c, s, q, op) = execute_queued_ops(s, q, op)
    BY <1>2 DEF ExecuteWhen
  <2> QED BY <1>1, <1>2, <2>1 DEF AfterRy, AfterRx, AfterH, AfterRz
<1>3. CASE ~c
  <2>1. \A op : ExecuteWhen(c, s, q, op) = s
    BY <1>3 DEF ExecuteWhen
  <2> QED BY <1>3, <2>1, FlushesOnce DEF SameOn
<1> QED BY <1>2, <1>3

LEMMA PhaseDoes ==
  ASSUME NEW s, Sound(s), NEW q \in Qubits, NEW a \in Int
  PROVE  Does(s, Phase(s, q, a), q, MPhase(a), 0, 0)
<1> DEFINE e == execute_if(s, q)
           g == Gate("U1", <<q>>, <<a>>)
<1>1. Flushes(s, e) /\ Sound(e) /\ ~e.queue_H[q] /\ ~e.queue_Rx[q] /\ ~e.queue_Ry[q]
  BY ExecutedIf DEF Flushes
<1>2. Phase(s, q, a) = Enqueue(e, g)
  BY DEF Phase
<1>3. g \in Gates /\ g.on = <<q>> /\ g.name \notin OnTwo /\ g.name \notin Branching /\ Matrix(g) = MPhase(a)
  <2>1. g \in Gates
    BY GatesPutOut
  <2>2. g.on = <<q>> /\ g.name = "U1" /\ g.angles = <<a>>
    BY DEF Gate
  <2> HIDE DEF g
  <2>3. Angle(g) = a
    BY <2>2 DEF Angle
  <2> QED BY <2>1, <2>2, <2>3, MatricesOfTurning DEF OnTwo, Controlled, Branching
<1> HIDE DEF e, g
<1>4. MPhase(a) \in Mat
  BY TurnTypes
<1>5. Turned2(e, e, q)
  BY <1>1 DEF Turned2, SameOn
<1>6. ASSUME NEW x \in Vec
      PROVE  Back(q, e.queue_H[q], e.angles_Rx[q], e.angles_Ry[q], Act(q, Matrix(g), x))
               = Phased(Zeta(0), Act(q, MPhase(a), Kept(e, q, x)))
  <2>1. Act(q, MPhase(a), x) \in Vec
    BY <1>4, ActType
  <2>2. Kept(e, q, Act(q, MPhase(a), x)) = Act(q, MPhase(a), x) /\ Kept(e, q, x) = x
    BY <1>1, <2>1, NothingKept
  <2> QED BY <1>3, <2>1, <2>2, ByOne DEF Kept
<1>7. Does(e, Enqueue(e, g), q, MPhase(a), 0, 0)
  BY <1>1, <1>3, <1>4, <1>5, <1>6, QueuedPast
<1> QED BY <1>1, <1>2, <1>7, FlushThenDoes

LEMMA RotationDoes ==
  ASSUME NEW s, Sound(s), NEW q \in Qubits, NEW a \in Int
  PROVE  /\ Does(s, R(s, "Ry", q, a), q, MRy(a), 0, 1)
         /\ Does(s, R(s, "Rx", q, a), q, MRx(a), 0, 1)
         /\ Does(s, R(s, "Rz", q, a), q, MPhase(a), 0, 0)
<1> DEFINE p1 == ExecuteWhen(s.queue_Ry[q], s, q, "Ry")
           p2 == ExecuteWhen(p1.queue_Rx[q], p1, q, "Rz")
           p3 == ExecuteWhen(p2.queue_H[q], p2, q, "H")
<1>1. /\ R(s, "Ry", q, a) = AddRy(s, q, a)
      /\ R(s, "Rx", q, a) = AddRx(p1, q, a)
      /\ R(s, "Rz", q, a) = Phase(p3, q, a)
  BY DEF R
<1>2. Flushes(s, p1) /\ Sound(p1) /\ ~p1.queue_Ry[q]
  <2>1. s.queue_Ry[q] \in BOOLEAN
    BY SoundFields
  <2> QED BY <2>1, ExecutedWhen DEF Flushes, AfterRy
<1> HIDE DEF p1
<1>3. Flushes(p1, p2) /\ Sound(p2)
  <2>1. p1.queue_Rx[q] \in BOOLEAN
    BY <1>2, SoundFields
  <2> QED BY <1>2, <2>1, ExecutedWhen DEF Flushes
<1> HIDE DEF p2
<1>4. Flushes(p2, p3) /\ Sound(p3)
  <2>1. p2.queue_H[q] \in BOOLEAN
    BY <1>3, SoundFields
  <2> QED BY <1>3, <2>1, ExecutedWhen DEF Flushes
<1> HIDE DEF p3
<1>5. Flushes(s, p3)
  BY <1>2, <1>3, <1>4, FlushesTwice
<1>6. Does(p1, AddRx(p1, q, a), q, MRx(a), 0, 1) /\ Does(p3, Phase(p3, q, a), q, MPhase(a), 0, 0)
  BY <1>2, <1>4, AddRxDoes, PhaseDoes
<1> QED BY <1>1, <1>2, <1>5, <1>6, AddRyDoes, FlushThenDoes

LEMMA UDoes ==
  ASSUME NEW s, Sound(s), NEW q \in Qubits, NEW a \in Int, NEW b \in Int, NEW c \in Int
  PROVE  Does(s, U(s, q, a, b, c), q, MU(a, b, c), 0, 1)
<1> DEFINE s1 == R(s, "Rz", q, c)
           s2 == R(s1, "Ry", q, a)
           s3 == R(s2, "Rz", q, b)
<1>0. U(s, q, a, b, c) = s3
  BY DEF U
<1>1. Does(s, s1, q, MPhase(c), 0, 0)
  BY RotationDoes
<1> HIDE DEF s1
<1>2. Does(s1, s2, q, MRy(a), 0, 1)
  BY <1>1, RotationDoes DEF Does
<1> HIDE DEF s2
<1>3. Does(s2, s3, q, MPhase(b), 0, 0)
  BY <1>2, RotationDoes DEF Does
<1> HIDE DEF s3
<1>4. Sound(s1) /\ Sound(s2) /\ Sound(s3)
  BY <1>1, <1>2, <1>3 DEF Does
<1>5. Cost(s3) <= Cost(s) + 1
  <2>1. Cost(s) \in Nat /\ Cost(s1) \in Nat /\ Cost(s2) \in Nat /\ Cost(s3) \in Nat
    BY <1>4, CostType
  <2> QED BY <1>1, <1>2, <1>3, <2>1 DEF Does
<1>6. MPhase(b) \in Mat /\ MPhase(c) \in Mat /\ MRy(a) \in Mat /\ MU(a, b, c) \in Mat
  BY TurnTypes, UType
<1>7. ASSUME NEW v \in Vec PROVE Meaning(s3, v) = Phased(Zeta(0), Act(q, MU(a, b, c), Meaning(s, v)))
  <2> DEFINE m == Meaning(s, v)
             m1 == Act(q, MPhase(c), m)
             m2 == Act(q, MRy(a), m1)
             m3 == Act(q, MPhase(b), m2)
  <2>1. m \in Vec
    BY MeaningFrom
  <2>2. m1 \in Vec /\ m2 \in Vec /\ m3 \in Vec
    BY <1>6, <2>1, ActType
  <2>3. Meaning(s1, v) = m1
    BY <1>1, <2>2, ByOne DEF Does, Means
  <2>4. Meaning(s2, v) = m2
    BY <1>2, <2>2, <2>3, ByOne DEF Does, Means
  <2>5. Meaning(s3, v) = m3
    BY <1>3, <2>2, <2>4, ByOne DEF Does, Means
  <2> HIDE DEF m
  <2>6. m2 = Act(q, Mul(MRy(a), MPhase(c)), m) /\ Mul(MRy(a), MPhase(c)) \in Mat
    BY <1>6, <2>1, ActAct, MulType
  <2>7. /\ Act(q, MPhase(b), Act(q, Mul(MRy(a), MPhase(c)), m))
             = Act(q, Mul(MPhase(b), Mul(MRy(a), MPhase(c))), m)
        /\ Mul(MPhase(b), Mul(MRy(a), MPhase(c))) \in Mat
    BY <1>6, <2>1, <2>6, ActAct, MulType
  <2>8. Act(q, MU(a, b, c), m) = Act(q, Mul(MPhase(b), Mul(MRy(a), MPhase(c))), m)
    BY <1>6, <2>1, <2>7, UIsRotations, ActAlike
  <2>9. Phased(Zeta(0), Act(q, MU(a, b, c), m)) = m3
    BY <2>2, <2>6, <2>7, <2>8, ByOne
  <2> QED BY <2>5, <2>9 DEF m
<1> QED BY <1>0, <1>4, <1>5, <1>7 DEF Does, Means

(***************************************************************************)
(* The handlers of the gates on one qubit.                                 *)
(***************************************************************************)

(* A handler that leaves the state alone.                                    *)
LEMMA SameDoes ==
  ASSUME NEW s, Sound(s), NEW s2, Sound(s2), NEW q \in Qubits, Cost(s2) = Cost(s),
         \A v \in Vec : Meaning(s2, v) = Meaning(s, v)
  PROVE  Does(s, s2, q, MI, 0, 0)
<1>1. ASSUME NEW v \in Vec PROVE Meaning(s2, v) = Phased(Zeta(0), Act(q, MI, Meaning(s, v)))
  <2>1. Meaning(s, v) \in Vec
    BY MeaningFrom
  <2> QED BY <2>1, ActOne, ByOne
<1>2. Cost(s2) <= Cost(s) + 0
  BY CostType
<1> QED BY <1>1, <1>2 DEF Does, Means

LEMMA MeasureDoes ==
  ASSUME NEW s, Sound(s), NEW q \in Qubits
  PROVE  Does(s, Measure(s, q), q, MI, 0, 0)
<1> DEFINE s2 == Measure(s, q)
<1>1. s \in PassType /\ s.measure \in Seq(Qubits)
  BY DEF Sound, PassType
<1>2. Append(s.measure, q) \in Seq(Qubits)
  BY <1>1, AppendProperties
<1>3. /\ s2 \in PassType
      /\ s2.queue_H = s.queue_H /\ s2.queue_Rx = s.queue_Rx /\ s2.queue_Ry = s.queue_Ry
      /\ s2.angles_Rx = s.angles_Rx /\ s2.angles_Ry = s.angles_Ry
      /\ s2.modified_circuit = s.modified_circuit /\ s2.queued_gates = s.queued_gates
  BY <1>1, <1>2 DEF Measure, PassType
<1> HIDE DEF s2
<1>4. Sound(s2)
  BY <1>3 DEF Sound
<1>5. Cost(s2) = Cost(s) /\ \A v : Meaning(s2, v) = Meaning(s, v)
  BY <1>3 DEF Cost, Flags, Total, Meaning, Kept
<1>6. Does(s, s2, q, MI, 0, 0)
  BY <1>4, <1>5, SameDoes
<1> QED BY <1>6 DEF s2

(* A phase gate does what the rotation does.                                 *)
LEMMA RzSimulates ==
  ASSUME NEW s, Sound(s), NEW s2, NEW q \in Qubits, NEW g \in Gates, g.on = <<q>>, g.name = "Rz",
         Does(s, s2, q, MPhase(Angle(g)), 0, 0)
  PROVE  Simulates(s, s2, g)
<1> DEFINE a == Angle(g)
<1>1. a \in Int
  BY AngleType
<1>2. Matrix(g) = MRz(a) /\ g.name \notin OnTwo /\ Weight(g) = 0
  BY MatricesOfTurning DEF OnTwo, Controlled, Weight, Branching
<1> HIDE DEF a
<1>3. Zeta(a) \in Int /\ MPhase(a) \in Mat /\ MRz(a) \in Mat
  BY <1>1, ZetaInt, TurnTypes
<1>4. a % Turn \in 0 .. 15 /\ Zeta(a % Turn) = Zeta(a)
  <2>1. a % Turn \in 0 .. 15 /\ a % Turn \in Int /\ (a % Turn) % Turn = a % Turn
    BY <1>1 DEF Turn
  <2> QED BY <1>1, <2>1, ZetaTurn
<1>5. ASSUME NEW v \in Vec PROVE Meaning(s2, v) = Phased(Zeta(a % Turn), Act(q, Matrix(g), Meaning(s, v)))
  <2> DEFINE m == Meaning(s, v)
  <2>1. m \in Vec
    BY MeaningFrom
  <2>2. Act(q, MPhase(a), m) \in Vec
    BY <1>3, <2>1, ActType
  <2>3. Meaning(s2, v) = Act(q, MPhase(a), m)
    BY <2>2, ByOne DEF Does, Means, a
  <2> HIDE DEF m
  <2>4. Times(Zeta(a), MRz(a)) \in Mat
    <3>1. ASSUME NEW k \in Int, NEW n \in Mat PROVE Times(k, n) \in Mat
      BY DEF Times, Mat
    <3> QED BY <1>3, <3>1
  <2>5. Act(q, MPhase(a), m) = Act(q, Times(Zeta(a), MRz(a)), m)
    BY <1>1, <1>3, <2>1, <2>4, PhaseIsRz, ActAlike
  <2>6. Act(q, Times(Zeta(a), MRz(a)), m) = Phased(Zeta(a), Act(q, MRz(a), m))
    BY <1>3, <2>1, ActTimes
  <2> QED BY <1>2, <1>4, <2>3, <2>5, <2>6 DEF m
<1>6. Does(s, s2, q, Matrix(g), a % Turn, Weight(g))
  BY <1>2, <1>5 DEF Does, Means
<1> QED BY <1>2, <1>4, <1>6, DoesSimulates

OneQubit == {"I", "Measure", "H", "X", "Y", "Z", "S", "Sdg", "T", "Tdg", "Rx", "Ry", "Rz", "U"}

LEMMA OneQubitSimulates ==
  ASSUME NEW s, Sound(s), NEW g \in Gates, g.name \in OneQubit
  PROVE  Simulates(s, apply_gate(s, g), g)
<1> DEFINE q == g.on[1]
           a == Angle(g)
           b == g.angles[2]
           c == g.angles[3]
           s2 == apply_gate(s, g)
<1>1. g.name \notin OnTwo
  BY DEF OneQubit, OnTwo, Controlled
<1>2. g.on = <<q>> /\ q \in Qubits
  BY <1>1 DEF Gates, Qubits
<1>3. a \in Int
  BY AngleType
<1>4. /\ g.name = "I" => s2 = s
      /\ g.name = "Measure" => s2 = Measure(s, q)
      /\ g.name = "H" => s2 = H(s, q)
      /\ g.name = "X" => s2 = X(s, q)
      /\ g.name = "Y" => s2 = Y(s, q)
      /\ g.name = "Z" => s2 = Z(s, q)
      /\ g.name = "S" => s2 = Phase(s, q, 2)
      /\ g.name = "Sdg" => s2 = Phase(s, q, -2)
      /\ g.name = "T" => s2 = Phase(s, q, 1)
      /\ g.name = "Tdg" => s2 = Phase(s, q, -1)
      /\ g.name \in {"Rx", "Ry", "Rz"} => s2 = R(s, g.name, q, a)
      /\ g.name = "U" => s2 = U(s, q, a, b, c)
  BY DEF apply_gate, Angle, gate_op_map
<1> SUFFICES Simulates(s, s2, g)
  BY DEF s2
<1> HIDE DEF a, b, c, s2, q
<1>5. Weight(g) = IF g.name \in {"H", "Rx", "Ry", "U"} THEN 1 ELSE 0
  BY DEF Weight, Branching, OneQubit
<1>6. \A k \in 0 .. 15 : Does(s, s2, q, Matrix(g), k, Weight(g)) => Simulates(s, s2, g)
  BY <1>1, <1>2, DoesSimulates
<1>7. 0 \in 0 .. 15 /\ 2 \in Int /\ -2 \in Int /\ 1 \in Int /\ -1 \in Int
  OBVIOUS
<1>8. CASE g.name = "I"
  <2>1. Does(s, s, q, MI, 0, 0)
    BY <1>2, SameDoes
  <2> QED BY <1>4, <1>5, <1>6, <1>7, <1>8, <2>1, MatricesOfPlain
<1>9. CASE g.name = "Measure"
  BY <1>2, <1>4, <1>5, <1>6, <1>7, <1>9, MeasureDoes, MatricesOfPlain
<1>10. CASE g.name = "H"
  BY <1>2, <1>4, <1>5, <1>6, <1>7, <1>10, HDoes, MatricesOfPlain
<1>11. CASE g.name = "X"
  BY <1>2, <1>4, <1>5, <1>6, <1>7, <1>11, XDoes, MatricesOfPlain
<1>12. CASE g.name = "Y"
  BY <1>2, <1>4, <1>5, <1>6, <1>7, <1>12, YDoes, MatricesOfPlain
<1>13. CASE g.name = "Z"
  BY <1>2, <1>4, <1>5, <1>6, <1>7, <1>13, ZDoes, MatricesOfPlain
<1>14. CASE g.name \in {"S", "Sdg", "T", "Tdg"}
  BY <1>2, <1>4, <1>5, <1>6, <1>7, <1>14, PhaseDoes, MatricesOfPlain
<1>15. CASE g.name = "Rx"
  BY <1>2, <1>3, <1>4, <1>5, <1>6, <1>7, <1>15, RotationDoes, MatricesOfTurning DEF a
<1>16. CASE g.name = "Ry"
  BY <1>2, <1>3, <1>4, <1>5, <1>6, <1>7, <1>16, RotationDoes, MatricesOfTurning DEF a
<1>17. CASE g.name = "Rz"
  BY <1>2, <1>3, <1>4, <1>17, RotationDoes, RzSimulates DEF a
<1>18. CASE g.name = "U"
  <2>1. b \in Int /\ c \in Int
    BY <1>18, UAngles DEF b, c
  <2>2. Matrix(g) = MU(a, b, c)
    BY <1>18, MatricesOfTurning DEF a, b, c
  <2> QED BY <1>2, <1>3, <1>4, <1>5, <1>6, <1>7, <1>18, <2>1, <2>2, UDoes
<1> QED
  BY <1>8, <1>9, <1>10, <1>11, <1>12, <1>13, <1>14, <1>15, <1>16, <1>17, <1>18 DEF OneQubit

(***************************************************************************)
(* Two-qubit gates.                                                        *)
(***************************************************************************)

(* Nothing is held back on a qubit.                                          *)
Idle(s, q) == ~s.queue_H[q] /\ ~s.queue_Rx[q] /\ ~s.queue_Ry[q]

(* A gate is the last of what has been put out or queued; what is held back  *)
(* stays.                                                                    *)
Joins(s, s2, g) ==
  /\ Sound(s2) /\ Cost(s2) = Cost(s) + Weight(g)
  /\ \A r \in Qubits : SameOn(s, s2, r)
  /\ \A v \in Vec : Run(v, Total(s2)) = Applied(g, Run(v, Total(s)))

LEMMA JoinsLast ==
  ASSUME NEW s, Sound(s), NEW s2, NEW g \in Gates, Sound(s2), Cost(s2) = Cost(s) + Weight(g),
         \A r : SameOn(s, s2, r), Total(s2) = Append(Total(s), g)
  PROVE  Joins(s, s2, g)
<1>1. Total(s) \in Seq(Gates)
  BY SoundFields DEF Qubits
<1>2. \A v \in Vec : Run(v, Append(Total(s), g)) = Applied(g, Run(v, Total(s)))
  BY <1>1, RunAppend
<1> QED BY <1>2 DEF Joins

LEMMA EnqueueJoins ==
  ASSUME NEW s, Sound(s), NEW g \in Gates
  PROVE  Joins(s, Enqueue(s, g), g)
<1>1. /\ Sound(Enqueue(s, g)) /\ Total(Enqueue(s, g)) = Append(Total(s), g)
      /\ \A r : SameOn(s, Enqueue(s, g), r)
      /\ Cost(Enqueue(s, g)) = Cost(s) + Weight(g)
  BY EnqueueOne
<1> QED BY <1>1, JoinsLast

LEMMA EmitJoins ==
  ASSUME NEW s, Sound(s), NEW g \in Gates
  PROVE  \E p : /\ Flushes(s, p) /\ Sound(p) /\ \A r \in Qubits : SameOn(s, p, r)
                /\ Joins(p, Emit(execute_phase_and_permute(s), g), g)
<1> DEFINE p == execute_phase_and_permute(s)
<1>1. /\ Flushes(s, p) /\ Sound(p) /\ p.queued_gates = <<>>
      /\ \A r \in Qubits : SameOn(s, p, r)
  BY PhaseQueueOut DEF AfterRz, Qubits, Flushes
<1> HIDE DEF p
<1>2. /\ Sound(Emit(p, g)) /\ Total(Emit(p, g)) = Append(Total(p), g)
      /\ \A r : SameOn(p, Emit(p, g), r)
      /\ Cost(Emit(p, g)) = Cost(p) + Weight(g)
  BY <1>1, EmitOne
<1>3. Joins(p, Emit(p, g), g)
  BY <1>1, <1>2, JoinsLast
<1> QED BY <1>1, <1>3 DEF p

LEMMA MeaningAlone ==
  ASSUME NEW s, Sound(s), NEW t \in Qubits, Idle(s, 1 - t), NEW v \in Vec
  PROVE  Run(v, Total(s)) \in Vec /\ Meaning(s, v) = Kept(s, t, Run(v, Total(s)))
<1>1. Run(v, Total(s)) \in Vec /\ Meaning(s, v) = Kept(s, t, Kept(s, 1 - t, Run(v, Total(s))))
  BY MeaningFrom
<1>2. 1 - t \in Qubits
  BY DEF Qubits
<1>3. Kept(s, 1 - t, Run(v, Total(s))) = Run(v, Total(s))
  BY <1>1, <1>2, NothingKept DEF Idle
<1> QED BY <1>1, <1>3

(* Past what is held back on one qubit, nothing being held back on the other.*)
LEMMA AloneSimulates ==
  ASSUME NEW s, Sound(s), NEW s2, NEW t \in Qubits, Idle(s, 1 - t), NEW g \in Gates, Sound(s2),
         Cost(s2) <= Cost(s) + Weight(g), \A r \in Qubits : SameOn(s, s2, r),
         \A v \in Vec : Kept(s, t, Run(v, Total(s2))) = Applied(g, Kept(s, t, Run(v, Total(s))))
  PROVE  Simulates(s, s2, g)
<1>1. Idle(s2, 1 - t) /\ SameOn(s, s2, t)
  BY DEF Idle, SameOn, Qubits
<1>2. ASSUME NEW v \in Vec PROVE Meaning(s2, v) = Phased(Zeta(0), Applied(g, Meaning(s, v)))
  <2> DEFINE w == Run(v, Total(s))
             w2 == Run(v, Total(s2))
  <2>1. w \in Vec /\ Meaning(s, v) = Kept(s, t, w)
    BY MeaningAlone
  <2>2. Meaning(s2, v) = Kept(s2, t, w2)
    BY <1>1, MeaningAlone
  <2>3. Kept(s, t, w2) = Applied(g, Kept(s, t, w))
    OBVIOUS
  <2> HIDE DEF w, w2
  <2>4. Kept(s2, t, w2) = Kept(s, t, w2)
    BY <1>1, KeptSame
  <2>5. Kept(s, t, w) \in Vec
    BY <2>1, KeptType
  <2>6. Applied(g, Kept(s, t, w)) \in Vec
    BY <2>5, AppliedType
  <2>7. Phased(Zeta(0), Applied(g, Kept(s, t, w))) = Applied(g, Kept(s, t, w))
    BY <2>6, ByOne
  <2> QED BY <2>1, <2>2, <2>3, <2>4, <2>7
<1>3. 0 \in 0 .. 15
  OBVIOUS
<1> QED BY <1>2, <1>3 DEF Simulates

LEMMA TargetSimulates ==
  ASSUME NEW s, Sound(s), NEW s2, NEW t \in Qubits, Idle(s, 1 - t), NEW g \in Gates, NEW g2 \in Gates,
         Joins(s, s2, g2), Weight(g2) <= Weight(g),
         \A x \in Vec : Kept(s, t, Applied(g2, x)) = Applied(g, Kept(s, t, x))
  PROVE  Simulates(s, s2, g)
<1>1. Sound(s2) /\ \A r \in Qubits : SameOn(s, s2, r)
  BY DEF Joins
<1>2. Cost(s2) <= Cost(s) + Weight(g)
  <2>1. Cost(s) \in Nat /\ Weight(g) \in Nat /\ Weight(g2) \in Nat
    BY CostType DEF Weight
  <2> QED BY <2>1 DEF Joins
<1>3. \A v \in Vec : Kept(s, t, Run(v, Total(s2))) = Applied(g, Kept(s, t, Run(v, Total(s))))
  BY MeaningAlone DEF Joins
<1> QED BY <1>1, <1>2, <1>3, AloneSimulates

(* What the gates on two qubits do to a state vector.                        *)
LEMMA ActsOnTarget ==
  ASSUME NEW g \in Gates, NEW t \in Qubits, g.on = <<1 - t, t>>, NEW v \in Vec
  PROVE  /\ g.name = "CNOT" => Applied(g, v) = ActOn(t, MX, v)
         /\ g.name = "CY" => Applied(g, v) = ActOn(t, MY, v)
         /\ g.name = "CZ" => Applied(g, v) = ActOn(t, MZ, v) /\ Applied(g, v) = ActOn(1 - t, MZ, v)
         /\ g.name = "CH" => Applied(g, v) = ActOn(t, MH, v)
         /\ g.name \in {"CRX", "CRx"} => Applied(g, v) = ActOn(t, MRx(Angle(g)), v)
         /\ g.name \in {"CRY", "CRy"} => Applied(g, v) = ActOn(t, MRy(Angle(g)), v)
         /\ g.name \in {"CRZ", "CRz"} => Applied(g, v) = ActOn(t, MRz(Angle(g)), v)
         /\ g.name = "CPhase" => Applied(g, v) = ActOn(t, MPhase(Angle(g)), v)
<1>1. t \in {0, 1}
  BY DEF Qubits
<1>2. g.name \in Controlled => Applied(g, v) = ActOn(t, Matrix(g), v)
  BY <1>1, AppliedTwo
<1>3. ActOn(t, MZ, v) = ActOn(1 - t, MZ, v)
  <2>1. -1 \in Int
    OBVIOUS
  <2>2. ActOn(0, Diag(1, -1), v) = ActOn(1, Diag(1, -1), v)
    BY <2>1, ControlledPhase
  <2> QED BY <1>1, <2>2 DEF MZ
<1>4. /\ g.name = "CNOT" => Matrix(g) = MX
      /\ g.name = "CY" => Matrix(g) = MY
      /\ g.name = "CZ" => Matrix(g) = MZ
      /\ g.name = "CH" => Matrix(g) = MH
  BY MatricesOfPlain
<1>5. /\ g.name = "CPhase" => Matrix(g) = MPhase(Angle(g))
      /\ g.name \in {"CRX", "CRx"} => Matrix(g) = MRx(Angle(g))
      /\ g.name \in {"CRY", "CRy"} => Matrix(g) = MRy(Angle(g))
      /\ g.name \in {"CRZ", "CRz"} => Matrix(g) = MRz(Angle(g))
  BY MatricesOfTurning
<1>6. {"CNOT", "CY", "CZ", "CH", "CRX", "CRx", "CRY", "CRy", "CRZ", "CRz", "CPhase"} \subseteq Controlled
  BY DEF Controlled
<1> QED BY <1>2, <1>3, <1>4, <1>5, <1>6

(* What passes what is held back on the target.                              *)
LEMMA TargetPasses ==
  ASSUME NEW t \in Qubits, NEW h \in BOOLEAN, NEW a \in Int, NEW b \in Int, NEW v \in Vec
  PROVE  /\ h => ActOn(t, MX, Back(t, h, a, 0, v)) = Back(t, h, a, 0, ActOn(t, MZ, v))
         /\ ~h => ActOn(t, MX, Back(t, h, a, 0, v)) = Back(t, h, a, 0, ActOn(t, MX, v))
         /\ h => ActOn(t, MY, Back(t, h, 0, a, v)) = Back(t, h, 0, a, ActOn(t, Times(-1, MY), v))
         /\ ~h => ActOn(t, MY, Back(t, h, 0, a, v)) = Back(t, h, 0, a, ActOn(t, MY, v))
         /\ h => ActOn(t, MZ, Back(t, h, 0, 0, v)) = Back(t, h, 0, 0, ActOn(t, MX, v))
         /\ ~h => ActOn(t, MZ, Back(t, h, 0, 0, v)) = Back(t, h, 0, 0, ActOn(t, MZ, v))
         /\ ActOn(t, MH, Back(t, h, 0, 0, v)) = Back(t, h, 0, 0, ActOn(t, MH, v))
         /\ ~h => ActOn(t, MRx(b), Back(t, h, a, 0, v)) = Back(t, h, a, 0, ActOn(t, MRx(b), v))
         /\ ~h => ActOn(t, MRy(b), Back(t, h, 0, a, v)) = Back(t, h, 0, a, ActOn(t, MRy(b), v))
<1>1. /\ t \in {0, 1}
      /\ MX \in Mat /\ MY \in Mat /\ MZ \in Mat /\ MH \in Mat /\ Times(-1, MY) \in Mat
      /\ MRx(a) \in Mat /\ MRy(a) \in Mat /\ MRx(b) \in Mat /\ MRy(b) \in Mat
  <2>1. ASSUME NEW n \in Mat PROVE Times(-1, n) \in Mat
    BY DEF Times, Mat
  <2> QED BY <2>1, FixedTypes, TurnTypes DEF Qubits
<1>2. /\ Alike(Mul(MX, MRx(a)), Mul(MRx(a), MX))
      /\ Alike(Mul(MY, MRy(a)), Mul(MRy(a), MY))
      /\ Alike(Mul(MRx(b), MRx(a)), Mul(MRx(a), MRx(b)))
      /\ Alike(Mul(MRy(b), MRy(a)), Mul(MRy(a), MRy(b)))
      /\ Alike(Mul(MH, MH), Mul(MH, MH))
  <2>1. /\ Alike(Mul(MX, MRx(a)), Mul(MRx(a), MX))
        /\ Alike(Mul(MY, MRy(a)), Mul(MRy(a), MY))
    BY PassesRx, PassesRy
  <2>2. \A m, n, p : Alike(m, p) /\ Alike(n, p) => Alike(m, n)
    BY DEF Alike
  <2>3. \A m : Alike(m, m)
    BY DEF Alike
  <2>4. a + b = b + a
    OBVIOUS
  <2>5. Alike(Mul(MRx(b), MRx(a)), MRx(a + b)) /\ Alike(Mul(MRx(a), MRx(b)), MRx(b + a))
    BY RotationsAdd
  <2>6. Alike(Mul(MRy(b), MRy(a)), MRy(a + b)) /\ Alike(Mul(MRy(a), MRy(b)), MRy(b + a))
    BY RotationsAdd
  <2>7. Alike(Mul(MRx(a), MRx(b)), MRx(a + b)) /\ Alike(Mul(MRy(a), MRy(b)), MRy(a + b))
    BY <2>4, <2>5, <2>6
  <2> QED BY <2>1, <2>2, <2>3, <2>5, <2>6, <2>7
<1>3. ASSUME NEW x \in Vec
      PROVE  /\ ActOn(t, MX, Act(t, MRx(a), x)) = Act(t, MRx(a), ActOn(t, MX, x))
             /\ ActOn(t, MY, Act(t, MRy(a), x)) = Act(t, MRy(a), ActOn(t, MY, x))
             /\ ActOn(t, MRx(b), Act(t, MRx(a), x)) = Act(t, MRx(a), ActOn(t, MRx(b), x))
             /\ ActOn(t, MRy(b), Act(t, MRy(a), x)) = Act(t, MRy(a), ActOn(t, MRy(b), x))
             /\ ActOn(t, MX, Act(t, MH, x)) = Act(t, MH, ActOn(t, MZ, x))
             /\ ActOn(t, MZ, Act(t, MH, x)) = Act(t, MH, ActOn(t, MX, x))
             /\ ActOn(t, MY, Act(t, MH, x)) = Act(t, MH, ActOn(t, Times(-1, MY), x))
             /\ ActOn(t, MH, Act(t, MH, x)) = Act(t, MH, ActOn(t, MH, x))
  <2>1. /\ ActOn(t, MX, Act(t, MRx(a), x)) = Act(t, MRx(a), ActOn(t, MX, x))
        /\ ActOn(t, MY, Act(t, MRy(a), x)) = Act(t, MRy(a), ActOn(t, MY, x))
        /\ ActOn(t, MRx(b), Act(t, MRx(a), x)) = Act(t, MRx(a), ActOn(t, MRx(b), x))
        /\ ActOn(t, MRy(b), Act(t, MRy(a), x)) = Act(t, MRy(a), ActOn(t, MRy(b), x))
    BY <1>1, <1>2, ActOnPasses
  <2>2. ActOn(t, MX, Act(t, MH, x)) = Act(t, MH, ActOn(t, MZ, x))
    <3>1. \A n : Alike(Mul(MX, MH), Mul(MH, n)) /\ n \in Mat => ActOn(t, MX, Act(t, MH, x)) = Act(t, MH, ActOn(t, n, x))
      BY <1>1, ActOnPasses
    <3> QED BY <1>1, <3>1, FixedIdentities
  <2>3. ActOn(t, MZ, Act(t, MH, x)) = Act(t, MH, ActOn(t, MX, x))
    BY <1>1, ActOnPasses, FixedIdentities
  <2>4. ActOn(t, MY, Act(t, MH, x)) = Act(t, MH, ActOn(t, Times(-1, MY), x))
    BY <1>1, ActOnPasses, FixedIdentities
  <2>5. ActOn(t, MH, Act(t, MH, x)) = Act(t, MH, ActOn(t, MH, x))
    BY <1>1, <1>2, ActOnPasses
  <2> QED BY <2>1, <2>2, <2>3, <2>4, <2>5
<1>4. ASSUME NEW x \in Vec
      PROVE  /\ \A m \in Mat : Act(t, m, x) \in Vec /\ ActOn(t, m, x) \in Vec
             /\ Act(t, MRx(0), x) = x /\ Act(t, MRy(0), x) = x
  BY ActType, ActOnType, NoTurn
<1>5. CASE h
  <2> DEFINE e == Act(t, MH, v)
  <2>1. e \in Vec
    BY <1>1, <1>4
  <2>2. /\ ActOn(t, MX, e) = Act(t, MH, ActOn(t, MZ, v))
        /\ ActOn(t, MZ, e) = Act(t, MH, ActOn(t, MX, v))
        /\ ActOn(t, MY, e) = Act(t, MH, ActOn(t, Times(-1, MY), v))
        /\ ActOn(t, MH, e) = Act(t, MH, ActOn(t, MH, v))
    BY <1>3
  <2>3. \A m \in Mat : ActOn(t, m, v) \in Vec /\ Act(t, MH, ActOn(t, m, v)) \in Vec
    BY <1>1, <1>4
  <2> HIDE DEF e
  <2>4. /\ Back(t, h, a, 0, v) = Act(t, MRx(a), e)
        /\ Back(t, h, 0, a, v) = Act(t, MRy(a), e)
        /\ Back(t, h, 0, 0, v) = e
    BY <1>1, <1>4, <1>5, <2>1 DEF Back, e
  <2>5. ASSUME NEW m \in Mat
        PROVE  /\ Back(t, h, a, 0, ActOn(t, m, v)) = Act(t, MRx(a), Act(t, MH, ActOn(t, m, v)))
               /\ Back(t, h, 0, a, ActOn(t, m, v)) = Act(t, MRy(a), Act(t, MH, ActOn(t, m, v)))
               /\ Back(t, h, 0, 0, ActOn(t, m, v)) = Act(t, MH, ActOn(t, m, v))
    BY <1>1, <1>4, <1>5, <2>3 DEF Back
  <2>6. /\ ActOn(t, MX, Act(t, MRx(a), e)) = Act(t, MRx(a), ActOn(t, MX, e))
        /\ ActOn(t, MY, Act(t, MRy(a), e)) = Act(t, MRy(a), ActOn(t, MY, e))
    BY <1>3, <2>1
  <2> QED BY <1>1, <1>5, <2>2, <2>4, <2>5, <2>6
<1>6. CASE ~h
  <2>2. /\ Back(t, h, a, 0, v) = Act(t, MRx(a), v)
        /\ Back(t, h, 0, a, v) = Act(t, MRy(a), v)
        /\ Back(t, h, 0, 0, v) = v
    BY <1>1, <1>4, <1>6 DEF Back
  <2>3. ASSUME NEW m \in Mat
        PROVE  /\ Back(t, h, a, 0, ActOn(t, m, v)) = Act(t, MRx(a), ActOn(t, m, v))
               /\ Back(t, h, 0, a, ActOn(t, m, v)) = Act(t, MRy(a), ActOn(t, m, v))
               /\ Back(t, h, 0, 0, ActOn(t, m, v)) = ActOn(t, m, v)
    BY <1>1, <1>4, <1>6 DEF Back
  <2> QED BY <1>1, <1>3, <1>6, <2>2, <2>3
<1> QED BY <1>5, <1>6

(* What is held back of one kind only.                                       *)
LEMMA KeptOfOne ==
  ASSUME NEW s, Sound(s), NEW q \in Qubits, NEW x
  PROVE  /\ ~s.queue_Ry[q] => Kept(s, q, x) = Back(q, s.queue_H[q], s.angles_Rx[q], 0, x)
         /\ ~s.queue_Rx[q] => Kept(s, q, x) = Back(q, s.queue_H[q], 0, s.angles_Ry[q], x)
         /\ ~s.queue_Rx[q] /\ ~s.queue_Ry[q] => Kept(s, q, x) = Back(q, s.queue_H[q], 0, 0, x)
<1>1. /\ ~s.queue_Rx[q] => s.angles_Rx[q] = 0
      /\ ~s.queue_Ry[q] => s.angles_Ry[q] = 0
  BY DEF Sound
<1> QED BY <1>1 DEF Kept

(* The control is cleared first.                                             *)
LEMMA ClearsControl ==
  ASSUME NEW s, Sound(s), NEW t \in Qubits, NEW a, a = execute_if(s, 1 - t)
  PROVE  Flushes(s, a) /\ Sound(a) /\ Idle(a, 1 - t) /\ SameOn(s, a, t)
<1>1. 1 - t \in Qubits /\ 1 - (1 - t) = t
  BY DEF Qubits
<1> QED BY <1>1, ExecutedIf DEF Flushes, Idle

(* What one condition then clears of the target.                             *)
LEMMA ClearsTarget ==
  ASSUME NEW a, Sound(a), NEW t \in Qubits, Idle(a, 1 - t), NEW when \in BOOLEAN, NEW op \in {"Ry", "Rx", "H"},
         NEW b, b = ExecuteWhen(when, a, t, op)
  PROVE  /\ Flushes(a, b) /\ Sound(b) /\ Idle(b, 1 - t)
         /\ ~when => b = a
         /\ when => ~b.queue_H[t]
         /\ when /\ op \in {"Ry", "Rx"} => ~b.queue_Rx[t]
         /\ when /\ op = "Ry" => ~b.queue_Ry[t]
         /\ when /\ op \in {"Rx", "H"} => b.queue_Ry[t] = a.queue_Ry[t]
         /\ when /\ op = "H" => b.queue_Rx[t] = a.queue_Rx[t]
<1>1. Flushes(a, b) /\ SameOn(a, b, 1 - t)
  BY ExecutedWhen
<1>2. Sound(b) /\ Idle(b, 1 - t)
  BY <1>1 DEF Flushes, SameOn, Idle
<1>3. when => /\ op = "Ry" => AfterRy(a, b, t)
              /\ op = "Rx" => AfterRx(a, b, t)
              /\ op = "H" => AfterH(a, b, t)
  BY ExecutedWhen
<1>4. ~when => b = a
  BY ExecutedWhen
<1> QED BY <1>1, <1>2, <1>3, <1>4 DEF AfterRy, AfterRx, AfterH

LEMMA TwoQubitGates ==
  ASSUME NEW t \in Qubits, NEW a \in Int
  PROVE  /\ \A n \in {"CH", "CNOT", "CY", "CZ", "Swap"} :
              LET g == Gate(n, <<1 - t, t>>, <<>>)
              IN g \in Gates /\ g.name = n /\ g.on = <<1 - t, t>>
         /\ \A n \in {"CRx", "CRy", "CRz", "CPhase"} :
              LET g == Gate(n, <<1 - t, t>>, <<a>>)
              IN g \in Gates /\ g.name = n /\ g.on = <<1 - t, t>> /\ Angle(g) = a
<1>1. /\ \A n \in {"CH", "CNOT", "CY", "CZ", "Swap"} : Gate(n, <<1 - t, t>>, <<>>) \in Gates
      /\ \A n \in {"CRx", "CRy", "CRz", "CPhase"} : Gate(n, <<1 - t, t>>, <<a>>) \in Gates
  BY GatesPutOut
<1>2. ASSUME NEW n, NEW on, NEW angles
      PROVE  /\ Gate(n, on, angles).name = n /\ Gate(n, on, angles).on = on
             /\ Gate(n, on, angles).angles = angles
  BY DEF Gate
<1>3. ASSUME NEW g, g.angles = <<a>> PROVE Angle(g) = a
  BY <1>3 DEF Angle
<1> QED BY <1>1, <1>2, <1>3

LEMMA CHSimulates ==
  ASSUME NEW s, Sound(s), NEW t \in Qubits, NEW g \in Gates, g.on = <<1 - t, t>>, g.name = "CH"
  PROVE  Simulates(s, CH(s, 1 - t, t), g)
<1> DEFINE a == execute_if(s, 1 - t)
           when == a.queue_Ry[t] \/ a.queue_Rx[t]
           b == ExecuteWhen(when, a, t, "Ry")
           g2 == Gate("CH", <<1 - t, t>>, <<>>)
           out == Emit(execute_phase_and_permute(b), g2)
<1>1. CH(s, 1 - t, t) = out
  BY DEF CH
<1>2. g2 \in Gates /\ g2.name = "CH" /\ g2.on = <<1 - t, t>>
  <2>1. 0 \in Int
    OBVIOUS
  <2> QED BY <2>1, TwoQubitGates
<1> HIDE DEF g2
<1>3. Flushes(s, a) /\ Sound(a) /\ Idle(a, 1 - t)
  BY ClearsControl
<1> HIDE DEF a
<1>4. Flushes(a, b) /\ Sound(b) /\ Idle(b, 1 - t) /\ ~b.queue_Rx[t] /\ ~b.queue_Ry[t]
  <2>1. when \in BOOLEAN
    BY <1>3, SoundFields
  <2> HIDE DEF when
  <2>2. ~when => ~a.queue_Ry[t] /\ ~a.queue_Rx[t]
    BY DEF when
  <2> QED BY <1>3, <2>1, <2>2, ClearsTarget
<1> HIDE DEF b
<1>5. PICK p : Flushes(b, p) /\ Sound(p) /\ (\A r \in Qubits : SameOn(b, p, r)) /\ Joins(p, out, g2)
  BY <1>2, <1>4, EmitJoins
<1> HIDE DEF out
<1>6. Idle(p, 1 - t) /\ ~p.queue_Rx[t] /\ ~p.queue_Ry[t]
  BY <1>4, <1>5 DEF Idle, SameOn, Qubits
<1>7. ASSUME NEW x \in Vec PROVE Kept(p, t, Applied(g2, x)) = Applied(g, Kept(p, t, x))
  <2>1. p.queue_H[t] \in BOOLEAN /\ 0 \in Int /\ Kept(p, t, x) \in Vec
    BY <1>5, SoundFields, KeptType
  <2>2. ActOn(t, MH, Back(t, p.queue_H[t], 0, 0, x)) = Back(t, p.queue_H[t], 0, 0, ActOn(t, MH, x))
    BY <2>1, TargetPasses
  <2>3. Applied(g2, x) = ActOn(t, MH, x) /\ Applied(g, Kept(p, t, x)) = ActOn(t, MH, Kept(p, t, x))
    BY <1>2, <2>1, ActsOnTarget
  <2> QED BY <1>5, <1>6, <2>2, <2>3, KeptOfOne
<1>8. Weight(g2) <= Weight(g)
  BY <1>2 DEF Weight
<1>9. Simulates(p, out, g)
  BY <1>2, <1>5, <1>6, <1>7, <1>8, TargetSimulates
<1> QED BY <1>1, <1>3, <1>4, <1>5, <1>9, FlushThenSimulates

LEMMA CRSimulates ==
  ASSUME NEW s, Sound(s), NEW t \in Qubits, NEW g \in Gates, g.on = <<1 - t, t>>, NEW n,
         <<g.name, n>> \in {<<"CRX", "CRx">>, <<"CRY", "CRy">>, <<"CRZ", "CRz">>}
  PROVE  Simulates(s, CR(s, n, 1 - t, t, Angle(g)), g)
<1> DEFINE a == execute_if(s, 1 - t)
           w1 == a.queue_Ry[t] /\ n # "CRy"
           b == ExecuteWhen(w1, a, t, "Ry")
           w2 == b.queue_Rx[t] /\ n # "CRx"
           d == ExecuteWhen(w2, b, t, "Rx")
           w3 == d.queue_H[t]
           e == ExecuteWhen(w3, d, t, "H")
           g2 == Gate(n, <<1 - t, t>>, <<Angle(g)>>)
           out == Emit(execute_phase_and_permute(e), g2)
<1>1. CR(s, n, 1 - t, t, Angle(g)) = out
  BY DEF CR
<1>2. Angle(g) \in Int /\ g2 \in Gates /\ g2.name = n /\ g2.on = <<1 - t, t>> /\ Angle(g2) = Angle(g)
  <2>1. Angle(g) \in Int /\ n \in {"CRx", "CRy", "CRz", "CPhase"}
    BY AngleType
  <2>2. \A a0 \in Int, m \in {"CRx", "CRy", "CRz", "CPhase"} :
          /\ Gate(m, <<1 - t, t>>, <<a0>>) \in Gates /\ Gate(m, <<1 - t, t>>, <<a0>>).name = m
          /\ Gate(m, <<1 - t, t>>, <<a0>>).on = <<1 - t, t>> /\ Angle(Gate(m, <<1 - t, t>>, <<a0>>)) = a0
    BY TwoQubitGates, ZenonT(60)
  <2> QED BY <2>1, <2>2
<1> HIDE DEF g2
<1>3. Flushes(s, a) /\ Sound(a) /\ Idle(a, 1 - t)
  BY ClearsControl
<1> HIDE DEF a
<1>4. Flushes(a, b) /\ Sound(b) /\ Idle(b, 1 - t) /\ (n # "CRy" => ~b.queue_Ry[t])
  <2>1. w1 \in BOOLEAN
    BY <1>3, SoundFields
  <2> HIDE DEF w1
  <2>2. ~w1 /\ n # "CRy" => ~a.queue_Ry[t]
    BY DEF w1
  <2> QED BY <1>3, <2>1, <2>2, ClearsTarget
<1> HIDE DEF b
<1>5. /\ Flushes(b, d) /\ Sound(d) /\ Idle(d, 1 - t) /\ (n # "CRy" => ~d.queue_Ry[t])
      /\ n # "CRx" => ~d.queue_Rx[t]
  <2>1. w2 \in BOOLEAN
    BY <1>4, SoundFields
  <2> HIDE DEF w2
  <2>2. ~w2 /\ n # "CRx" => ~b.queue_Rx[t]
    BY DEF w2
  <2> QED BY <1>4, <2>1, <2>2, ClearsTarget
<1> HIDE DEF d
<1>6. /\ Flushes(d, e) /\ Sound(e) /\ Idle(e, 1 - t) /\ (n # "CRy" => ~e.queue_Ry[t])
      /\ n # "CRx" => ~e.queue_Rx[t]
      /\ ~e.queue_H[t]
  <2>1. w3 \in BOOLEAN
    BY <1>5, SoundFields
  <2> HIDE DEF w3
  <2>2. ~w3 => ~d.queue_H[t]
    BY DEF w3
  <2> QED BY <1>5, <2>1, <2>2, ClearsTarget
<1> HIDE DEF e
<1>7. PICK p : Flushes(e, p) /\ Sound(p) /\ (\A r \in Qubits : SameOn(e, p, r)) /\ Joins(p, out, g2)
  BY <1>2, <1>6, EmitJoins
<1> HIDE DEF out
<1>8. /\ Idle(p, 1 - t) /\ (n # "CRy" => ~p.queue_Ry[t]) /\ (n # "CRx" => ~p.queue_Rx[t])
      /\ ~p.queue_H[t]
  BY <1>6, <1>7 DEF Idle, SameOn, Qubits
<1>9. ASSUME NEW x \in Vec PROVE Kept(p, t, Applied(g2, x)) = Applied(g, Kept(p, t, x))
  <2>1. /\ Kept(p, t, x) \in Vec
        /\ p.angles_Rx[t] \in Int /\ p.angles_Ry[t] \in Int
    BY <1>7, <1>8, SoundFields, KeptType
  <2>2. /\ n = "CRx" => /\ Applied(g2, x) = ActOn(t, MRx(Angle(g)), x)
                        /\ Applied(g, Kept(p, t, x)) = ActOn(t, MRx(Angle(g)), Kept(p, t, x))
        /\ n = "CRy" => /\ Applied(g2, x) = ActOn(t, MRy(Angle(g)), x)
                        /\ Applied(g, Kept(p, t, x)) = ActOn(t, MRy(Angle(g)), Kept(p, t, x))
        /\ n = "CRz" => /\ Applied(g2, x) = ActOn(t, MRz(Angle(g)), x)
                        /\ Applied(g, Kept(p, t, x)) = ActOn(t, MRz(Angle(g)), Kept(p, t, x))
    BY <1>2, <2>1, ActsOnTarget
  <2>3. /\ ActOn(t, MRx(Angle(g)), Back(t, p.queue_H[t], p.angles_Rx[t], 0, x))
             = Back(t, p.queue_H[t], p.angles_Rx[t], 0, ActOn(t, MRx(Angle(g)), x))
        /\ ActOn(t, MRy(Angle(g)), Back(t, p.queue_H[t], 0, p.angles_Ry[t], x))
             = Back(t, p.queue_H[t], 0, p.angles_Ry[t], ActOn(t, MRy(Angle(g)), x))
    <3>1. ASSUME NEW h \in BOOLEAN, ~h, NEW y \in Int, NEW z \in Int
          PROVE  /\ ActOn(t, MRx(z), Back(t, h, y, 0, x)) = Back(t, h, y, 0, ActOn(t, MRx(z), x))
                 /\ ActOn(t, MRy(z), Back(t, h, 0, y, x)) = Back(t, h, 0, y, ActOn(t, MRy(z), x))
      BY <3>1, TargetPasses
    <3>2. p.queue_H[t] \in BOOLEAN /\ ~p.queue_H[t]
      BY <1>7, <1>8, SoundFields
    <3> QED BY <1>2, <2>1, <3>1, <3>2
  <2>4. CASE n = "CRx"
    BY <1>7, <1>8, <2>1, <2>2, <2>3, <2>4, KeptOfOne
  <2>5. CASE n = "CRy"
    BY <1>7, <1>8, <2>1, <2>2, <2>3, <2>5, KeptOfOne
  <2>6. CASE n = "CRz"
    <3>1. \A y \in Vec : Kept(p, t, y) = y
      BY <1>7, <1>8, <2>6, NothingKept
    <3>2. ActOn(t, MRz(Angle(g)), x) \in Vec
      BY <1>2, TurnTypes, ActOnType
    <3> QED BY <2>2, <2>6, <3>1, <3>2
  <2> QED BY <2>4, <2>5, <2>6
<1>10. Weight(g2) <= Weight(g)
  BY <1>2 DEF Weight, Branching
<1>11. Simulates(p, out, g)
  BY <1>2, <1>7, <1>8, <1>9, <1>10, TargetSimulates
<1>12. Flushes(s, b) /\ Flushes(s, d) /\ Flushes(s, e)
  <2>1. Flushes(s, b)
    BY <1>3, <1>4, FlushesTwice
  <2>2. Flushes(s, d)
    BY <1>5, <2>1, FlushesTwice
  <2> QED BY <1>6, <2>1, <2>2, FlushesTwice
<1>13. Flushes(s, p)
  BY <1>7, <1>12, FlushesTwice
<1> QED BY <1>1, <1>11, <1>13, FlushThenSimulates

LEMMA CPhaseSimulates ==
  ASSUME NEW s, Sound(s), NEW t \in Qubits, NEW g \in Gates, g.on = <<1 - t, t>>, g.name = "CPhase"
  PROVE  Simulates(s, CPhase(s, 1 - t, t, Angle(g)), g)
<1> DEFINE a == execute_if(s, 1 - t)
           b == execute_if(a, t)
           g2 == Gate("CPhase", <<1 - t, t>>, <<Angle(g)>>)
           out == Enqueue(b, g2)
<1>1. CPhase(s, 1 - t, t, Angle(g)) = out
  BY DEF CPhase
<1>2. Angle(g) \in Int /\ g2 \in Gates /\ g2.name = "CPhase" /\ g2.on = <<1 - t, t>> /\ Angle(g2) = Angle(g)
  <2>1. Angle(g) \in Int
    BY AngleType
  <2> QED BY <2>1, TwoQubitGates
<1> HIDE DEF g2
<1>3. Flushes(s, a) /\ Sound(a) /\ Idle(a, 1 - t)
  BY ClearsControl
<1> HIDE DEF a
<1>4. Flushes(a, b) /\ Sound(b) /\ Idle(b, 1 - t) /\ Idle(b, t)
  BY <1>3, ExecutedIf DEF Idle, SameOn, Flushes
<1> HIDE DEF b
<1>5. Joins(b, out, g2)
  BY <1>2, <1>4, EnqueueJoins
<1> HIDE DEF out
<1>6. ASSUME NEW x \in Vec PROVE Kept(b, t, Applied(g2, x)) = Applied(g, Kept(b, t, x))
  <2>1. Applied(g2, x) \in Vec
    BY <1>2, AppliedType
  <2>2. Kept(b, t, Applied(g2, x)) = Applied(g2, x) /\ Kept(b, t, x) = x
    BY <1>4, <2>1, NothingKept DEF Idle
  <2> QED BY <1>2, <2>2, ActsOnTarget
<1>7. Weight(g2) <= Weight(g)
  BY <1>2 DEF Weight, Branching
<1>8. Simulates(b, out, g)
  BY <1>2, <1>4, <1>5, <1>6, <1>7, TargetSimulates
<1> QED BY <1>1, <1>3, <1>4, <1>8, FlushThenSimulates

(* A fixed gate on two qubits, with the target named.                        *)
LEMMA FixedTwo ==
  \A t \in Qubits, n \in {"CH", "CNOT", "CY", "CZ", "Swap"} :
    /\ Gate(n, <<1 - t, t>>, <<>>) \in Gates /\ Gate(n, <<1 - t, t>>, <<>>).name = n
    /\ Gate(n, <<1 - t, t>>, <<>>).on = <<1 - t, t>>
<1>1. 0 \in Int
  OBVIOUS
<1> QED BY <1>1, TwoQubitGates

LEMMA OtherQubit == \A t \in Qubits : 1 - t \in Qubits /\ 1 - (1 - t) = t
BY DEF Qubits

(* What passes all that a state holds back on the target.                    *)
LEMMA TargetKept ==
  ASSUME NEW s, Sound(s), NEW t \in Qubits, NEW x \in Vec
  PROVE  /\ ~s.queue_Ry[t] /\ s.queue_H[t] => ActOn(t, MX, Kept(s, t, x)) = Kept(s, t, ActOn(t, MZ, x))
         /\ ~s.queue_Ry[t] /\ ~s.queue_H[t] => ActOn(t, MX, Kept(s, t, x)) = Kept(s, t, ActOn(t, MX, x))
         /\ ~s.queue_Rx[t] /\ s.queue_H[t]
              => ActOn(t, MY, Kept(s, t, x)) = Kept(s, t, ActOn(t, Times(-1, MY), x))
         /\ ~s.queue_Rx[t] /\ ~s.queue_H[t] => ActOn(t, MY, Kept(s, t, x)) = Kept(s, t, ActOn(t, MY, x))
         /\ ~s.queue_Rx[t] /\ ~s.queue_Ry[t] /\ s.queue_H[t]
              => ActOn(t, MZ, Kept(s, t, x)) = Kept(s, t, ActOn(t, MX, x))
<1> DEFINE h == s.queue_H[t]
           a == s.angles_Rx[t]
           b == s.angles_Ry[t]
<1>1. h \in BOOLEAN /\ a \in Int /\ b \in Int
  BY SoundFields
<1>2. ASSUME NEW y
      PROVE  /\ ~s.queue_Ry[t] => Kept(s, t, y) = Back(t, h, a, 0, y)
             /\ ~s.queue_Rx[t] => Kept(s, t, y) = Back(t, h, 0, b, y)
             /\ ~s.queue_Rx[t] /\ ~s.queue_Ry[t] => Kept(s, t, y) = Back(t, h, 0, 0, y)
  BY KeptOfOne
<1> HIDE DEF h, a, b
<1>3. ASSUME NEW k \in Int
      PROVE  /\ h => ActOn(t, MX, Back(t, h, k, 0, x)) = Back(t, h, k, 0, ActOn(t, MZ, x))
             /\ ~h => ActOn(t, MX, Back(t, h, k, 0, x)) = Back(t, h, k, 0, ActOn(t, MX, x))
             /\ h => ActOn(t, MY, Back(t, h, 0, k, x)) = Back(t, h, 0, k, ActOn(t, Times(-1, MY), x))
             /\ ~h => ActOn(t, MY, Back(t, h, 0, k, x)) = Back(t, h, 0, k, ActOn(t, MY, x))
             /\ h => ActOn(t, MZ, Back(t, h, 0, 0, x)) = Back(t, h, 0, 0, ActOn(t, MX, x))
             /\ ~h => ActOn(t, MZ, Back(t, h, 0, 0, x)) = Back(t, h, 0, 0, ActOn(t, MZ, x))
             /\ ActOn(t, MH, Back(t, h, 0, 0, x)) = Back(t, h, 0, 0, ActOn(t, MH, x))
             /\ ~h => ActOn(t, MRx(k), Back(t, h, k, 0, x)) = Back(t, h, k, 0, ActOn(t, MRx(k), x))
             /\ ~h => ActOn(t, MRy(k), Back(t, h, 0, k, x)) = Back(t, h, 0, k, ActOn(t, MRy(k), x))
  BY <1>1, TargetPasses
<1>4. /\ ~s.queue_Ry[t] /\ h => ActOn(t, MX, Kept(s, t, x)) = Kept(s, t, ActOn(t, MZ, x))
      /\ ~s.queue_Ry[t] /\ ~h => ActOn(t, MX, Kept(s, t, x)) = Kept(s, t, ActOn(t, MX, x))
  BY <1>1, <1>2, <1>3
<1>5. /\ ~s.queue_Rx[t] /\ h => ActOn(t, MY, Kept(s, t, x)) = Kept(s, t, ActOn(t, Times(-1, MY), x))
      /\ ~s.queue_Rx[t] /\ ~h => ActOn(t, MY, Kept(s, t, x)) = Kept(s, t, ActOn(t, MY, x))
  BY <1>1, <1>2, <1>3
<1>6. ~s.queue_Rx[t] /\ ~s.queue_Ry[t] /\ h => ActOn(t, MZ, Kept(s, t, x)) = Kept(s, t, ActOn(t, MX, x))
  BY <1>1, <1>2, <1>3
<1> QED BY <1>4, <1>5, <1>6 DEF h

(* CNOT past H on its target, or past H on both.                             *)
LEMMA CNOTPastTarget ==
  ASSUME NEW b, Sound(b), NEW t \in Qubits, Idle(b, 1 - t), ~b.queue_Ry[t], NEW g \in Gates,
         g.on = <<1 - t, t>>, g.name = "CNOT",
         NEW g2, g2 = Gate(IF b.queue_H[t] THEN "CZ" ELSE "CNOT", <<1 - t, t>>, <<>>)
  PROVE  Simulates(b, Enqueue(b, g2), g)
<1>1. g2 \in Gates /\ g2.name = (IF b.queue_H[t] THEN "CZ" ELSE "CNOT") /\ g2.on = <<1 - t, t>>
  BY FixedTwo
<1>2. Joins(b, Enqueue(b, g2), g2)
  BY <1>1, EnqueueJoins
<1>3. ASSUME NEW x \in Vec PROVE Kept(b, t, Applied(g2, x)) = Applied(g, Kept(b, t, x))
  <2>1. Kept(b, t, x) \in Vec
    BY KeptType
  <2>2. /\ b.queue_H[t] => ActOn(t, MX, Kept(b, t, x)) = Kept(b, t, ActOn(t, MZ, x))
        /\ ~b.queue_H[t] => ActOn(t, MX, Kept(b, t, x)) = Kept(b, t, ActOn(t, MX, x))
    BY TargetKept
  <2>3. /\ b.queue_H[t] => Applied(g2, x) = ActOn(t, MZ, x)
        /\ ~b.queue_H[t] => Applied(g2, x) = ActOn(t, MX, x)
    BY <1>1, ActsOnTarget
  <2>4. Applied(g, Kept(b, t, x)) = ActOn(t, MX, Kept(b, t, x))
    BY <2>1, ActsOnTarget
  <2> QED BY <2>2, <2>3, <2>4
<1>4. Weight(g2) <= Weight(g)
  BY <1>1 DEF Weight, Branching
<1> QED BY <1>1, <1>2, <1>3, <1>4, TargetSimulates

LEMMA CNOTPastBoth ==
  ASSUME NEW s, Sound(s), NEW t \in Qubits, s.queue_H[t], s.queue_H[1 - t], ~s.queue_Ry[t],
         ~s.queue_Ry[1 - t], ~s.queue_Rx[1 - t], NEW g \in Gates, g.on = <<1 - t, t>>, g.name = "CNOT",
         NEW g2, g2 = Gate("CNOT", <<t, 1 - t>>, <<>>)
  PROVE  Simulates(s, Enqueue(s, g2), g)
<1> DEFINE c == 1 - t
           s2 == Enqueue(s, g2)
<1>1. c \in Qubits /\ 1 - c = t
  BY OtherQubit
<1>2. ~s.queue_Ry[c] /\ ~s.queue_Rx[c] /\ s.queue_H[c] /\ g2 = Gate("CNOT", <<1 - c, c>>, <<>>)
  BY <1>1
<1> HIDE DEF c
<1>3. g2 \in Gates /\ g2.name = "CNOT" /\ g2.on = <<1 - c, c>>
  BY <1>1, <1>2, FixedTwo, ZenonT(60)
<1>4. Joins(s, s2, g2)
  BY <1>3, EnqueueJoins
<1> HIDE DEF s2
<1>5. Sound(s2) /\ SameOn(s, s2, t) /\ SameOn(s, s2, c)
  BY <1>1, <1>4 DEF Joins
<1>6. ASSUME NEW v \in Vec PROVE Meaning(s2, v) = Phased(Zeta(0), Applied(g, Meaning(s, v)))
  <2> DEFINE w == Run(v, Total(s))
             y == Kept(s, c, w)
  <2>1. w \in Vec /\ Meaning(s, v) \in Vec /\ Meaning(s, v) = Kept(s, t, y)
    BY MeaningFrom DEF c
  <2>2. y \in Vec
    BY <1>1, <2>1, KeptType
  <2>3. Meaning(s2, v) = Kept(s2, t, Kept(s2, c, Run(v, Total(s2))))
    BY <1>5, MeaningFrom DEF c
  <2>4. Run(v, Total(s2)) = Applied(g2, w)
    BY <1>4 DEF Joins
  <2> HIDE DEF w
  <2>5. Applied(g2, w) = ActOn(c, MX, w)
    BY <1>1, <1>3, <2>1, ActsOnTarget
  <2>6. s.queue_H[c] \in BOOLEAN /\ s.queue_H[t] \in BOOLEAN /\ s.angles_Rx[t] \in Int /\ 0 \in Int
    BY <1>1, SoundFields
  <2>7. ActOn(c, MX, w) \in Vec
    BY <2>1, FixedTypes, ActOnType
  <2>8. ActOn(c, MZ, y) = Kept(s, c, ActOn(c, MX, w))
    BY <1>1, <1>2, <2>1, TargetKept
  <2> HIDE DEF y
  <2>9. ActOn(t, MZ, y) = ActOn(c, MZ, y)
    <3>1. ActOn(0, Diag(1, -1), y) = ActOn(1, Diag(1, -1), y)
      BY <2>2, ControlledPhase
    <3> QED BY <3>1 DEF MZ, c, Qubits
  <2>10. ActOn(t, MX, Kept(s, t, y)) = Kept(s, t, ActOn(t, MZ, y))
    BY <2>2, TargetKept
  <2>11. Applied(g, Meaning(s, v)) = ActOn(t, MX, Meaning(s, v))
    BY <2>1, ActsOnTarget
  <2>12. Applied(g, Meaning(s, v)) \in Vec
    BY <2>1, AppliedType
  <2>13. Kept(s2, t, Kept(s2, c, Applied(g2, w))) = Kept(s, t, Kept(s, c, Applied(g2, w)))
    BY <1>5, KeptSame
  <2> QED BY <2>1, <2>3, <2>4, <2>5, <2>8, <2>9, <2>10, <2>11, <2>12, <2>13, ByOne
<1>7. Cost(s2) <= Cost(s) + Weight(g)
  <2>1. Weight(g2) = 0 /\ Weight(g) = 0 /\ Cost(s) \in Nat
    BY <1>3, CostType DEF Weight, Branching
  <2> QED BY <1>4, <2>1 DEF Joins
<1>8. 0 \in 0 .. 15
  OBVIOUS
<1>9. Simulates(s, s2, g)
  BY <1>5, <1>6, <1>7, <1>8 DEF Simulates
<1> QED BY <1>9 DEF s2

(* Where CNOT goes wrong: H is held back on both qubits, and Ry on the       *)
(* target only.  Clearing the target leaves H on the control, which CNOT     *)
(* does not pass.                                                            *)
StrandsH(s, c, t) ==
  s.queue_H[c] /\ s.queue_H[t] /\ s.queue_Ry[t] /\ ~s.queue_Ry[c] /\ ~s.queue_Rx[c]

LEMMA CNOTSimulates ==
  ASSUME NEW s, Sound(s), NEW t \in Qubits, NEW g \in Gates, g.on = <<1 - t, t>>, g.name = "CNOT",
         ~StrandsH(s, 1 - t, t)
  PROVE  Simulates(s, CNOT(s, 1 - t, t), g)
<1> DEFINE c == 1 - t
           w1 == s.queue_Ry[c] \/ s.queue_Rx[c] \/ (s.queue_H[c] /\ ~s.queue_H[t])
           a == ExecuteWhen(w1, s, c, "Ry")
           w2 == a.queue_Ry[t]
           b == ExecuteWhen(w2, a, t, "Ry")
           g2 == Gate(IF b.queue_H[t] THEN "CZ" ELSE "CNOT", <<c, t>>, <<>>)
           g3 == Gate("CNOT", <<t, c>>, <<>>)
<1>1. /\ ~b.queue_H[c] => CNOT(s, 1 - t, t) = Enqueue(b, g2)
      /\ b.queue_H[t] /\ b.queue_H[c] => CNOT(s, 1 - t, t) = Enqueue(b, g3)
  BY DEF CNOT
<1>2. c \in Qubits /\ 1 - c = t
  BY OtherQubit
<1>3. w1 \in BOOLEAN
  BY <1>2, SoundFields
<1>4. ~w1 => ~s.queue_Ry[c] /\ ~s.queue_Rx[c] /\ (s.queue_H[c] => s.queue_H[t])
  OBVIOUS
<1> HIDE DEF w1
<1>5. /\ Flushes(s, a) /\ Sound(a) /\ SameOn(s, a, t)
      /\ w1 => Idle(a, c)
      /\ ~w1 => a = s
  BY <1>2, <1>3, ExecutedWhen DEF AfterRy, Flushes, Idle
<1> HIDE DEF a
<1>6. w2 \in BOOLEAN
  BY <1>5, SoundFields
<1>7. Idle(a, c) => Simulates(b, Enqueue(b, g2), g)
  <2> SUFFICES ASSUME Idle(a, c) PROVE Simulates(b, Enqueue(b, g2), g)
    OBVIOUS
  <2>1. ~w2 => ~a.queue_Ry[t]
    OBVIOUS
  <2> HIDE DEF w2
  <2>2. Sound(b) /\ Idle(b, 1 - t) /\ ~b.queue_Ry[t]
    BY <1>5, <1>6, <2>1, ClearsTarget
  <2> HIDE DEF b
  <2> QED BY <2>2, CNOTPastTarget
<1>8. Flushes(a, b)
  <2> HIDE DEF w2
  <2> QED BY <1>5, <1>6, ExecutedWhen
<1>9. Flushes(s, b)
  <2> HIDE DEF b
  <2> QED BY <1>5, <1>8, FlushesTwice
<1>10. CASE Idle(a, c)
  <2>1. ~b.queue_H[c]
    <3> HIDE DEF w2
    <3> QED BY <1>5, <1>6, <1>10, ClearsTarget DEF Idle
  <2> HIDE DEF b, g2
  <2> QED BY <1>1, <1>7, <1>9, <1>10, <2>1, FlushThenSimulates
<1>11. CASE ~Idle(a, c)
  <2>1. a = s /\ s.queue_H[c] /\ s.queue_H[t] /\ ~s.queue_Ry[c] /\ ~s.queue_Rx[c]
    BY <1>4, <1>5, <1>11 DEF Idle
  <2>2. ~s.queue_Ry[t]
    BY <2>1 DEF StrandsH
  <2>3. b = s
    <3>1. ~w2
      BY <2>1, <2>2
    <3> HIDE DEF w2
    <3> QED BY <1>5, <1>6, <2>1, <3>1, ExecutedWhen
  <2> HIDE DEF b, g2
  <2>4. Simulates(s, Enqueue(s, g3), g)
    BY <2>1, <2>2, CNOTPastBoth
  <2> QED BY <1>1, <2>1, <2>3, <2>4
<1> QED BY <1>10, <1>11

LEMMA CYSimulates ==
  ASSUME NEW s, Sound(s), NEW t \in Qubits, NEW g \in Gates, g.on = <<1 - t, t>>, g.name = "CY"
  PROVE  Simulates(s, CY(s, 1 - t, t), g)
<1> DEFINE c == 1 - t
           a == execute_if(s, c)
           w1 == a.queue_Rx[t]
           b == ExecuteWhen(w1, a, t, "Rx")
           z == Gate("Z", <<c>>, <<>>)
           d == Enqueue(b, z)
           y == Gate("CY", <<c, t>>, <<>>)
<1>1. /\ b.queue_H[t] => CY(s, c, t) = Enqueue(d, y)
      /\ ~b.queue_H[t] => CY(s, c, t) = Enqueue(b, y)
  BY DEF CY
<1>2. Flushes(s, a) /\ Sound(a) /\ Idle(a, c)
  BY ClearsControl
<1>3. /\ c \in Qubits
      /\ z \in Gates /\ z.name = "Z" /\ z.on = <<c>>
      /\ y \in Gates /\ y.name = "CY" /\ y.on = <<c, t>>
  <2>1. c \in Qubits
    BY OtherQubit
  <2>2. y \in Gates /\ y.name = "CY" /\ y.on = <<c, t>>
    BY FixedTwo
  <2> HIDE DEF c, y
  <2> QED BY <2>1, <2>2, FixedGate
<1> HIDE DEF a, z, y
<1>4. Flushes(a, b) /\ Sound(b) /\ Idle(b, c) /\ ~b.queue_Rx[t]
  <2>1. w1 \in BOOLEAN
    BY <1>2, SoundFields
  <2>2. ~w1 => ~a.queue_Rx[t]
    OBVIOUS
  <2> HIDE DEF w1
  <2> QED BY <1>2, <2>1, <2>2, ClearsTarget
<1> HIDE DEF b
<1>5. Flushes(s, b)
  BY <1>2, <1>4, FlushesTwice
<1>6. Weight(y) = 0 /\ Weight(z) = 0 /\ Weight(g) = 0
  BY <1>3 DEF Weight, Branching
<1>7. \A x \in Vec : Applied(g, Kept(b, t, x)) = ActOn(t, MY, Kept(b, t, x))
  BY <1>4, KeptType, ActsOnTarget
<1>8. \A x \in Vec : Applied(y, x) = ActOn(t, MY, x)
  BY <1>3, ActsOnTarget DEF c
<1>9. CASE ~b.queue_H[t]
  <2>1. Joins(b, Enqueue(b, y), y)
    BY <1>3, <1>4, EnqueueJoins
  <2>2. \A x \in Vec : Kept(b, t, Applied(y, x)) = Applied(g, Kept(b, t, x))
    BY <1>4, <1>7, <1>8, <1>9, TargetKept
  <2>3. Simulates(b, Enqueue(b, y), g)
    BY <1>3, <1>4, <1>6, <2>1, <2>2, TargetSimulates DEF c
  <2> QED BY <1>1, <1>5, <1>9, <2>3, FlushThenSimulates
<1>10. CASE b.queue_H[t]
  <2> DEFINE out == Enqueue(d, y)
  <2>1. Joins(b, d, z)
    BY <1>3, <1>4, EnqueueJoins
  <2> HIDE DEF d
  <2>2. Joins(d, out, y)
    BY <1>3, <2>1, EnqueueJoins DEF Joins
  <2> HIDE DEF out
  <2>3. Sound(out) /\ Cost(out) <= Cost(b) + Weight(g) /\ \A r \in Qubits : SameOn(b, out, r)
    <3>1. Cost(b) \in Nat
      BY <1>4, CostType
    <3> QED BY <1>6, <2>1, <2>2, <3>1, SameOnTrans DEF Joins
  <2>4. ASSUME NEW v \in Vec
        PROVE  Kept(b, t, Run(v, Total(out))) = Applied(g, Kept(b, t, Run(v, Total(b))))
    <3> DEFINE x == Run(v, Total(b))
    <3>1. Run(v, Total(out)) = Applied(y, Applied(z, x))
      BY <2>1, <2>2 DEF Joins
    <3>2. x \in Vec
      BY <1>4, MeaningAlone DEF c
    <3> HIDE DEF x
    <3>3. Applied(z, x) = Act(c, MZ, x) /\ Act(c, MZ, x) \in Vec
      <4>1. Matrix(z) = MZ
        BY <1>3, MatricesOfPlain
      <4>2. z.name \notin Controlled \cup {"Swap"} /\ c \in {0, 1}
        BY <1>3 DEF Controlled, Qubits
      <4> QED BY <1>3, <3>2, <4>1, <4>2, AppliedOne, FixedTypes, ActType
    <3>4. ActOn(t, MY, Act(c, MZ, x)) = ActOn(t, Times(-1, MY), x)
      BY <3>2, FixedTypes, FactorToControl DEF MZ, c, Qubits
    <3>5. ActOn(t, MY, Kept(b, t, x)) = Kept(b, t, ActOn(t, Times(-1, MY), x))
      BY <1>4, <1>10, <3>2, TargetKept
    <3> QED BY <1>7, <1>8, <3>1, <3>2, <3>3, <3>4, <3>5 DEF x
  <2>5. Simulates(b, out, g)
    BY <1>4, <2>3, <2>4, AloneSimulates DEF c
  <2> QED BY <1>1, <1>5, <1>10, <2>5, FlushThenSimulates DEF out
<1> QED BY <1>9, <1>10 DEF c

(* CZ past H on one qubit turns into CNOT onto that qubit.                   *)
LEMMA CZPastH ==
  ASSUME NEW s, Sound(s), NEW q \in Qubits, Idle(s, 1 - q), s.queue_H[q], ~s.queue_Rx[q], ~s.queue_Ry[q],
         NEW g \in Gates, \A x \in Vec : Applied(g, x) = ActOn(q, MZ, x),
         NEW g2, g2 = Gate("CNOT", <<1 - q, q>>, <<>>)
  PROVE  Simulates(s, Enqueue(s, g2), g)
<1>1. g2 \in Gates /\ g2.name = "CNOT" /\ g2.on = <<1 - q, q>>
  BY FixedTwo
<1>2. Joins(s, Enqueue(s, g2), g2)
  BY <1>1, EnqueueJoins
<1>3. ASSUME NEW x \in Vec PROVE Kept(s, q, Applied(g2, x)) = Applied(g, Kept(s, q, x))
  <2>1. Kept(s, q, x) \in Vec
    BY KeptType
  <2>2. ActOn(q, MZ, Kept(s, q, x)) = Kept(s, q, ActOn(q, MX, x))
    BY TargetKept
  <2>3. Applied(g2, x) = ActOn(q, MX, x)
    BY <1>1, ActsOnTarget
  <2> QED BY <2>1, <2>2, <2>3
<1>4. Weight(g2) <= Weight(g)
  BY <1>1 DEF Weight, Branching
<1> QED BY <1>1, <1>2, <1>3, <1>4, TargetSimulates

LEMMA CZPastNothing ==
  ASSUME NEW s, Sound(s), NEW t \in Qubits, Idle(s, 1 - t), Idle(s, t), NEW g \in Gates,
         g.on = <<1 - t, t>>, g.name = "CZ", NEW g2, g2 = Gate("CZ", <<1 - t, t>>, <<>>)
  PROVE  Simulates(s, Enqueue(s, g2), g)
<1>1. g2 \in Gates /\ g2.name = "CZ" /\ g2.on = <<1 - t, t>>
  BY FixedTwo
<1>2. Joins(s, Enqueue(s, g2), g2)
  BY <1>1, EnqueueJoins
<1>3. ASSUME NEW x \in Vec PROVE Kept(s, t, Applied(g2, x)) = Applied(g, Kept(s, t, x))
  <2>1. Applied(g2, x) \in Vec
    BY <1>1, AppliedType
  <2>2. Kept(s, t, Applied(g2, x)) = Applied(g2, x) /\ Kept(s, t, x) = x
    BY <2>1, NothingKept DEF Idle
  <2> QED BY <1>1, <2>2, ActsOnTarget
<1>4. Weight(g2) <= Weight(g)
  BY <1>1 DEF Weight, Branching
<1> QED BY <1>1, <1>2, <1>3, <1>4, TargetSimulates

LEMMA CZSimulates ==
  ASSUME NEW s, Sound(s), NEW t \in Qubits, NEW g \in Gates, g.on = <<1 - t, t>>, g.name = "CZ"
  PROVE  Simulates(s, CZ(s, 1 - t, t), g)
<1> DEFINE c == 1 - t
           turned(q) == s.queue_Ry[q] \/ s.queue_Rx[q]
           oneH == ~turned(c) /\ ~turned(t) /\ s.queue_H[c] # s.queue_H[t]
           b1 == execute_queued_ops(s, c, "Ry")
           both == execute_queued_ops(b1, t, "Ry")
           out == CZ(s, c, t)
           gz == Gate("CZ", <<c, t>>, <<>>)
           gc == Gate("CNOT", <<t, c>>, <<>>)
           gt == Gate("CNOT", <<c, t>>, <<>>)
<1>1. /\ ~Held(s, c) /\ ~Held(s, t) => out = Enqueue(s, gz)
      /\ oneH /\ s.queue_H[c] => out = Enqueue(s, gc)
      /\ oneH /\ s.queue_H[t] => out = Enqueue(s, gt)
      /\ (Held(s, c) \/ Held(s, t)) /\ ~oneH => out = Enqueue(both, gz)
  <2>1. s.queue_H[c] \in BOOLEAN /\ s.queue_H[t] \in BOOLEAN
    BY OtherQubit, SoundFields
  <2> QED BY <2>1 DEF CZ, Held
<1> SUFFICES Simulates(s, out, g)
  OBVIOUS
<1>2. c \in Qubits /\ 1 - c = t
  BY OtherQubit
<1> HIDE DEF out
<1>3. CASE ~Held(s, c) /\ ~Held(s, t)
  <2>1. Idle(s, 1 - t) /\ Idle(s, t)
    BY <1>3 DEF Held, Idle
  <2>2. Simulates(s, Enqueue(s, gz), g)
    BY <2>1, CZPastNothing
  <2> QED BY <1>1, <1>3, <2>2
<1>4. ASSUME NEW x \in Vec PROVE Applied(g, x) = ActOn(t, MZ, x) /\ Applied(g, x) = ActOn(c, MZ, x)
  BY ActsOnTarget
<1>5. CASE oneH /\ s.queue_H[c]
  <2>1. Idle(s, 1 - c) /\ ~s.queue_Rx[c] /\ ~s.queue_Ry[c] /\ s.queue_H[c]
    <3>1. ~s.queue_H[t]
      <4>1. s.queue_H[c] \in BOOLEAN /\ s.queue_H[t] \in BOOLEAN
        BY <1>2, SoundFields
      <4> QED BY <1>5, <4>1
    <3> QED BY <1>2, <1>5, <3>1 DEF Idle
  <2>2. gc = Gate("CNOT", <<1 - c, c>>, <<>>)
    BY <1>2
  <2> HIDE DEF c, gc, oneH
  <2>3. Simulates(s, Enqueue(s, gc), g)
    BY <1>2, <1>4, <2>1, <2>2, CZPastH
  <2> QED BY <1>1, <1>5, <2>3
<1>6. CASE oneH /\ s.queue_H[t]
  <2>1. Idle(s, 1 - t) /\ ~s.queue_Rx[t] /\ ~s.queue_Ry[t] /\ s.queue_H[t]
    <3>1. ~s.queue_H[c]
      <4>1. s.queue_H[c] \in BOOLEAN /\ s.queue_H[t] \in BOOLEAN
        BY <1>2, SoundFields
      <4> QED BY <1>6, <4>1
    <3> QED BY <1>6, <3>1 DEF Idle
  <2>2. gt = Gate("CNOT", <<1 - t, t>>, <<>>)
    OBVIOUS
  <2> HIDE DEF gt, oneH
  <2>3. Simulates(s, Enqueue(s, gt), g)
    BY <1>4, <2>1, <2>2, CZPastH
  <2> QED BY <1>1, <1>6, <2>3
<1>7. CASE (Held(s, c) \/ Held(s, t)) /\ ~oneH
  <2>1. AfterRy(s, b1, c)
    BY <1>2, Executes
  <2>2. Sound(b1)
    BY <2>1 DEF AfterRy, Flushes
  <2> HIDE DEF b1
  <2>3. AfterRy(b1, both, t)
    BY <2>2, Executes
  <2>4. Sound(both)
    BY <2>3 DEF AfterRy, Flushes
  <2> HIDE DEF both
  <2>5. Flushes(s, both)
    BY <2>1, <2>3, FlushesTwice DEF AfterRy
  <2>6. Idle(both, t) /\ Idle(both, 1 - t)
    BY <2>1, <2>3 DEF AfterRy, Idle, SameOn
  <2>7. Simulates(both, Enqueue(both, gz), g)
    BY <2>4, <2>6, CZPastNothing
  <2> HIDE DEF oneH
  <2> QED BY <1>1, <1>7, <2>5, <2>7, FlushThenSimulates
<1>8. oneH => s.queue_H[c] \/ s.queue_H[t]
  <2>1. s.queue_H[c] \in BOOLEAN /\ s.queue_H[t] \in BOOLEAN
    BY <1>2, SoundFields
  <2> QED BY <2>1
<1> HIDE DEF oneH
<1> QED BY <1>3, <1>5, <1>6, <1>7, <1>8

LEMMA ExchangedBack ==
  ASSUME NEW q \in Qubits, NEW h \in BOOLEAN, NEW a \in Int, NEW b \in Int, NEW v \in Vec
  PROVE  Exchanged(Back(q, h, a, b, v)) = Back(1 - q, h, a, b, Exchanged(v))
<1> DEFINE x == IF h THEN Act(q, MH, v) ELSE v
           y == Act(q, MRx(a), x)
<1>1. q \in {0, 1} /\ MH \in Mat /\ MRx(a) \in Mat /\ MRy(b) \in Mat
  BY FixedTypes, TurnTypes DEF Qubits
<1>2. x \in Vec /\ y \in Vec
  <2>1. x \in Vec
    BY <1>1, ActType
  <2> HIDE DEF x
  <2> QED BY <1>1, <2>1, ActType
<1>3. Exchanged(x) = IF h THEN Act(1 - q, MH, Exchanged(v)) ELSE Exchanged(v)
  BY <1>1, ExchangedAct
<1>4. Back(q, h, a, b, v) = Act(q, MRy(b), y)
  BY DEF Back
<1> HIDE DEF x
<1>5. Exchanged(y) = Act(1 - q, MRx(a), Exchanged(x))
  BY <1>1, <1>2, ExchangedAct
<1> HIDE DEF y
<1>6. Exchanged(Act(q, MRy(b), y)) = Act(1 - q, MRy(b), Exchanged(y))
  BY <1>1, <1>2, ExchangedAct
<1> QED BY <1>3, <1>4, <1>5, <1>6 DEF Back

LEMMA SWAPSimulates ==
  ASSUME NEW s, Sound(s), NEW g \in Gates, g.name = "Swap", NEW p, NEW r
  PROVE  Simulates(s, SWAP(s, p, r), g)
<1> DEFINE e == [s EXCEPT !.queue_Ry = Exchange(@), !.angles_Ry = Exchange(@),
                          !.queue_Rx = Exchange(@), !.angles_Rx = Exchange(@),
                          !.queue_H = Exchange(@)]
           g2 == Gate("Swap", <<0, 1>>, <<>>)
           out == Enqueue(e, g2)
<1>1. SWAP(s, p, r) = out
  BY DEF SWAP
<1>2. g2 \in Gates /\ g2.name = "Swap"
  <2>1. 1 \in Qubits /\ 1 - 1 = 0
    BY DEF Qubits
  <2>2. Gate("Swap", <<1 - 1, 1>>, <<>>) \in Gates /\ Gate("Swap", <<1 - 1, 1>>, <<>>).name = "Swap"
    BY <2>1, FixedTwo
  <2> QED BY <2>1, <2>2
<1> HIDE DEF g2
<1>3. ASSUME NEW S, NEW f \in [Qubits -> S]
      PROVE  Exchange(f) \in [Qubits -> S] /\ \A q \in Qubits : Exchange(f)[q] = f[1 - q]
  BY DEF Exchange, Qubits
<1>4. s \in PassType
  BY DEF Sound
<1>5. /\ s.queue_Rx \in [Qubits -> BOOLEAN] /\ s.queue_Ry \in [Qubits -> BOOLEAN]
      /\ s.queue_H \in [Qubits -> BOOLEAN]
      /\ s.angles_Rx \in [Qubits -> Int] /\ s.angles_Ry \in [Qubits -> Int]
  BY <1>4 DEF PassType
<1>6. /\ Exchange(s.queue_Rx) \in [Qubits -> BOOLEAN] /\ Exchange(s.queue_Ry) \in [Qubits -> BOOLEAN]
      /\ Exchange(s.queue_H) \in [Qubits -> BOOLEAN]
      /\ Exchange(s.angles_Rx) \in [Qubits -> Int] /\ Exchange(s.angles_Ry) \in [Qubits -> Int]
  BY <1>3, <1>5
<1>7. ASSUME NEW q \in Qubits
       PROVE  /\ Exchange(s.queue_Rx)[q] = s.queue_Rx[1 - q] /\ Exchange(s.queue_Ry)[q] = s.queue_Ry[1 - q]
              /\ Exchange(s.queue_H)[q] = s.queue_H[1 - q]
              /\ Exchange(s.angles_Rx)[q] = s.angles_Rx[1 - q]
              /\ Exchange(s.angles_Ry)[q] = s.angles_Ry[1 - q]
  BY DEF Exchange
<1>8. /\ e.queue_Rx = Exchange(s.queue_Rx) /\ e.queue_Ry = Exchange(s.queue_Ry)
      /\ e.queue_H = Exchange(s.queue_H)
      /\ e.angles_Rx = Exchange(s.angles_Rx) /\ e.angles_Ry = Exchange(s.angles_Ry)
      /\ e.modified_circuit = s.modified_circuit /\ e.queued_gates = s.queued_gates
  BY <1>4 DEF PassType
<1>9. e \in PassType
  BY <1>4, <1>6 DEF PassType
<1> HIDE DEF e
<1>10. \A q \in Qubits : /\ e.queue_Rx[q] = s.queue_Rx[1 - q] /\ e.queue_Ry[q] = s.queue_Ry[1 - q]
                        /\ e.queue_H[q] = s.queue_H[1 - q]
                        /\ e.angles_Rx[q] = s.angles_Rx[1 - q] /\ e.angles_Ry[q] = s.angles_Ry[1 - q]
  BY <1>8, <1>7
<1>11. Sound(e)
  BY <1>9, <1>10, OtherQubit DEF Sound
<1>12. Total(e) = Total(s) /\ Cost(e) = Cost(s)
  <2>1. Total(e) = Total(s)
    BY <1>8 DEF Total
  <2>2. Flags(e, 0) = Flags(s, 1) /\ Flags(e, 1) = Flags(s, 0)
    <3>1. 0 \in Qubits /\ 1 \in Qubits /\ 1 - 0 = 1 /\ 1 - 1 = 0
      BY DEF Qubits
    <3>2. /\ e.queue_Rx[0] = s.queue_Rx[1] /\ e.queue_Ry[0] = s.queue_Ry[1] /\ e.queue_H[0] = s.queue_H[1]
          /\ e.queue_Rx[1] = s.queue_Rx[0] /\ e.queue_Ry[1] = s.queue_Ry[0] /\ e.queue_H[1] = s.queue_H[0]
      BY <1>10, <3>1
    <3> QED BY <3>2 DEF Flags
  <2> QED BY <2>1, <2>2, CostType DEF Cost
<1>13. Joins(e, out, g2)
  BY <1>2, <1>11, EnqueueJoins
<1> HIDE DEF out
<1>14. Sound(out) /\ SameOn(e, out, 0) /\ SameOn(e, out, 1)
  BY <1>13 DEF Joins, Qubits
<1>15. Cost(out) <= Cost(s) + Weight(g)
  <2>1. Weight(g2) = 0 /\ Weight(g) = 0 /\ Cost(s) \in Nat
    BY <1>2, CostType DEF Weight, Branching
  <2> QED BY <1>12, <1>13, <2>1 DEF Joins
<1>16. ASSUME NEW q \in Qubits, NEW x \in Vec
       PROVE  Kept(out, q, Exchanged(x)) = Exchanged(Kept(s, 1 - q, x))
  <2>1. 1 - q \in Qubits /\ 1 - (1 - q) = q
    BY OtherQubit
  <2>2. SameOn(e, out, q)
    BY <1>14 DEF Qubits
  <2>3. Kept(out, q, Exchanged(x))
          = Back(q, s.queue_H[1 - q], s.angles_Rx[1 - q], s.angles_Ry[1 - q], Exchanged(x))
    BY <1>10, <2>2 DEF Kept, SameOn
  <2>4. ASSUME NEW c \in Qubits
        PROVE  Exchanged(Kept(s, c, x)) = Back(1 - c, s.queue_H[c], s.angles_Rx[c], s.angles_Ry[c], Exchanged(x))
    <3>1. s.queue_H[c] \in BOOLEAN /\ s.angles_Rx[c] \in Int /\ s.angles_Ry[c] \in Int
      BY SoundFields
    <3> QED BY <3>1, ExchangedBack DEF Kept
  <2> QED BY <2>1, <2>3, <2>4
<1>17. ASSUME NEW v \in Vec PROVE Meaning(out, v) = Phased(Zeta(0), Applied(g, Meaning(s, v)))
  <2> DEFINE w == Run(v, Total(s))
  <2>1. w \in Vec /\ Meaning(s, v) \in Vec /\ Meaning(s, v) = Kept(s, 1, Kept(s, 0, w))
    <3>1. 1 \in Qubits /\ 1 - 1 = 0
      BY DEF Qubits
    <3> QED BY <3>1, MeaningFrom
  <2>2. Run(v, Total(out)) = Exchanged(w)
    <3>1. Run(v, Total(out)) = Applied(g2, Run(v, Total(e)))
      BY <1>13 DEF Joins
    <3> QED BY <1>2, <1>12, <3>1, AppliedSwap
  <2>3. Meaning(out, v) = Kept(out, 0, Kept(out, 1, Exchanged(w)))
    BY <2>2 DEF Meaning
  <2> HIDE DEF w
  <2>4. 0 \in Qubits /\ 1 \in Qubits /\ 1 - 0 = 1 /\ 1 - 1 = 0
    BY DEF Qubits
  <2>5. Kept(s, 0, w) \in Vec
    BY <2>1, <2>4, KeptType
  <2>6. Kept(out, 1, Exchanged(w)) = Exchanged(Kept(s, 0, w))
    BY <1>16, <2>1, <2>4
  <2>7. Kept(out, 0, Exchanged(Kept(s, 0, w))) = Exchanged(Kept(s, 1, Kept(s, 0, w)))
    BY <1>16, <2>4, <2>5
  <2>8. Applied(g, Meaning(s, v)) = Exchanged(Meaning(s, v))
    BY AppliedSwap
  <2>9. Exchanged(Meaning(s, v)) \in Vec
    BY <2>1, ExchangedType
  <2> QED BY <2>1, <2>3, <2>6, <2>7, <2>8, <2>9, ByOne
<1>18. 0 \in 0 .. 15
  OBVIOUS
<1>19. Simulates(s, out, g)
  BY <1>14, <1>15, <1>17, <1>18 DEF Simulates
<1> QED BY <1>1, <1>19

(***************************************************************************)
(* The handler of every gate.                                              *)
(***************************************************************************)

(* A CNOT the pass would take past an H on its control.                      *)
Strands(s, g) == g.name = "CNOT" /\ StrandsH(s, g.on[1], g.on[2])

LEMMA ApplySimulates ==
  ASSUME NEW s, Sound(s), NEW g \in Walkable, ~Strands(s, g)
  PROVE  Simulates(s, apply_gate(s, g), g)
<1>1. g \in Gates /\ g.name \in gate_op_map
  BY DEF Walkable
<1>2. CASE g.name \in OneQubit
  BY <1>1, <1>2, OneQubitSimulates
<1>3. CASE g.name = "Swap"
  <2>1. apply_gate(s, g) = SWAP(s, g.on[1], g.on[Len(g.on)])
    BY <1>3 DEF apply_gate, gate_op_map
  <2> QED BY <1>1, <1>3, <2>1, SWAPSimulates
<1>4. CASE g.name \in {"CH", "CNOT", "CY", "CZ", "CRX", "CRY", "CRZ", "CPhase"}
  <2> DEFINE t == g.on[2]
  <2>1. t \in Qubits /\ g.on = <<1 - t, t>> /\ Len(g.on) = 2 /\ g.on[1] = 1 - t
    <3>1. Len(g.on) = 2 /\ g.on \in {<<0>>, <<1>>, <<0, 1>>, <<1, 0>>}
      BY <1>1, <1>4 DEF Gates, OnTwo, Controlled
    <3>2. g.on \in {<<0, 1>>, <<1, 0>>}
      BY <3>1
    <3> QED BY <3>1, <3>2 DEF Qubits
  <2>2. /\ g.name = "CH" => apply_gate(s, g) = CH(s, 1 - t, t)
        /\ g.name = "CNOT" => apply_gate(s, g) = CNOT(s, 1 - t, t)
        /\ g.name = "CY" => apply_gate(s, g) = CY(s, 1 - t, t)
        /\ g.name = "CZ" => apply_gate(s, g) = CZ(s, 1 - t, t)
        /\ g.name = "CRX" => apply_gate(s, g) = CR(s, "CRx", 1 - t, t, Angle(g))
        /\ g.name = "CRY" => apply_gate(s, g) = CR(s, "CRy", 1 - t, t, Angle(g))
        /\ g.name = "CRZ" => apply_gate(s, g) = CR(s, "CRz", 1 - t, t, Angle(g))
        /\ g.name = "CPhase" => apply_gate(s, g) = CPhase(s, 1 - t, t, Angle(g))
    BY <2>1 DEF apply_gate, Angle, gate_op_map
  <2>3. g.name = "CNOT" => ~StrandsH(s, 1 - t, t)
    BY <2>1 DEF Strands
  <2> HIDE DEF t
  <2>4. CASE g.name \in {"CH", "CY"}
    BY <1>1, <2>1, <2>2, <2>4, CHSimulates, CYSimulates
  <2>5. CASE g.name \in {"CNOT", "CZ"}
    BY <1>1, <2>1, <2>2, <2>3, <2>5, CNOTSimulates, CZSimulates
  <2>6. CASE g.name \in {"CRX", "CRY", "CRZ"}
    <3>1. ASSUME NEW n,
                 <<g.name, n>> \in {<<"CRX", "CRx">>, <<"CRY", "CRy">>, <<"CRZ", "CRz">>}
          PROVE  Simulates(s, CR(s, n, 1 - t, t, Angle(g)), g)
      BY <1>1, <2>1, <3>1, CRSimulates
    <3>2. /\ g.name = "CRX" => Simulates(s, CR(s, "CRx", 1 - t, t, Angle(g)), g)
          /\ g.name = "CRY" => Simulates(s, CR(s, "CRy", 1 - t, t, Angle(g)), g)
          /\ g.name = "CRZ" => Simulates(s, CR(s, "CRz", 1 - t, t, Angle(g)), g)
      BY <3>1
    <3> QED BY <2>2, <2>6, <3>2
  <2>7. CASE g.name = "CPhase"
    BY <1>1, <2>1, <2>2, <2>7, CPhaseSimulates
  <2> QED BY <1>4, <2>4, <2>5, <2>6, <2>7
<1> QED BY <1>1, <1>2, <1>3, <1>4 DEF gate_op_map, OneQubit

(***************************************************************************)
(* The walk.                                                               *)
(***************************************************************************)

(* What is held back goes out in the order in which it is read.              *)
Outgoing(s, q) ==
  (IF s.queue_H[q] THEN <<Gate("H", <<q>>, <<>>)>> ELSE <<>>)
  \o (IF s.queue_Rx[q] THEN <<Gate("Rx", <<q>>, <<s.angles_Rx[q]>>)>> ELSE <<>>)
  \o (IF s.queue_Ry[q] THEN <<Gate("Ry", <<q>>, <<s.angles_Ry[q]>>)>> ELSE <<>>)

LEMMA RunOne == \A v \in Vec, g \in Gates : Run(v, <<g>>) = Applied(g, v)
<1> TAKE v \in Vec, g \in Gates
<1>1. <<>> \in Seq(Gates) /\ <<g>> = Append(<<>>, g)
  BY EmptySeq
<1>2. Run(v, Append(<<>>, g)) = Applied(g, Run(v, <<>>))
  BY <1>1, RunAppend
<1> QED BY <1>1, <1>2, RunEmpty

(* A gate that goes out if it is held back.                                  *)
LEMMA RunIf ==
  ASSUME NEW b \in BOOLEAN, NEW g \in Gates, g.name \in Branching
  PROVE  LET c == IF b THEN <<g>> ELSE <<>>
         IN /\ c \in Seq(Gates) /\ Count(c) = One(b)
            /\ \A v \in Vec : Run(v, c) = IF b THEN Applied(g, v) ELSE v
<1>1. <<g>> \in Seq(Gates) /\ <<>> \in Seq(Gates)
  BY EmptySeq
<1>2. Count(<<g>>) = 1
  BY CountOne DEF Weight
<1> QED BY <1>1, <1>2, CountEmpty, RunEmpty, RunOne DEF One

LEMMA GoesOutOf ==
  ASSUME NEW s, Sound(s), NEW q \in Qubits
  PROVE  /\ Outgoing(s, q) \in Seq(Gates) /\ Count(Outgoing(s, q)) = Flags(s, q)
         /\ \A v \in Vec : Run(v, Outgoing(s, q)) = Kept(s, q, v)
<1> DEFINE h == s.queue_H[q]
           x == s.queue_Rx[q]
           y == s.queue_Ry[q]
           a == s.angles_Rx[q]
           b == s.angles_Ry[q]
           gh == Gate("H", <<q>>, <<>>)
           gx == Gate("Rx", <<q>>, <<a>>)
           gy == Gate("Ry", <<q>>, <<b>>)
           ch == IF h THEN <<gh>> ELSE <<>>
           cx == IF x THEN <<gx>> ELSE <<>>
           cy == IF y THEN <<gy>> ELSE <<>>
<1>1. /\ h \in BOOLEAN /\ x \in BOOLEAN /\ y \in BOOLEAN /\ a \in Int /\ b \in Int
      /\ ~x => a = 0
      /\ ~y => b = 0
  BY SoundFields DEF Sound
<1>2. Outgoing(s, q) = (ch \o cx) \o cy
  BY DEF Outgoing
<1>3. Flags(s, q) = One(h) + One(x) + One(y) /\ \A v : Kept(s, q, v) = Back(q, h, a, b, v)
  BY DEF Flags, Kept
<1> HIDE DEF h, x, y, a, b
<1>4. /\ gh \in Gates /\ gx \in Gates /\ gy \in Gates
      /\ gh.name = "H" /\ gx.name = "Rx" /\ gy.name = "Ry"
      /\ gh.on = <<q>> /\ gx.on = <<q>> /\ gy.on = <<q>>
      /\ Angle(gx) = a /\ Angle(gy) = b
  <2>1. gh \in Gates /\ gx \in Gates /\ gy \in Gates
    BY <1>1, GatesPutOut DEF Plain
  <2>2. /\ gh.name = "H" /\ gx.name = "Rx" /\ gy.name = "Ry"
        /\ gh.on = <<q>> /\ gx.on = <<q>> /\ gy.on = <<q>>
        /\ gx.angles = <<a>> /\ gy.angles = <<b>>
    BY DEF Gate
  <2> HIDE DEF gh, gx, gy
  <2>3. \A g, e : g.angles = <<e>> => Angle(g) = e
    BY DEF Angle
  <2> QED BY <2>1, <2>2, <2>3
<1> HIDE DEF gh, gx, gy
<1>5. ASSUME NEW v \in Vec
      PROVE  /\ Applied(gh, v) = Act(q, MH, v) /\ Applied(gx, v) = Act(q, MRx(a), v)
             /\ Applied(gy, v) = Act(q, MRy(b), v)
             /\ Applied(gh, v) \in Vec /\ Applied(gx, v) \in Vec /\ Applied(gy, v) \in Vec
  <2>1. q \in {0, 1} /\ {"H", "Rx", "Ry"} \cap (Controlled \cup {"Swap"}) = {}
    BY DEF Qubits, Controlled
  <2>2. Matrix(gh) = MH /\ Matrix(gx) = MRx(a) /\ Matrix(gy) = MRy(b)
    BY <1>4, MatricesOfPlain, MatricesOfTurning
  <2>3. Applied(gh, v) = Act(q, MH, v)
    BY <1>4, <2>1, <2>2, AppliedOne
  <2>4. Applied(gx, v) = Act(q, MRx(a), v)
    BY <1>4, <2>1, <2>2, AppliedOne
  <2>5. Applied(gy, v) = Act(q, MRy(b), v)
    BY <1>4, <2>1, <2>2, AppliedOne
  <2> QED BY <1>4, <2>3, <2>4, <2>5, AppliedType
<1>6. /\ ch \in Seq(Gates) /\ Count(ch) = One(h)
      /\ \A v \in Vec : Run(v, ch) = IF h THEN Applied(gh, v) ELSE v
  BY <1>1, <1>4, RunIf DEF Branching
<1>7. /\ cx \in Seq(Gates) /\ Count(cx) = One(x)
      /\ \A v \in Vec : Run(v, cx) = IF x THEN Applied(gx, v) ELSE v
  BY <1>1, <1>4, RunIf DEF Branching
<1>8. /\ cy \in Seq(Gates) /\ Count(cy) = One(y)
      /\ \A v \in Vec : Run(v, cy) = IF y THEN Applied(gy, v) ELSE v
  BY <1>1, <1>4, RunIf DEF Branching
<1> HIDE DEF ch, cx, cy
<1>9. ch \o cx \in Seq(Gates) /\ (ch \o cx) \o cy \in Seq(Gates)
  BY <1>6, <1>7, <1>8, ConcatProperties
<1>10. Count((ch \o cx) \o cy) = Flags(s, q)
  <2>1. Count(ch \o cx) = Count(ch) + Count(cx)
    BY <1>6, <1>7, CountConcat
  <2>2. Count((ch \o cx) \o cy) = Count(ch \o cx) + Count(cy)
    BY <1>8, <1>9, CountConcat
  <2> QED BY <1>3, <1>6, <1>7, <1>8, <2>1, <2>2
<1>11. ASSUME NEW v \in Vec PROVE Run(v, (ch \o cx) \o cy) = Back(q, h, a, b, v)
  <2> DEFINE vh == Run(v, ch)
             vx == Run(vh, cx)
  <2>1. vh = (IF h THEN Act(q, MH, v) ELSE v) /\ vh \in Vec
    BY <1>1, <1>5, <1>6
  <2> HIDE DEF vh
  <2>2. vx = Act(q, MRx(a), vh) /\ vx \in Vec
    BY <1>1, <1>5, <1>7, <2>1, NoTurn
  <2>3. Run(v, ch \o cx) = vx
    BY <1>6, <1>7, RunConcat DEF vh
  <2> HIDE DEF vx
  <2>4. Run(vx, cy) = Act(q, MRy(b), vx)
    BY <1>1, <1>5, <1>8, <2>2, NoTurn
  <2>5. Run(v, (ch \o cx) \o cy) = Run(Run(v, ch \o cx), cy)
    BY <1>8, <1>9, RunConcat
  <2> QED BY <2>1, <2>2, <2>3, <2>4, <2>5 DEF Back
<1> QED BY <1>2, <1>3, <1>9, <1>10, <1>11

LEMMA HeldBackOut ==
  ASSUME NEW s, Sound(s)
  PROVE  /\ Total(s) \o HeldBack(s) \in Seq(Gates) /\ HeldBack(s) \in Seq(Gates)
         /\ Count(Total(s) \o HeldBack(s)) = Cost(s)
         /\ \A v \in Vec : Run(v, Total(s) \o HeldBack(s)) = Meaning(s, v)
<1> DEFINE c == Total(s)
           d == Outgoing(s, 0)
           e == Outgoing(s, 1)
<1>1. HeldBack(s) = d \o e
  BY DEF HeldBack, Outgoing
<1>2. 0 \in Qubits /\ 1 \in Qubits
  BY DEF Qubits
<1>3. /\ c \in Seq(Gates)
      /\ d \in Seq(Gates) /\ Count(d) = Flags(s, 0) /\ \A v \in Vec : Run(v, d) = Kept(s, 0, v)
      /\ e \in Seq(Gates) /\ Count(e) = Flags(s, 1) /\ \A v \in Vec : Run(v, e) = Kept(s, 1, v)
  BY <1>2, SoundFields, GoesOutOf
<1>4. Cost(s) = Count(c) + Flags(s, 0) + Flags(s, 1)
  BY DEF Cost
<1>5. ASSUME NEW v \in Vec
      PROVE  Run(v, c) \in Vec /\ Meaning(s, v) = Kept(s, 1, Kept(s, 0, Run(v, c)))
  <2>1. 1 - 1 = 0
    OBVIOUS
  <2> QED BY <1>2, <2>1, MeaningFrom
<1> HIDE DEF c, d, e
<1>6. d \o e \in Seq(Gates) /\ c \o (d \o e) \in Seq(Gates)
  BY <1>3, ConcatProperties
<1>7. Count(c \o (d \o e)) = Cost(s)
  <2>1. Count(d \o e) = Count(d) + Count(e)
    BY <1>3, CountConcat
  <2>2. Count(c \o (d \o e)) = Count(c) + Count(d \o e)
    BY <1>3, <1>6, CountConcat
  <2>3. Count(c) \in Nat /\ Count(d) \in Nat /\ Count(e) \in Nat
    BY <1>3, CountFinite
  <2> QED BY <1>3, <1>4, <2>1, <2>2, <2>3
<1>8. ASSUME NEW v \in Vec PROVE Run(v, c \o (d \o e)) = Meaning(s, v)
  <2> DEFINE w == Run(v, c)
  <2>1. w \in Vec /\ Meaning(s, v) = Kept(s, 1, Kept(s, 0, w))
    BY <1>5
  <2>2. Run(v, c \o (d \o e)) = Run(w, d \o e)
    BY <1>3, <1>6, RunConcat
  <2> HIDE DEF w
  <2>3. Run(w, d \o e) = Run(Run(w, d), e)
    BY <1>3, <2>1, RunConcat
  <2>4. Kept(s, 0, w) \in Vec
    BY <1>2, <2>1, KeptType
  <2> QED BY <1>3, <2>1, <2>2, <2>3, <2>4
<1> QED BY <1>1, <1>6, <1>7, <1>8 DEF c

(* Measurements change no amplitude.                                         *)
LEMMA MeasuresDoNothing ==
  ASSUME NEW s, s.measure \in Seq(Qubits)
  PROVE  /\ Measures(s) \in Seq(Gates) /\ Count(Measures(s)) = 0
         /\ \A v \in Vec : Run(v, Measures(s)) = v
<1> DEFINE D == {Gate("Measure", <<q>>, <<>>) : q \in Qubits}
           T == {d \in Seq(Gates) : Count(d) = 0 /\ \A v \in Vec : Run(v, d) = v}
<1>1. ASSUME NEW g \in D
      PROVE  g \in Gates /\ Weight(g) = 0 /\ \A v \in Vec : Applied(g, v) = v
  <2>1. PICK q \in Qubits : g = Gate("Measure", <<q>>, <<>>)
    OBVIOUS
  <2>2. /\ g \in Gates /\ g.name = "Measure" /\ g.on = <<q>> /\ "Measure" \notin OnTwo
        /\ "Measure" \notin Branching
    BY <2>1, FixedGate
  <2>3. Matrix(g) = MI
    BY <2>2, MatricesOfPlain
  <2>4. g.name \notin Controlled \cup {"Swap"} /\ q \in {0, 1}
    BY <2>2 DEF OnTwo, Qubits
  <2>5. \A v \in Vec : Applied(g, v) = Act(q, MI, v)
    BY <2>2, <2>3, <2>4, AppliedOne
  <2> QED BY <2>2, <2>5, ActOne DEF Weight
<1> HIDE DEF D
<1>2. <<>> \in T
  BY EmptySeq, CountEmpty, RunEmpty
<1>3. ASSUME NEW d \in T, NEW g \in D PROVE Append(d, g) \in T
  <2>1. d \in Seq(Gates) /\ Count(d) = 0 /\ \A v \in Vec : Run(v, d) = v
    OBVIOUS
  <2>2. g \in Gates /\ Weight(g) = 0 /\ \A v \in Vec : Applied(g, v) = v
    BY <1>1
  <2>3. Append(d, g) \in Seq(Gates)
    BY <2>1, <2>2, AppendProperties
  <2>4. Count(Append(d, g)) = Count(d) + Weight(g)
    BY <2>1, <2>2, CountAppend
  <2>5. \A v \in Vec : Run(v, Append(d, g)) = Applied(g, Run(v, d))
    BY <2>1, <2>2, RunAppend
  <2> QED BY <2>1, <2>2, <2>3, <2>4, <2>5
<1> DEFINE W == T \cap Seq(D)
<1>4. <<>> \in W /\ W \in SUBSET Seq(D)
  BY <1>2, EmptySeq
<1>5. \A d \in W, g \in D : Append(d, g) \in W
  BY <1>3, AppendProperties
<1> HIDE DEF T
<1>6. W = Seq(D)
  <2> HIDE DEF W
  <2> QED BY <1>4, <1>5, SequenceInduction
<1>7. Measures(s) \in Seq(D)
  <2>1. /\ DOMAIN s.measure = 1 .. Len(s.measure) /\ Len(s.measure) \in Nat
        /\ \A i \in 1 .. Len(s.measure) : s.measure[i] \in Qubits
    BY LenProperties, ElementOfSeq
  <2>2. Measures(s) \in [1 .. Len(s.measure) -> D]
    BY <2>1 DEF Measures, D
  <2> QED BY <2>1, <2>2, IsASeq
<1>8. Measures(s) \in T
  BY <1>6, <1>7
<1> QED BY <1>8 DEF T

LEMMA IdentityColumns == Identity \in Quads /\ \A i \in 1 .. 4 : Identity[i] \in Vec
<1>1. Identity = <<<<1, 0, 0, 0>>, <<0, 1, 0, 0>>, <<0, 0, 1, 0>>, <<0, 0, 0, 1>>>>
  BY DEF Identity, Quad
<1>2. 0 \in F /\ 1 \in F
  BY DEF F, Field
<1>3. /\ <<1, 0, 0, 0>> \in Vec /\ <<0, 1, 0, 0>> \in Vec
      /\ <<0, 0, 1, 0>> \in Vec /\ <<0, 0, 0, 1>> \in Vec
  BY <1>2 DEF Vec
<1> HIDE DEF Vec
<1> QED BY <1>1, <1>3 DEF Quads

(* The walk so far: what the pass stands for is what the gates walked        *)
(* compute, at no more superpositions.                                       *)
Follows(s, w, b) ==
  /\ Sound(s) /\ Cost(s) <= b
  /\ \E k \in 0 .. 15 : \A i \in 1 .. 4 : Meaning(s, Identity[i]) = Phased(Zeta(k), w[i])

Ends(c, w, b) ==
  /\ c \in Seq(Gates) /\ Count(c) <= b
  /\ \E k \in 0 .. 15 : \A i \in 1 .. 4 : Run(Identity[i], c) = Phased(Zeta(k), w[i])

LEMMA PhaseOfPhase ==
  ASSUME NEW k \in 0 .. 15, NEW j \in 0 .. 15, NEW v \in Vec
  PROVE  /\ (k + j) % 16 \in 0 .. 15
         /\ Phased(Zeta(k), Phased(Zeta(j), v)) = Phased(Zeta((k + j) % 16), v)
<1> DEFINE n == (k + j) % 16
<1>1. n \in 0 .. 15 /\ n \in Int /\ n % Turn = (k + j) % Turn /\ k \in Int /\ j \in Int /\ k + j \in Int
  BY DEF Turn
<1>2. Zeta(k) \in Int /\ Zeta(j) \in Int /\ Zeta(n) \in F /\ Zeta(k) * Zeta(j) \in Int
  <2>1. Zeta(k) \in Int /\ Zeta(j) \in Int /\ Zeta(n) \in F
    BY <1>1, ZetaType, ZetaInt
  <2>2. \A x, y \in Int : x * y \in Int
    OBVIOUS
  <2> QED BY <2>1, <2>2
<1>3. Zeta(n) = Zeta(k + j)
  BY <1>1, ZetaTurn
<1>4. Zeta(k + j) = Mod(Zeta(k) * Zeta(j))
  BY <1>1, ZetaSum
<1> HIDE DEF n
<1>5. Mod(Zeta(n)) = Mod(Zeta(k) * Zeta(j))
  BY <1>2, <1>3, <1>4, ModSmall
<1>6. Phased(Zeta(k), Phased(Zeta(j), v)) = Phased(Zeta(k) * Zeta(j), v)
  BY <1>2, PhasedPhased
<1>7. Phased(Zeta(n), v) = Phased(Zeta(k) * Zeta(j), v)
  BY <1>2, <1>5, PhasedAlike, FIsInt
<1> QED BY <1>1, <1>6, <1>7 DEF n

LEMMA WalkStep ==
  ASSUME NEW s, NEW w \in Quads, NEW b \in Nat, Follows(s, w, b), NEW g \in Walkable, ~Strands(s, g)
  PROVE  /\ Then(w, g) \in Quads /\ b + Count(<<g>>) \in Nat
         /\ Follows(apply_gate(s, g), Then(w, g), b + Count(<<g>>))
<1> DEFINE s2 == apply_gate(s, g)
           w2 == Then(w, g)
<1>1. g \in Gates /\ Sound(s) /\ Simulates(s, s2, g)
  BY ApplySimulates DEF Walkable, Follows
<1>2. w2 \in Quads /\ \A i \in 1 .. 4 : w2[i] = Applied(g, w[i]) /\ w[i] \in Vec /\ w2[i] \in Vec
  BY <1>1, ThenColumns DEF Quads
<1> HIDE DEF s2, w2
<1>3. Count(<<g>>) = Weight(g) /\ Weight(g) \in Nat
  BY <1>1, CountOne DEF Weight
<1>4. Sound(s2) /\ Cost(s2) <= b + Count(<<g>>)
  <2>1. Sound(s2)
    BY <1>1 DEF Simulates
  <2>2. Cost(s) \in Nat /\ Cost(s2) \in Nat
    BY <1>1, <2>1, CostType
  <2> QED BY <1>1, <1>3, <2>1, <2>2 DEF Simulates, Follows
<1>5. PICK k \in 0 .. 15 : \A v \in Vec : Meaning(s2, v) = Phased(Zeta(k), Applied(g, Meaning(s, v)))
  BY <1>1 DEF Simulates
<1>6. PICK j \in 0 .. 15 : \A i \in 1 .. 4 : Meaning(s, Identity[i]) = Phased(Zeta(j), w[i])
  BY DEF Follows
<1>7. ASSUME NEW i \in 1 .. 4 PROVE Meaning(s2, Identity[i]) = Phased(Zeta((k + j) % 16), w2[i])
  <2>1. Identity[i] \in Vec /\ w[i] \in Vec /\ w2[i] \in Vec /\ Zeta(j) \in Int
    BY <1>2, IdentityColumns, ZetaInt
  <2>2. Meaning(s2, Identity[i]) = Phased(Zeta(k), Applied(g, Phased(Zeta(j), w[i])))
    BY <1>5, <1>6, <2>1
  <2>3. Applied(g, Phased(Zeta(j), w[i])) = Phased(Zeta(j), w2[i])
    BY <1>1, <1>2, <2>1, AppliedPhased
  <2>4. Phased(Zeta(k), Phased(Zeta(j), w2[i])) = Phased(Zeta((k + j) % 16), w2[i])
    BY <2>1, PhaseOfPhase
  <2> QED BY <2>2, <2>3, <2>4
<1>8. (k + j) % 16 \in 0 .. 15
  OBVIOUS
<1>9. Follows(s2, w2, b + Count(<<g>>))
  BY <1>4, <1>7, <1>8 DEF Follows
<1>10. b + Count(<<g>>) \in Nat
  BY <1>3
<1> QED BY <1>2, <1>9, <1>10 DEF s2, w2

(* What the pass would put out, or puts out.                                 *)
LEMMA EndsHere ==
  ASSUME NEW s, NEW w, NEW b, Follows(s, w, b)
  PROVE  Ends(Total(s) \o HeldBack(s), w, b)
<1>1. Sound(s)
  BY DEF Follows
<1>2. \A i \in 1 .. 4 : Run(Identity[i], Total(s) \o HeldBack(s)) = Meaning(s, Identity[i])
  BY <1>1, HeldBackOut, IdentityColumns
<1>3. Total(s) \o HeldBack(s) \in Seq(Gates) /\ Count(Total(s) \o HeldBack(s)) = Cost(s)
  BY <1>1, HeldBackOut
<1> QED BY <1>2, <1>3 DEF Follows, Ends

LEMMA EndsMeasured ==
  ASSUME NEW s, s.measure \in Seq(Qubits), NEW c, NEW w, NEW b, Ends(c, w, b)
  PROVE  Ends(c \o Measures(s), w, b)
<1>1. c \in Seq(Gates)
  BY DEF Ends
<1>2. /\ Measures(s) \in Seq(Gates) /\ Count(Measures(s)) = 0
      /\ \A v \in Vec : Run(v, Measures(s)) = v
  BY MeasuresDoNothing
<1>3. c \o Measures(s) \in Seq(Gates)
  BY <1>1, <1>2, ConcatProperties
<1>4. Count(c \o Measures(s)) = Count(c)
  <2>1. Count(c \o Measures(s)) = Count(c) + Count(Measures(s)) /\ Count(c) \in Nat
    BY <1>1, <1>2, CountConcat, CountFinite
  <2> QED BY <1>2, <2>1
<1>5. \A v \in Vec : Run(v, c \o Measures(s)) = Run(v, c)
  <2>1. \A v \in Vec : Run(v, c) \in Vec /\ Run(v, c \o Measures(s)) = Run(Run(v, c), Measures(s))
    BY <1>1, <1>2, RunConcat, RunType
  <2> QED BY <1>2, <2>1
<1> QED BY <1>3, <1>4, <1>5, IdentityColumns DEF Ends

LEMMA EndsIsSame ==
  ASSUME NEW c, NEW w \in Quads, NEW b, Ends(c, w, b)
  PROVE  SameUpToPhase(After(Identity, c), w) /\ Count(c) <= b
<1>1. c \in Seq(Gates) /\ Count(c) <= b
  BY DEF Ends
<1>2. PICK k \in 0 .. 15 : \A i \in 1 .. 4 : Run(Identity[i], c) = Phased(Zeta(k), w[i])
  BY DEF Ends
<1>3. After(Identity, c)
        = <<Run(Identity[1], c), Run(Identity[2], c), Run(Identity[3], c), Run(Identity[4], c)>>
  BY <1>1, IdentityColumns, AfterColumns
<1>4. After(Identity, c)
        = <<Phased(Zeta(k), w[1]), Phased(Zeta(k), w[2]), Phased(Zeta(k), w[3]), Phased(Zeta(k), w[4])>>
  BY <1>2, <1>3
<1>5. ASSUME NEW i \in 0 .. 3, NEW j \in 0 .. 3
      PROVE  Amp(Amp(After(Identity, c), i), j) = Mod(Zeta(k) * Amp(Amp(w, i), j))
  <2>1. After(Identity, c)[i + 1] = Phased(Zeta(k), w[i + 1])
    BY <1>4
  <2>2. \A v : Phased(Zeta(k), v)[j + 1] = Mod(Zeta(k) * v[j + 1])
    BY DEF Phased
  <2> QED BY <2>1, <2>2 DEF Amp
<1>6. k \in 0 .. Turn - 1
  BY DEF Turn
<1> QED BY <1>1, <1>5, <1>6 DEF SameUpToPhase

(***************************************************************************)
(* The invariant.                                                          *)
(***************************************************************************)
DeferralInv ==
  /\ wanted \in Quads /\ branched \in Nat
  /\ coming \in Seq(Walkable) /\ \A g \in gates : g \in Walkable \/ g.name \in Unsupported
  /\ stage # "done" => Follows(pass, wanted, branched)
  /\ stage = "done" => Ends(pass.modified_circuit, wanted, branched)

LEMMA NewPassFollows == Follows(NewPass, Identity, 0)
<1>1. NewPass \in PassType
  BY EmptySeq DEF NewPass, PassType, Qubits
<1>2. /\ \A q \in Qubits : Idle(NewPass, q) /\ NewPass.angles_Rx[q] = 0 /\ NewPass.angles_Ry[q] = 0
      /\ NewPass.modified_circuit = <<>> /\ NewPass.queued_gates = <<>>
  BY DEF NewPass, Idle
<1>3. Sound(NewPass)
  BY <1>1, <1>2 DEF Sound
<1>4. Total(NewPass) = <<>>
  BY <1>2 DEF Total
<1> HIDE DEF NewPass
<1>5. 0 \in Qubits /\ 1 \in Qubits /\ 1 - 0 = 1 /\ 1 - 1 = 0
  BY DEF Qubits
<1>6. Cost(NewPass) = 0
  <2>1. Flags(NewPass, 0) = 0 /\ Flags(NewPass, 1) = 0
    BY <1>2, <1>5 DEF Flags, One, Idle
  <2> QED BY <1>4, <2>1, CountEmpty DEF Cost
<1>7. ASSUME NEW v \in Vec PROVE Meaning(NewPass, v) = v
  <2>1. Run(v, Total(NewPass)) = v
    BY <1>4, RunEmpty
  <2>2. Meaning(NewPass, v) = Kept(NewPass, 0, Run(v, Total(NewPass)))
    BY <1>2, <1>3, <1>5, MeaningAlone
  <2> QED BY <1>2, <1>3, <1>5, <2>1, <2>2, NothingKept DEF Idle
<1>8. \A i \in 1 .. 4 : Meaning(NewPass, Identity[i]) = Phased(Zeta(0), Identity[i])
  BY <1>7, IdentityColumns, ByOne
<1>9. 0 \in 0 .. 15
  OBVIOUS
<1> QED BY <1>3, <1>6, <1>8, <1>9 DEF Follows

(* A step that walks a CNOT past an H held back on its control.              *)
WalksStranding ==
  \/ Open /\ Strands(pass, Head(coming))
  \/ \E g \in gates : GoOn(g) /\ Strands(pass, g)

LEMMA DeferralInit == Init => DeferralInv
<1> SUFFICES ASSUME Init PROVE DeferralInv
  OBVIOUS
<1>1. PICK c \in Circuits : coming = c.opening /\ gates = c.gates
  BY DEF Init
<1>2. coming \in Seq(Walkable) /\ \A g \in gates : g \in Walkable \/ g.name \in Unsupported
  BY <1>1, CircuitsAssumption
<1> QED BY <1>2, IdentityColumns, NewPassFollows DEF Init, DeferralInv

LEMMA DeferralNext ==
  ASSUME DeferralInv, [Next]_vars, [~WalksStranding]_vars
  PROVE  DeferralInv'
<1>1. CASE UNCHANGED vars
  BY <1>1 DEF vars, DeferralInv
<1>2. ASSUME NEW g \in Walkable, stage = "walking", ~Strands(pass, g), Walk(g)
      PROVE  /\ wanted' \in Quads /\ branched' \in Nat /\ stage' = "walking" /\ gates' = gates
             /\ Follows(pass', wanted', branched')
  BY <1>2, WalkStep DEF Walk, DeferralInv
<1>3. ASSUME Next, ~WalksStranding PROVE DeferralInv'
  <2>1. CASE Open
    <3>1. Head(coming) \in Walkable /\ Tail(coming) \in Seq(Walkable)
      BY <2>1, HeadTailProperties DEF Open, DeferralInv
    <3>2. ~Strands(pass, Head(coming))
      BY <1>3, <2>1 DEF WalksStranding
    <3> QED BY <1>2, <2>1, <3>1, <3>2 DEF Open, DeferralInv
  <2>2. ASSUME NEW g \in gates, GoOn(g) PROVE DeferralInv'
    <3>1. g \in Walkable
      BY <2>2 DEF GoOn, DeferralInv
    <3>2. ~Strands(pass, g)
      BY <1>3, <2>2 DEF WalksStranding
    <3> QED BY <1>2, <2>2, <3>1, <3>2 DEF GoOn, DeferralInv
  <2>3. ASSUME NEW g \in gates, Throw(g) PROVE DeferralInv'
    BY <2>3 DEF Throw, DeferralInv
  <2>4. CASE Finish
    <3> DEFINE c == Total(pass) \o HeldBack(pass)
    <3>1. Follows(pass, wanted, branched) /\ pass \in PassType
      BY <2>4 DEF Finish, DeferralInv, Follows, Sound
    <3>2. Ends(c, wanted, branched) /\ HeldBack(pass) \in Seq(Gates)
      BY <3>1, EndsHere, HeldBackOut DEF Follows
    <3>3. pass.measure \in Seq(Qubits) /\ pass.modified_circuit \in Seq(Gates) /\ pass.queued_gates \in Seq(Gates)
      BY <3>1 DEF PassType
    <3>4. pass.modified_circuit \o (pass.queued_gates \o HeldBack(pass)) = c
      <4>1. \A x, y, z \in Seq(Gates) : x \o (y \o z) = (x \o y) \o z
        BY ConcatAssociative, SMTT(30)
      <4> QED BY <3>2, <3>3, <4>1 DEF Total
    <3>5. pass'.modified_circuit = c \o Measures(pass)
      <4> DEFINE s0 == [pass EXCEPT !.queued_gates = @ \o HeldBack(pass)]
                 s == execute_phase_and_permute(s0)
                 m == Measures(s)
      <4>1. pass' = [s EXCEPT !.modified_circuit = @ \o m]
        BY <2>4 DEF Finish
      <4>2. /\ s0.modified_circuit = pass.modified_circuit
            /\ s0.queued_gates = pass.queued_gates \o HeldBack(pass)
            /\ s0.measure = pass.measure
            /\ DOMAIN s0 = DOMAIN pass
        BY <3>1 DEF PassType
      <4>3. {"modified_circuit", "measure", "queued_gates"} \subseteq DOMAIN pass
        BY <3>1 DEF PassType
      <4> HIDE DEF s0
      <4>4. /\ s.modified_circuit = s0.modified_circuit \o s0.queued_gates
            /\ s.measure = s0.measure /\ DOMAIN s = DOMAIN s0
        BY <4>2, <4>3 DEF execute_phase_and_permute
      <4>5. m = Measures(pass)
        BY <4>2, <4>4 DEF Measures
      <4> HIDE DEF s, m
      <4>6. pass'.modified_circuit = s.modified_circuit \o m
        BY <4>1, <4>2, <4>3, <4>4
      <4> QED BY <3>4, <4>2, <4>4, <4>5, <4>6
    <3> HIDE DEF c
    <3>6. Ends(c \o Measures(pass), wanted, branched)
      BY <3>2, <3>3, EndsMeasured
    <3> QED BY <2>4, <3>5, <3>6 DEF Finish, DeferralInv
  <2> QED BY <1>3, <2>1, <2>2, <2>3, <2>4 DEF Next
<1> QED BY <1>1, <1>3

LEMMA DeferralInvDefers == DeferralInv => DefersOnly
<1> SUFFICES ASSUME DeferralInv PROVE DefersOnly
  OBVIOUS
<1>1. wanted \in Quads
  BY DEF DeferralInv
<1>2. Ends(Output, wanted, branched)
  <2>1. CASE stage = "done"
    BY <2>1 DEF Output, DeferralInv
  <2>2. CASE stage # "done"
    <3>1. Follows(pass, wanted, branched)
      BY <2>2 DEF DeferralInv
    <3>2. Ends(Total(pass) \o HeldBack(pass), wanted, branched)
      BY <3>1, EndsHere
    <3> QED BY <2>2, <3>2 DEF Output, Total
  <2> QED BY <2>1, <2>2
<1> QED BY <1>1, <1>2, EndsIsSame DEF DefersOnly, SameCircuit, BranchesBounded

(* DefersOnly, for circuits of any length on two qubits, with any angles: as *)
(* long as no CNOT meets H held back on both of its qubits and Ry on its     *)
(* target alone, the circuit put out computes what the circuit given does,   *)
(* with no more gates that create superpositions.                            *)
THEOREM PassDefersOnly == Spec /\ [][~WalksStranding]_vars => []DefersOnly
<1>1. DeferralInv /\ [Next]_vars /\ [~WalksStranding]_vars => DeferralInv'
  BY DeferralNext
<1> QED BY <1>1, DeferralInit, DeferralInvDefers, PTL DEF Spec

(* What is known beforehand of circuits that hold no CNOT.                   *)
NoCNOT ==
  \A c \in Circuits :
    /\ \A i \in 1 .. Len(c.opening) : c.opening[i].name # "CNOT"
    /\ \A g \in c.gates : g.name # "CNOT"

NoCNOTComes ==
  /\ coming \in Seq(Walkable) /\ \A i \in 1 .. Len(coming) : coming[i].name # "CNOT"
  /\ \A g \in gates : g.name # "CNOT"

(* Of circuits without CNOT, DefersOnly holds without exception.             *)
THEOREM WithoutCNOT ==
  ASSUME NoCNOT
  PROVE  Spec => []DefersOnly
<1>1. Init => NoCNOTComes
  BY NoCNOT, CircuitsAssumption DEF Init, NoCNOT, NoCNOTComes
<1>2. NoCNOTComes /\ [Next]_vars => NoCNOTComes'
  <2> SUFFICES ASSUME NoCNOTComes, [Next]_vars PROVE NoCNOTComes'
    OBVIOUS
  <2>1. CASE Open
    <3>1. coming # <<>> /\ coming' = Tail(coming) /\ gates' = gates
      BY <2>1 DEF Open, Walk
    <3>2. Tail(coming) \in Seq(Walkable) /\ Len(Tail(coming)) = Len(coming) - 1 /\ Len(coming) \in Nat
      BY <3>1 DEF NoCNOTComes
    <3>3. ASSUME NEW i \in 1 .. Len(Tail(coming))
          PROVE  Tail(coming)[i] = coming[i + 1] /\ i + 1 \in 1 .. Len(coming)
      BY <3>1, <3>2 DEF NoCNOTComes
    <3> QED BY <3>1, <3>2, <3>3 DEF NoCNOTComes
  <2>2. CASE UNCHANGED <<coming, gates>>
    BY <2>2 DEF NoCNOTComes
  <2>3. \/ Open \/ UNCHANGED <<coming, gates>>
    BY DEF Next, GoOn, Walk, Throw, Finish, vars
  <2> QED BY <2>1, <2>2, <2>3
<1>3. NoCNOTComes => [~WalksStranding]_vars
  <2> SUFFICES ASSUME NoCNOTComes, WalksStranding PROVE FALSE
    OBVIOUS
  <2>1. CASE Open /\ Strands(pass, Head(coming))
    <3>1. 1 \in 1 .. Len(coming) /\ Head(coming) = coming[1]
      BY <2>1 DEF Open, NoCNOTComes
    <3> QED BY <2>1, <3>1 DEF Strands, NoCNOTComes
  <2>2. CASE \E g \in gates : GoOn(g) /\ Strands(pass, g)
    BY <2>2 DEF Strands, NoCNOTComes
  <2> QED BY <2>1, <2>2 DEF WalksStranding
<1> QED BY <1>1, <1>2, <1>3, PassDefersOnly, PTL DEF Spec
=============================================================================
