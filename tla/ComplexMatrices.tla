--------------------------- MODULE ComplexMatrices ---------------------------
(* Exact arithmetic on complex matrices, for NoiseChannels: physics and      *)
(* linear algebra, not code of the repository.                               *)
(*                                                                           *)
(* A real number is a residue modulo a prime.  Fractions are exact, and the  *)
(* root of a residue that is a square is the root that is a square itself,   *)
(* so that roots multiply as those of positive numbers do.  A complex number *)
(* is a pair of residues.  An equation between sums and products of          *)
(* fractions, their roots and i that holds for the real numbers holds here;  *)
(* one that does not has to fail by a multiple of the prime to go unnoticed. *)
(*                                                                           *)
(* A matrix is a function on the positions <<row, column>>, counted from 0,  *)
(* of its entries that are not zero.                                         *)
EXTENDS Integers, Sequences
LOCAL INSTANCE TLC

Prime == 38711                            \* 3 modulo 4: -1 is not a square
Residue(x) == x % Prime

Power(x, n) ==
  LET to[k \in Nat] ==
        IF k = 0 THEN 1
        ELSE LET h == to[k \div 2]
             IN Residue(Residue(h * h) * (IF k % 2 = 1 THEN Residue(x) ELSE 1))
  IN to[n]
Over(x, y) == Residue(Residue(x) * Power(y, Prime - 2))
Root(x) == Power(x, (Prime + 1) \div 4)
IsSquare(x) == Residue(Root(x) * Root(x)) = Residue(x)

Real(x) == <<Residue(x), 0>>
Zero == Real(0)
Imaginary(x) == <<0, Residue(x)>>
Conj(z) == <<z[1], Residue(-z[2])>>
Plus(z, w) == <<Residue(z[1] + w[1]), Residue(z[2] + w[2])>>
Times(z, w) ==
  IF z = Zero \/ w = Zero THEN Zero
  ELSE <<Residue(Residue(z[1] * w[1]) - Residue(z[2] * w[2])),
         Residue(Residue(z[1] * w[2]) + Residue(z[2] * w[1]))>>

(* The sum of Term(0) up to Term(n - 1). *)
Sum(n, Term(_)) ==
  LET upto[k \in 0 .. n] == IF k = 0 THEN Zero ELSE Plus(upto[k - 1], Term(k - 1))
  IN upto[n]

Entry(m, r, c) == IF <<r, c>> \in DOMAIN m THEN m[r, c] ELSE Zero

(* The matrix with the given entries; TLC is to compute it once. *)
Matrix(positions, Value(_, _)) ==
  LET all == [p \in positions |-> Value(p[1], p[2])] @@ <<>>
  IN [p \in {q \in positions : all[q] # Zero} |-> all[p]] @@ <<>>

Square(n) == (0 .. n - 1) \X (0 .. n - 1)
OfRows(rows) == Matrix(Square(Len(rows)), LAMBDA r, c : rows[r + 1][c + 1])
Scaled(x, m) == Matrix(DOMAIN m, LAMBDA r, c : Times(Real(x), m[r, c]))
Adjoint(m) == Matrix({<<p[2], p[1]>> : p \in DOMAIN m}, LAMBDA r, c : Conj(m[c, r]))
Product(n, a, b) ==
  Matrix({p[1] : p \in DOMAIN a} \X {p[2] : p \in DOMAIN b},
         LAMBDA r, c : Sum(n, LAMBDA k : Times(Entry(a, r, k), Entry(b, k, c))))

(* The Kronecker product with an n x n matrix. *)
Kronecker(a, n, b) ==
  Matrix({<<p[1] * n + q[1], p[2] * n + q[2]>> : p \in DOMAIN a, q \in DOMAIN b},
         LAMBDA r, c : Times(a[r \div n, c \div n], b[r % n, c % n]))

(* The matrix with the entry at each position p moved to To(p[1], p[2]). *)
Moved(m, To(_, _)) ==
  Matrix({To(p[1], p[2]) : p \in DOMAIN m},
         LAMBDA r, c : m[CHOOSE p \in DOMAIN m : To(p[1], p[2]) = <<r, c>>])

Identity(n) == [p \in {q \in Square(n) : q[1] = q[2]} |-> Real(1)]
=============================================================================
