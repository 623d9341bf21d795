---------------------------- MODULE BasisCircuits ----------------------------
(* Circuits of X gates with controls, and the building blocks from which     *)
(* src/src/circuits assembles its arithmetic: what expand() of each block    *)
(* appends to the circuit, and what a circuit makes of a basis state.        *)
(*                                                                           *)
(* A register is a sequence of qubits, its first qubit the least significant *)
(* unless a definition says otherwise; C++ index i is position i + 1.        *)
EXTENDS Selection

(* Sequences of circuits put one after the other, indices going up or down.  *)
Each(first, last, Part(_)) == FlattenSeq([i \in 1 .. last - first + 1 |-> Part(first + i - 1)])
EachDown(last, first, Part(_)) == FlattenSeq([i \in 1 .. last - first + 1 |-> Part(last - i + 1)])
AsSet(register) == {register[i] : i \in DOMAIN register}
Reversed(register) == Reverse(register)
Bit(q, ones) == IF q \in ones THEN 1 ELSE 0
Number(register, ones) ==
  LET n == Len(register)
      last[i \in 0 .. n] ==   \* of the last i qubits
        IF i = 0 THEN 0 ELSE 2 * last[i - 1] + Bit(register[n - i + 1], ones)
  IN last[n]
Distinct(register) == Cardinality(AsSet(register)) = Len(register)
Disjoint(a, b) == AsSet(a) \cap AsSet(b) = {}

-----------------------------------------------------------------------------
(* Gates and what they do. *)

Instruction(name, target) == <<[name |-> name, target |-> target, controls |-> {}]>>
X(q) == Instruction("X", q)
H(q) == Instruction("H", q)

(* "C-U": every gate of the circuit gets the controls. *)
CU(circuit, controls) ==
  [i \in DOMAIN circuit |-> [circuit[i] EXCEPT !.controls = @ \cup controls]]

CX(control, target) == CU(X(target), {control})
Xs(register) == Each(1, Len(register), LAMBDA i : X(register[i]))
CXs(a, b) == Each(1, Len(b), LAMBDA i : CX(a[i], b[i]))

(* InverseCircuit: the gates in reverse order; X, H and what is made of them *)
(* with controls are their own inverse.                                      *)
InverseCircuit(circuit) == Reverse(circuit)

(* What the simulator keeps of one branch of the state: the qubits that are  *)
(* 1, the sign of the branch, and the qubits that stand in the basis |+>,    *)
(* |-> (1 for |->) because an H was applied to them.                         *)
Basis(ones) == [ones |-> ones, sign |-> 1, dual |-> {}]

WellFormed(g, s) ==
  /\ g.target \notin g.controls
  /\ g.controls \cap s.dual = {}
  /\ g.name = "H" => g.controls = {}

Toggle(S, q) == (S \cup {q}) \ (S \cap {q})

(* The branches a gate leads to.  H takes |1> to |->, which stays one        *)
(* branch and gives back its sign when X meets it, and |0> to both 0 and 1.  *)
Outcomes(g, s) ==
  IF ~ g.controls \subseteq s.ones THEN {s}
  ELSE IF g.name = "H"
       THEN IF g.target \in s.dual \cup s.ones
            THEN {[s EXCEPT !.dual = Toggle(@, g.target)]}
            ELSE {s, [s EXCEPT !.ones = @ \cup {g.target}]}
  ELSE IF g.target \in s.dual
       THEN {[s EXCEPT !.sign = IF g.target \in s.ones THEN -@ ELSE @]}
  ELSE {[s EXCEPT !.ones = Toggle(@, g.target)]}

-----------------------------------------------------------------------------
(* The building blocks. *)

(* A circuit run only where all of on are 1 and all of off are 0: X on off,  *)
(* the circuit with on and off as controls, X on off.                        *)
Between(off, circuit) == Xs(off) \o circuit \o Xs(off)
Conditioned(circuit, on, off) == Between(off, CU(circuit, AsSet(on) \cup AsSet(off)))

GeneralisedMCX(target, on, off) == Conditioned(X(target), on, off)

ControlledSwap(a, b, on, off) == Conditioned(CXs(a, b) \o CXs(b, a) \o CXs(a, b), on, off)

(* The and of the controls is gathered in the ancillas, two at a time, and   *)
(* the last ancilla of the list controls u.                                  *)
MultiControlledUWithAncilla(controls, ancilla, u) ==
  LET toffoli(a, b, target) == CU(X(target), {a, b})
      first == toffoli(controls[1], controls[2], ancilla[1])
      next(i) == toffoli(controls[i], ancilla[i - 2], ancilla[i - 1])
      n == Len(controls)
  IN first \o Each(3, n, next) \o CU(u, {ancilla[Len(ancilla)]})
           \o EachDown(n, 3, next) \o first

(* EqualityChecker: flag is flipped where the registers hold the same; with  *)
(* ancillas where they are given (use_ancilla).                              *)
EqualityChecker(a, b, flag, on, off, ancilla) ==
  LET flip == IF ancilla = <<>> THEN CU(X(flag), AsSet(b))
              ELSE MultiControlledUWithAncilla(b, ancilla, X(flag))
  IN Conditioned(CXs(a, b) \o Between(b, flip) \o CXs(a, b), on, off)

(* InitRepeatFlag: the letter chosen is compared with the letter before. *)
InitRepeatFlag(iteration, string, letter, repeats) ==
  LET n == Len(letter)
      last == SubSeq(string, (iteration - 1) * n + 1, iteration * n)
  IN EqualityChecker(letter, last, repeats[iteration + 1], <<>>, <<>>, <<>>)
=============================================================================
