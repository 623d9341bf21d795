------------------------------ MODULE SparseRun ------------------------------
(* The sparse simulator under calls, beside the state the calls mean.  Gates *)
(* come from SparseSimVisitor (SparseStateVecAccelerator.cpp); the other     *)
(* calls are public methods of the simulator.                                *)
EXTENDS SparseSimulator
LOCAL INSTANCE SequencesExt
LOCAL INSTANCE FiniteSetsExt

CONSTANTS            \* of every scenario, by its number:
  Openings,  \* the sequences of gates it may begin with
  Gates,     \* the gates it goes on with
  Calls,     \* and the other calls
  Most       \* at most how many of them

VARIABLES
  scenario,  \* the number of the scenario
  left,      \* the calls it may still make
  sim,       \* the simulator
  meant,     \* the state the calls mean, an amplitude for every basis state
  right      \* whether the last call answered what is true of that state
vars == <<scenario, left, sim, meant, right>>

-----------------------------------------------------------------------------
(* SparseSimVisitor: the method a gate calls.  Qubits of a gate: the         *)
(* controls before the target.  "C-U" is a gate under any number of          *)
(* controls; its base says which.  iSwap, fSim and IfStmt are errors.        *)

Target(g) == g.on[Len(g.on)]
Controls(g) == {g.on[i] : i \in 1 .. Len(g.on) - 1}
BasisOf(name) ==
  CASE name = "Rx" -> "X" [] name = "Ry" -> "Y" [] name \in {"Rz", "CRZ"} -> "Z"

visit(s, g) ==
  LET t == Target(g)
      c == Controls(g)
      name == IF g.name = "C-U" THEN g.base ELSE g.name
      angle == g.angles[1]
  IN CASE name = "H" /\ c = {} -> ToggleH(s, t)
       [] name = "CH" \/ (name = "H" /\ c # {}) -> ControlledH(s, c, t)
       [] name \in {"X", "CNOT"} -> MCX(s, c, t)
       [] name \in {"Y", "CY"} -> MCY(s, c, t)
       [] name \in {"Z", "CZ"} -> MCZ(s, c, t)
       [] name \in {"Rx", "Ry", "Rz", "CRZ"} -> ControlledRotation(s, c, BasisOf(name), angle, t)
       [] name = "Swap" -> SWAP(s, g.on[1], g.on[2])
       [] name = "CPhase" -> MCPhase(s, c, angle, t)
       [] name = "S" -> Phase(s, 2, t)
       [] name = "Sdg" -> Phase(s, -2, t)
       [] name = "T" -> Phase(s, 1, t)
       [] name = "Tdg" -> Phase(s, -1, t)
       [] name = "U" -> Rotate(Rotate(Rotate(s, "Z", g.angles[3], t), "Y", angle, t), "Z", g.angles[2], t)
       [] name = "I" -> s

-----------------------------------------------------------------------------
(* What a call means for a state.                                            *)

Labels == SUBSET Qubits
Map(Of(_)) == Tabulated([l \in Labels |-> Mod(Of(l))])
InBasis(v, q, x) == Map(LAMBDA l : IF (q \in l) = (x = 1) THEN v[l] ELSE 0)
IsBasis(v, q) == \E x \in {0, 1} : InBasis(v, q, x) = v
Transformed(v, controls, q, m) ==
  Map(LAMBDA l : LET row == m[IF q \in l THEN 2 ELSE 1]
                 IN IF controls \subseteq l
                    THEN row[1] * v[l \ {q}] + row[2] * v[l \cup {q}] ELSE v[l])
Exchanged(v, controls, i, j) ==
  Map(LAMBDA l : IF controls \subseteq l /\ Cardinality({i, j} \cap l) = 1
                 THEN v[Flip(l, {i, j})] ELSE v[l])
PauliX == Matrix(Gate("X", <<>>, <<>>))
Pauli(v, axes) ==
  FoldSet(LAMBDA q, w : Transformed(w, {}, q, Matrix(Gate(axes[q], <<q>>, <<>>))), v, DOMAIN axes)
Meaning(v, g) ==
  IF g.name = "Swap" THEN Exchanged(v, {}, g.on[1], g.on[2])
  ELSE Transformed(v, Controls(g), Target(g),
                   Matrix(IF g.name = "C-U" THEN Gate(g.base, g.on, g.angles) ELSE g))
Eigenstate(v, axes, sign) == Pauli(v, axes) = Map(LAMBDA l : sign * v[l])
IsProduct(v, mask) ==
  \A x, y \in Labels :
    Mod(v[x] * v[y]) = Mod(v[(x \cap mask) \cup (y \ mask)] * v[(y \cap mask) \cup (x \ mask)])
ToZeroState(v, q, r) == IF r = 1 THEN Transformed(InBasis(v, q, 1), {}, q, PauliX) ELSE InBasis(v, q, 0)

Full(v) == [l \in Labels |-> Amplitude(v, l)]
(* The same state: the same amplitudes up to a factor that is not zero. *)
SameRay(v, w) ==
  LET l == CHOOSE k \in Labels : w[k] # 0
  IN /\ \E k \in Labels : w[k] # 0
     /\ v[l] # 0
     /\ \A k \in Labels : Mod(v[k] * w[l]) = Mod(w[k] * v[l])

-----------------------------------------------------------------------------

Init ==
  /\ scenario \in DOMAIN Openings
  /\ left = Most[scenario]
  /\ \E opening \in Openings[scenario] :
       /\ sim = FoldLeft(visit, NewSimulator, opening)
       /\ meant = FoldLeft(Meaning, Full(AllZero), opening)
  /\ right = TRUE

Call(name) == IF left = 0 THEN {} ELSE {c \in Calls[scenario] : c.call = name}
Made(s, v, answer) ==
  /\ sim' = s
  /\ meant' = v
  /\ right' = answer
  /\ left' = left - 1
  /\ UNCHANGED scenario

VisitGate ==
  /\ left > 0
  /\ \E g \in Gates[scenario] : Made(visit(sim, g), Meaning(meant, g), TRUE)

CallCSWAP ==
  \E c \in Call("CSWAP") :
    Made(CSWAP(sim, c.controls, c.i, c.j), Exchanged(meant, c.controls, c.i, c.j), TRUE)

CallMCR ==
  \E c \in Call("MCR_I") :
    Made(ControlledRotation(sim, c.controls, "I", c.angle, c.target),
         [l \in Labels |-> IF c.controls \subseteq l THEN Mod(Zeta(-c.angle) * meant[l]) ELSE meant[l]],
         TRUE)

CallExp ==
  \E c \in Call("Exp") :
    LET p == Pauli(meant, c.axes)
        combined == [l \in Labels |->
          IF c.controls \subseteq l
          THEN Mod(CosHalf(c.angle) * meant[l] + Mod(Imag * SinHalf(c.angle)) * p[l])
          ELSE meant[l]]
    IN Made(Exp(sim, c.controls, c.axes, c.angle), combined, TRUE)

CallM ==
  \E c \in Call("M") : \E r \in MOutcomes(sim, c.target) :
    Made(MeasureQubit(sim, c.target, r), InBasis(meant, c.target, r), TRUE)

CallReset ==
  \E c \in Call("Reset") : \E r \in MOutcomes(sim, c.target) :
    Made(ResetQubit(sim, c.target, r), ToZeroState(meant, c.target, r), TRUE)

(* The answer is whether the qubit could be released as it was. *)
CallRelease ==
  \E c \in Call("release") : \E r \in MOutcomes(sim, c.target) :
    Made(Release(sim, c.target, r), ToZeroState(meant, c.target, r),
         (sim.occupied[c.target] => ReleaseAnswer(sim, c.target)) <=> IsBasis(meant, c.target))

(* An assertion throws when the state is not the eigenstate asserted. *)
CallAssert ==
  \E c \in Call("Assert") :
    Made(Asserted(sim, c.axes), meant,
         Throws(sim, c.axes, c.result) <=>
           /\ \E q \in DOMAIN c.axes : c.axes[q] # "I"
           /\ ~Eigenstate(meant, c.axes, IF c.result THEN -1 ELSE 1))

CallMCApplyAnd ==
  \E c \in Call("MCApplyAnd") :
    LET zero == InBasis(meant, c.target, 0) = meant
    IN Made(MCApplyAnd(sim, c.controls, c.target),
            IF zero THEN Transformed(meant, c.controls, c.target, PauliX) ELSE meant,
            Throws(sim, ToZero(c.target), FALSE) <=> ~zero)

CallMCApplyAndAdj ==
  \E c \in Call("MCApplyAndAdj") :
    LET v == Transformed(meant, c.controls, c.target, PauliX)
    IN Made(MCApplyAndAdj(sim, c.controls, c.target), v,
            Throws(MCX(sim, c.controls, c.target), ToZero(c.target), FALSE)
              <=> InBasis(v, c.target, 0) # v)

CallMeasure ==
  \E c \in Call("Measure") : \E r \in MeasureOutcomes(sim, c.axes) :
    LET p == Pauli(meant, c.axes)
    IN Made(MeasureAxes(sim, c.axes, r),
            [l \in Labels |-> Mod(meant[l] + (IF r = 1 THEN -p[l] ELSE p[l]))], TRUE)

CallDump ==
  \E c \in Call("dump_qubits") :
    Made(Dumped(sim, c.qubits), meant, DumpAnswers(sim, c.qubits) = {IsProduct(meant, c.qubits)})

(* SparseSimVisitor::sample, at the end of every circuit. *)
CallSample == \E c \in Call("Sample") : Made(ExecuteAll(sim), meant, TRUE)

Next ==
  \/ VisitGate \/ CallCSWAP \/ CallMCR \/ CallExp
  \/ CallM \/ CallReset \/ CallRelease \/ CallMeasure
  \/ CallAssert \/ CallMCApplyAnd \/ CallMCApplyAndAdj
  \/ CallDump \/ CallSample

Spec == Init /\ [][Next]_vars

-----------------------------------------------------------------------------
(* What is held back and queued, executed now, gives the state that was      *)
(* meant, up to normalisation and a phase no measurement can see; and an     *)
(* answer of a measurement is one that state can give (else nothing would be *)
(* left of it).                                                              *)
SameState == SameRay(Full(ExecuteAll(sim).quantum_state), meant)

(* Assertions throw, qubits are released as they are, and qubits are dumped  *)
(* on their own, exactly when the state that was meant allows it.            *)
AnswersAreRight == right
=============================================================================
