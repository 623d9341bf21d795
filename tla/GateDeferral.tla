---------------------------- MODULE GateDeferral ----------------------------
(* The gate deferral pass (passes/gate_deferral_pass.cpp): one walk over a   *)
(* circuit that keeps phase and permutation gates in a queue, holds back     *)
(* H, Rx and Ry on every qubit, and rewrites the gates that pass them.       *)
(*                                                                           *)
(* The pass is a state machine over the gates it is given.  Each handler is  *)
(* an operator from the state of the pass (a record named as the members of  *)
(* the class) to the state it leaves.  Qubits are q[0] and q[1], angles      *)
(* multiples of pi/4.                                                        *)
EXTENDS Unitaries, FiniteSets

CONSTANTS
  Circuits,   \* circuits: an opening, and the gates it may go on with
  MaxMore     \* how many gates it goes on with at most

Qubits == {0, 1}

VARIABLES
  pass,       \* the members of the pass
  coming,     \* what is left of the opening
  gates,      \* the gates this circuit may go on with
  more,       \* how many of them it has gone on with
  stage,      \* "walking", then "done", or "threw"
  wanted,     \* what the circuit walked so far computes
  branched    \* how many of its gates create superpositions

vars == <<pass, coming, gates, more, stage, wanted, branched>>

gate_op_map ==
  {"I", "H", "X", "Y", "Z", "S", "Sdg", "T", "Tdg", "Measure", "Rx", "Ry", "Rz", "U",
   "CH", "CNOT", "CY", "CZ", "Swap", "CRX", "CRY", "CRZ", "CPhase"}
Unsupported == {"iSwap", "fSim", "IfStmt"}

(* The gates there are: on one qubit, or on the two in either order, and with *)
(* the angles they take.                                                     *)
Plain == {"I", "H", "X", "Y", "Z", "S", "Sdg", "T", "Tdg", "Measure"}
Turning == {"Rx", "Ry", "Rz", "U1", "CRX", "CRY", "CRZ", "CRx", "CRy", "CRz", "CPhase"}
OnTwo == Controlled \cup {"Swap"}
Angles(name) == IF name \in Turning THEN 1 ELSE IF name = "U" THEN 3 ELSE 0
Gates ==
  {g \in [name : Plain \cup Turning \cup OnTwo \cup {"U"},
          on : {<<0>>, <<1>>, <<0, 1>>, <<1, 0>>}, angles : Seq(Int)] :
     /\ Len(g.on) = IF g.name \in OnTwo THEN 2 ELSE 1
     /\ Len(g.angles) = Angles(g.name)}

(* Circuits are made of gates that have a handler, and may go on with gates  *)
(* the pass refuses.  (Any other gate would be dropped.)                     *)
Walkable == {g \in Gates : g.name \in gate_op_map}
ASSUME CircuitsAssumption ==
  \A c \in Circuits :
    /\ c.opening \in Seq(Walkable)
    /\ \A g \in c.gates : g \in Walkable \/ g.name \in Unsupported

NewPass ==
  [queue_Rx |-> [q \in Qubits |-> FALSE], queue_Ry |-> [q \in Qubits |-> FALSE],
   queue_H |-> [q \in Qubits |-> FALSE],
   angles_Rx |-> [q \in Qubits |-> 0], angles_Ry |-> [q \in Qubits |-> 0],
   modified_circuit |-> <<>>, queued_gates |-> <<>>, measure |-> <<>>]

Emit(s, g) == [s EXCEPT !.modified_circuit = Append(@, g)]
Enqueue(s, g) == [s EXCEPT !.queued_gates = Append(@, g)]
Held(s, q) == s.queue_Ry[q] \/ s.queue_Rx[q] \/ s.queue_H[q]
Turned(x) == x % Turn

(***************************************************************************)
(* Executing what is held back.                                            *)
(***************************************************************************)

execute_H(s, q) ==
  IF s.queue_H[q]
  THEN [Emit(s, Gate("H", <<q>>, <<>>)) EXCEPT !.queue_H[q] = FALSE]
  ELSE s

(* Variation: the Rx that was executed leaves its flag behind. *)
execute_RxH_KeepsRx(s, q) ==
  LET h == execute_H(s, q)
  IN IF h.queue_Rx[q]
     THEN [Emit(h, Gate("Rx", <<q>>, <<h.angles_Rx[q]>>)) EXCEPT !.angles_Rx[q] = 0]
     ELSE h
execute_RxH(s, q) ==
  LET h == execute_H(s, q)
  IN IF h.queue_Rx[q]
     THEN [Emit(h, Gate("Rx", <<q>>, <<h.angles_Rx[q]>>))
             EXCEPT !.queue_Rx[q] = FALSE, !.angles_Rx[q] = 0]
     ELSE h

execute_RyRxH(s, q) ==
  LET x == execute_RxH(s, q)
  IN IF x.queue_Ry[q]
     THEN [Emit(x, Gate("Ry", <<q>>, <<x.angles_Ry[q]>>))
             EXCEPT !.queue_Ry[q] = FALSE, !.angles_Ry[q] = 0]
     ELSE x

execute_phase_and_permute(s) ==
  [s EXCEPT !.modified_circuit = @ \o s.queued_gates, !.queued_gates = <<>>]

execute_queued_ops(s, q, Op) ==
  LET p == execute_phase_and_permute(s)
  IN CASE Op = "Ry" -> execute_RyRxH(p, q)
       [] Op = "Rx" -> execute_RxH(p, q)
       [] Op = "H" -> execute_H(p, q)
       [] OTHER -> p

execute_if(s, q) == IF Held(s, q) THEN execute_queued_ops(s, q, "Ry") ELSE s

(* The same, on one condition the handlers below often have. *)
ExecuteWhen(condition, s, q, Op) == IF condition THEN execute_queued_ops(s, q, Op) ELSE s

(***************************************************************************)
(* One-qubit gates.                                                        *)
(***************************************************************************)

NegateRy(s, q) ==
  IF s.queue_Ry[q] THEN [s EXCEPT !.angles_Ry[q] = Turned(-@)] ELSE s
NegateRx(s, q) ==
  IF s.queue_Rx[q] THEN [s EXCEPT !.angles_Rx[q] = Turned(-@)] ELSE s

H(s, q) ==
  LET x == ExecuteWhen(s.queue_Rx[q], NegateRy(s, q), q, "Rx")
  IN [x EXCEPT !.queue_H[q] = ~@]

X(s, q) ==
  Enqueue(NegateRy(s, q), Gate(IF s.queue_H[q] THEN "Z" ELSE "X", <<q>>, <<>>))

Y(s, q) == Enqueue(NegateRx(s, q), Gate("Y", <<q>>, <<>>))

(* Variation: Z passes Rx without turning it round. *)
Z_KeepsRx(s, q) ==
  Enqueue(NegateRy(s, q), Gate(IF s.queue_H[q] THEN "X" ELSE "Z", <<q>>, <<>>))
Z(s, q) ==
  Enqueue(NegateRx(NegateRy(s, q), q), Gate(IF s.queue_H[q] THEN "X" ELSE "Z", <<q>>, <<>>))

Phase(s, q, angle) ==
  Enqueue(execute_if(s, q), Gate("U1", <<q>>, <<angle>>))

Measure(s, q) == [s EXCEPT !.measure = Append(@, q)]

AddRy(s, q, angle) ==
  [s EXCEPT !.queue_Ry[q] = TRUE, !.angles_Ry[q] = Turned(@ + angle)]
AddRx(s, q, angle) ==
  [s EXCEPT !.queue_Rx[q] = TRUE, !.angles_Rx[q] = Turned(@ + angle)]

(* Rx gives way to Ry; Rz gives way to both.  (Op "Rz" executes the phase    *)
(* queue alone; what Rx holds goes out in Phase.)                            *)
R(s, gate, q, angle) ==
  LET past_Ry == ExecuteWhen(s.queue_Ry[q], s, q, "Ry")
      past_Rx == ExecuteWhen(past_Ry.queue_Rx[q], past_Ry, q, "Rz")
      past_H == ExecuteWhen(past_Rx.queue_H[q], past_Rx, q, "H")
  IN CASE gate = "Ry" -> AddRy(s, q, angle)
       [] gate = "Rx" -> AddRx(past_Ry, q, angle)
       [] gate = "Rz" -> Phase(past_H, q, angle)

U(s, q, theta, phi, lambda) == R(R(R(s, "Rz", q, lambda), "Ry", q, theta), "Rz", q, phi)

(***************************************************************************)
(* Two-qubit gates: c the control, t the target.                           *)
(***************************************************************************)

CH(s, c, t) ==
  LET a == execute_if(s, c)
      b == ExecuteWhen(a.queue_Ry[t] \/ a.queue_Rx[t], a, t, "Ry")
  IN Emit(execute_phase_and_permute(b), Gate("CH", <<c, t>>, <<>>))

CNOT(s, c, t) ==
  LET a == ExecuteWhen(\/ s.queue_Ry[c]
                       \/ s.queue_Rx[c]
                       \/ s.queue_H[c] /\ ~s.queue_H[t], s, c, "Ry")
      b == ExecuteWhen(a.queue_Ry[t], a, t, "Ry")
  IN Enqueue(b, CASE b.queue_H[t] /\ b.queue_H[c] -> Gate("CNOT", <<t, c>>, <<>>)
                  [] b.queue_H[t] /\ ~b.queue_H[c] -> Gate("CZ", <<c, t>>, <<>>)
                  [] ~b.queue_H[t] -> Gate("CNOT", <<c, t>>, <<>>))

CY(s, c, t) ==
  LET a == execute_if(s, c)
      b == ExecuteWhen(a.queue_Rx[t], a, t, "Rx")
      d == IF b.queue_H[t] THEN Enqueue(b, Gate("Z", <<c>>, <<>>)) ELSE b
  IN Enqueue(d, Gate("CY", <<c, t>>, <<>>))

CZ(s, c, t) ==
  LET Rotated(q) == s.queue_Ry[q] \/ s.queue_Rx[q]
      OneH == /\ ~Rotated(c) /\ ~Rotated(t)
              /\ s.queue_H[c] # s.queue_H[t]
      both == execute_queued_ops(execute_queued_ops(s, c, "Ry"), t, "Ry")
  IN CASE ~Held(s, c) /\ ~Held(s, t) -> Enqueue(s, Gate("CZ", <<c, t>>, <<>>))
       [] OneH /\ s.queue_H[c] -> Enqueue(s, Gate("CNOT", <<t, c>>, <<>>))
       [] OneH /\ s.queue_H[t] -> Enqueue(s, Gate("CNOT", <<c, t>>, <<>>))
       [] OTHER -> Enqueue(both, Gate("CZ", <<c, t>>, <<>>))

Exchange(f) == [q \in Qubits |-> f[1 - q]]
SWAP(s, p, q) ==
  Enqueue([s EXCEPT !.queue_Ry = Exchange(@), !.angles_Ry = Exchange(@),
                    !.queue_Rx = Exchange(@), !.angles_Rx = Exchange(@),
                    !.queue_H = Exchange(@)],
          Gate("Swap", <<0, 1>>, <<>>))

CR(s, gate, c, t, angle) ==
  LET a == execute_if(s, c)
      b == ExecuteWhen(a.queue_Ry[t] /\ gate # "CRy", a, t, "Ry")
      d == ExecuteWhen(b.queue_Rx[t] /\ gate # "CRx", b, t, "Rx")
      e == ExecuteWhen(d.queue_H[t], d, t, "H")
  IN Emit(execute_phase_and_permute(e), Gate(gate, <<c, t>>, <<angle>>))

CPhase(s, c, t, angle) ==
  Enqueue(execute_if(execute_if(s, c), t), Gate("CPhase", <<c, t>>, <<angle>>))

(***************************************************************************)
(* The walk.                                                               *)
(***************************************************************************)

(* The handler of each gate; names without one are passed over. *)
apply_gate(s, g) ==
  LET q == g.on[1]
      t == g.on[Len(g.on)]
      a == IF g.angles = <<>> THEN 0 ELSE g.angles[1]
  IN CASE g.name = "H" -> H(s, q)
       [] g.name = "X" -> X(s, q)
       [] g.name = "Y" -> Y(s, q)
       [] g.name = "Z" -> Z(s, q)
       [] g.name = "S" -> Phase(s, q, 2)
       [] g.name = "Sdg" -> Phase(s, q, -2)
       [] g.name = "T" -> Phase(s, q, 1)
       [] g.name = "Tdg" -> Phase(s, q, -1)
       [] g.name = "Measure" -> Measure(s, q)
       [] g.name \in {"Rx", "Ry", "Rz"} -> R(s, g.name, q, a)
       [] g.name = "U" -> U(s, q, a, g.angles[2], g.angles[3])
       [] g.name = "CH" -> CH(s, q, t)
       [] g.name = "CNOT" -> CNOT(s, q, t)
       [] g.name = "CY" -> CY(s, q, t)
       [] g.name = "CZ" -> CZ(s, q, t)
       [] g.name = "Swap" -> SWAP(s, q, t)
       [] g.name = "CRX" -> CR(s, "CRx", q, t, a)
       [] g.name = "CRY" -> CR(s, "CRy", q, t, a)
       [] g.name = "CRZ" -> CR(s, "CRz", q, t, a)
       [] g.name = "CPhase" -> CPhase(s, q, t, a)
       [] g.name = "I" \/ g.name \notin gate_op_map -> s

(* Gates that make a superposition of a basis state. *)
Branching == {"H", "Rx", "Ry", "U", "CH", "CRX", "CRY", "CRx", "CRy"}
Count(circuit) == Cardinality({i \in DOMAIN circuit : circuit[i].name \in Branching})

Init ==
  /\ pass = NewPass
  /\ \E c \in Circuits : coming = c.opening /\ gates = c.gates
  /\ more = 0
  /\ stage = "walking"
  /\ wanted = Identity
  /\ branched = 0

Walk(g) ==
  /\ pass' = apply_gate(pass, g)
  /\ wanted' = Then(wanted, g)
  /\ branched' = branched + Count(<<g>>)
  /\ UNCHANGED <<gates, stage>>

Open ==
  /\ stage = "walking"
  /\ coming # <<>>
  /\ Walk(Head(coming))
  /\ coming' = Tail(coming)
  /\ UNCHANGED more

GoOn(g) ==
  /\ stage = "walking"
  /\ coming = <<>>
  /\ more < MaxMore
  /\ g.name \notin Unsupported
  /\ Walk(g)
  /\ more' = more + 1
  /\ UNCHANGED coming

(* No pass comes of a circuit with an unsupported gate. *)
Throw(g) ==
  /\ stage = "walking"
  /\ coming = <<>>
  /\ more < MaxMore
  /\ g.name \in Unsupported
  /\ stage' = "threw"
  /\ UNCHANGED <<pass, coming, gates, more, wanted, branched>>

(* What is held back on the qubits, in the order it goes out. *)
HeldBack(s) ==
  LET on(q) ==
        (IF s.queue_H[q] THEN <<Gate("H", <<q>>, <<>>)>> ELSE <<>>)
        \o (IF s.queue_Rx[q] THEN <<Gate("Rx", <<q>>, <<s.angles_Rx[q]>>)>> ELSE <<>>)
        \o (IF s.queue_Ry[q] THEN <<Gate("Ry", <<q>>, <<s.angles_Ry[q]>>)>> ELSE <<>>)
  IN on(0) \o on(1)

Measures(s) == [i \in DOMAIN s.measure |-> Gate("Measure", <<s.measure[i]>>, <<>>)]

Finish ==
  /\ stage = "walking"
  /\ coming = <<>>
  /\ LET s == execute_phase_and_permute([pass EXCEPT !.queued_gates = @ \o HeldBack(pass)])
     IN pass' = [s EXCEPT !.modified_circuit = @ \o Measures(s)]
  /\ stage' = "done"
  /\ UNCHANGED <<coming, gates, more, wanted, branched>>

Next ==
  \/ Open
  \/ \E g \in gates : GoOn(g)
  \/ \E g \in gates : Throw(g)
  \/ Finish

Spec == Init /\ [][Next]_vars

(***************************************************************************)
(* Properties.                                                             *)
(***************************************************************************)

(* What the pass would put out if the circuit ended here. *)
Output ==
  IF stage = "done"
  THEN pass.modified_circuit
  ELSE pass.modified_circuit \o pass.queued_gates \o HeldBack(pass)

(* At every gate of the walk, whatever is held back and queued: what has     *)
(* been put out, then the queue, then what is held back, computes what the   *)
(* circuit walked so far computes, up to a global phase.  In the end the     *)
(* circuit put out does.                                                     *)
SameCircuit == SameUpToPhase(After(Identity, Output), wanted)

(* The pass is there to keep the state sparse for as long as possible: what  *)
(* it puts out never has more gates that create superpositions than what it  *)
(* was given, neither in the end nor in any prefix.                          *)
BranchesBounded == Count(Output) <= branched

(* The pass neither changes what the circuit computes nor makes it spread    *)
(* the state further.                                                        *)
DefersOnly == SameCircuit /\ BranchesBounded
=============================================================================
