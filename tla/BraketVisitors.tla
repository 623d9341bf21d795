---------------------------- MODULE BraketVisitors ----------------------------
(* The two visitors that write a circuit down for Amazon Braket, in          *)
(* src/include/qristal/core/backends/sims/aws/braket: AWSVisitor (calls of   *)
(* the Python SDK) and AWSOpenQASM3Visitor.  Each handler is the sequence of *)
(* gates it writes, under the reference's names of them.                     *)
EXTENDS Unitaries

Line(name, on, angles) == <<Gate(name, on, angles)>>
Plain(name, on) == Line(name, on, <<>>)

(* Text Braket cannot read: a separator is missing.                          *)
UnreadableLine(on) == Plain("unreadable", on)

-----------------------------------------------------------------------------
(* AWSVisitor: verbatim programs are made of rx, rz and cz where a handler   *)
(* knows how; the other handlers name the gate.                              *)

AWS_Rx(q, a, verbatim) ==
  IF verbatim /\ a \notin {2, 4}
  THEN Line("Rz", q, <<2>>) \o Line("Rx", q, <<2>>) \o Line("Rz", q, <<a>>)
         \o Line("Rx", q, <<-2>>) \o Line("Rz", q, <<-2>>)
  ELSE Line("Rx", q, <<a>>)

AWS_Ry(q, a, verbatim) ==
  IF verbatim THEN Line("Rx", q, <<2>>) \o Line("Rz", q, <<a>>) \o Line("Rx", q, <<-2>>)
  ELSE Line("Ry", q, <<a>>)

AWS_CNOT(c, t, verbatim) ==
  IF verbatim
  THEN Line("Rz", <<t>>, <<-2>>) \o Line("Rx", <<t>>, <<2>>) \o Plain("CZ", <<t, c>>)
         \o Line("Rz", <<c>>, <<2>>) \o Line("Rx", <<t>>, <<-2>>) \o Line("Rz", <<t>>, <<2>>)
  ELSE Plain("CNOT", <<c, t>>)

AWS_H(q, verbatim) ==
  IF verbatim THEN Line("Rz", q, <<2>>) \o Line("Rx", q, <<2>>) \o Line("Rz", q, <<2>>)
  ELSE Plain("H", q)

(* Sdg lacks the dot behind it, verbatim Z the comma before its angle.       *)
AWS_Sdg(q) == UnreadableLine(q)
AWS_X(q, verbatim) == IF verbatim THEN Line("Rx", q, <<4>>) ELSE Plain("X", q)
AWS_Y(q, verbatim) ==
  IF verbatim THEN Line("Rz", q, <<4>>) \o Line("Rx", q, <<4>>) ELSE Plain("Y", q)
AWS_Z(q, verbatim) == IF verbatim THEN UnreadableLine(q) ELSE Plain("Z", q)

(* Three times the same CNOT.                                                *)
AWS_Swap(a, b, verbatim) ==
  IF verbatim THEN AWS_CNOT(a, b, TRUE) \o AWS_CNOT(a, b, TRUE) \o AWS_CNOT(a, b, TRUE)
  ELSE Plain("Swap", <<a, b>>)

(* The parameters in the order they are given, the first one first.          *)
AWS_U(q, theta, phi, lambda, verbatim) ==
  Line("Rz", q, <<theta>>) \o AWS_Ry(q, phi, verbatim) \o Line("Rz", q, <<lambda>>)

AWSWritten(g, verbatim) ==
  LET a == IF g.angles = <<>> THEN 0 ELSE g.angles[1]
  IN CASE g.name \in {"I", "CZ", "Rz", "S", "T", "Tdg", "CPhase"} -> <<g>>
       [] g.name = "Rx" -> AWS_Rx(g.on, a, verbatim)
       [] g.name = "Ry" -> AWS_Ry(g.on, a, verbatim)
       [] g.name = "CNOT" -> AWS_CNOT(g.on[1], g.on[2], verbatim)
       [] g.name = "H" -> AWS_H(g.on, verbatim)
       [] g.name = "Sdg" -> AWS_Sdg(g.on)
       [] g.name = "X" -> AWS_X(g.on, verbatim)
       [] g.name = "Y" -> AWS_Y(g.on, verbatim)
       [] g.name = "Z" -> AWS_Z(g.on, verbatim)
       [] g.name = "Swap" -> AWS_Swap(g.on[1], g.on[2], verbatim)
       [] g.name = "U" -> AWS_U(g.on, a, g.angles[2], g.angles[3], verbatim)
       [] OTHER -> <<>>

-----------------------------------------------------------------------------
(* AWSOpenQASM3Visitor: every gate by its name in a table; U as five         *)
(* rotations; CH, fSim, Reset and IfStmt write nothing.                      *)

XACC_GATE_NAME_TO_AWS_GATE_NAME ==
  {"CNOT", "X", "Y", "Z", "Rx", "Ry", "Rz", "H", "I", "S", "Sdg", "T", "Tdg", "Swap",
   "iSwap", "CY", "CZ", "U1", "CPhase"}

QASM_U(q, theta, phi, lambda) ==
  Line("Rz", q, <<lambda>>) \o Line("Rx", q, <<2>>) \o Line("Rz", q, <<theta>>)
    \o Line("Rx", q, <<-2>>) \o Line("Rz", q, <<phi>>)

QASMWritten(g) ==
  IF g.name = "U" THEN QASM_U(g.on, g.angles[1], g.angles[2], g.angles[3])
  ELSE IF g.name \in XACC_GATE_NAME_TO_AWS_GATE_NAME THEN <<g>>
  ELSE <<>>

(* The layers of rx, ry and cz a gate takes on Quantum Brilliance hardware,  *)
(* and the time they take.                                                   *)
LayerCounts ==
  LET rows == {<<"CNOT", 2, 2, 1>>, <<"X", 1, 0, 0>>, <<"Y", 0, 1, 0>>, <<"Z", 2, 1, 0>>, <<"Rx", 1, 0, 0>>,
               <<"Ry", 0, 1, 0>>, <<"Rz", 2, 1, 0>>, <<"H", 1, 1, 0>>, <<"I", 1, 0, 0>>, <<"S", 2, 1, 0>>,
               <<"Sdg", 2, 1, 0>>, <<"T", 2, 1, 0>>, <<"Tdg", 2, 1, 0>>, <<"Swap", 4, 4, 3>>,
               <<"iSwap", 5, 4, 2>>, <<"CY", 18, 10, 2>>, <<"CZ", 0, 0, 1>>, <<"U1", 2, 1, 0>>,
               <<"U", 4, 3, 0>>, <<"CPhase", 8, 5, 2>>}
  IN [name \in {row[1] : row \in rows} |->
        LET row == CHOOSE r \in rows : r[1] = name IN <<row[2], row[3], row[4]>>]

(* With noise every gate written is followed, on every qubit it acts on, by  *)
(* an amplitude damping and a phase damping, both of the rate T1 gives for   *)
(* the gate's time (computePhaseDampingRate is not called).                  *)
Damping(g) ==
  LET pair(i) == <<[channel |-> "amplitude_damping", lifetime |-> "T1", on |-> g.on[i], time |-> LayerCounts[g.name]],
                   [channel |-> "phase_damping", lifetime |-> "T1", on |-> g.on[i], time |-> LayerCounts[g.name]]>>
  IN FlattenSeq([i \in DOMAIN g.on |-> pair(i)])

QASMWrittenNoisy(g) ==
  LET lines == QASMWritten(g)
  IN FlattenSeq([i \in DOMAIN lines |-> <<lines[i]>> \o Damping(lines[i])])
=============================================================================
