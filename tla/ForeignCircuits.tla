--------------------------- MODULE ForeignCircuits ---------------------------
(* Conversion of circuits for two libraries: to TKET and back                *)
(* (tket_ir_converter.cpp) and to CUDAQ (cudaq/ir_converter.cpp).            *)
EXTENDS Unitaries

-----------------------------------------------------------------------------
(* TKET. *)

(* to_tket: the operation each gate becomes.  Identity becomes none; so do   *)
(* the gates TketCircuitVisitor does not override.                           *)
TketOps ==
  [H |-> "H", CNOT |-> "CX", Rz |-> "Rz", U1 |-> "U1", Ry |-> "Ry", Rx |-> "Rx", X |-> "X",
   Y |-> "Y", Z |-> "Z", CY |-> "CY", CZ |-> "CZ", Swap |-> "SWAP", CRZ |-> "CRz", CH |-> "CH",
   S |-> "S", Sdg |-> "Sdg", T |-> "T", Tdg |-> "Tdg", CPhase |-> "CU1", U |-> "U3",
   Measure |-> "Measure"]
TketRefuses == {"iSwap", "fSim", "IfStmt"}

ToTket(g) ==
  IF g.name \in DOMAIN TketOps THEN <<[op |-> TketOps[g.name], on |-> g.on, params |-> g.angles]>>
  ELSE <<>>

(* tket_command_to_xacc_inst: the operations linked by LINK_OPS.             *)
XaccOps ==
  [X |-> "X", Y |-> "Y", Z |-> "Z", H |-> "H", S |-> "S", Sdg |-> "Sdg", T |-> "T", Tdg |-> "Tdg",
   Rx |-> "Rx", Ry |-> "Ry", Rz |-> "Rz", U3 |-> "U", U1 |-> "U1", CX |-> "CNOT", CY |-> "CY",
   CZ |-> "CZ", CH |-> "CH", SWAP |-> "Swap", CRz |-> "CRZ", CU1 |-> "CPhase", Measure |-> "Measure"]
ToXacc(command) == Gate(XaccOps[command.op], command.on, command.params)

(* to_xacc holds measurements back, one for each classical bit (that of the  *)
(* qubit), until a gate acts on the qubit, and puts the rest behind, in the  *)
(* order of the bits.  Of several held back that a gate would overtake, the  *)
(* one of the lowest bit is put out.                                         *)
Lowest(S) == CHOOSE q \in S : \A p \in S : q <= p
Overtaken(g, held) == {q \in held : \E i \in DOMAIN g.on : g.on[i] = q}
MeasureOf(q) == Gate("Measure", <<q>>, <<>>)

(* Variation: what is overtaken is put out behind the gate.                  *)
PutOut_Behind(g, held) ==
  IF Overtaken(g, held) = {} THEN <<g>> ELSE <<g, MeasureOf(Lowest(Overtaken(g, held)))>>

PutOut(g, held) ==
  IF Overtaken(g, held) = {} THEN <<g>> ELSE <<MeasureOf(Lowest(Overtaken(g, held))), g>>
StillHeld(g, held) ==
  IF Overtaken(g, held) = {} THEN held ELSE held \ {Lowest(Overtaken(g, held))}

-----------------------------------------------------------------------------
(* CUDAQ: the calls of the kernel builder, by the reference's names.         *)

Cudaq_iSwap(a, b) ==
  <<Gate("S", <<a>>, <<>>), Gate("S", <<b>>, <<>>), Gate("H", <<a>>, <<>>),
    Gate("CNOT", <<a, b>>, <<>>), Gate("CNOT", <<b, a>>, <<>>), Gate("H", <<b>>, <<>>)>>

Cudaq_U(q, theta, phi, lambda) ==
  <<Gate("Ry", q, <<2>>), Gate("Rx", q, <<lambda>>), Gate("Ry", q, <<theta>>),
    Gate("Rx", q, <<phi>>), Gate("Ry", q, <<-2>>)>>

(* Measure and the gates not overridden make no call.                        *)
CudaqDirect ==
  {"H", "X", "Y", "Z", "S", "Sdg", "T", "Tdg", "CNOT", "CZ", "CH", "Swap", "CY", "Rx", "Ry", "Rz",
   "CPhase", "CRZ", "U1"}

CudaqCalls(g) ==
  IF g.name = "iSwap" THEN Cudaq_iSwap(g.on[1], g.on[2])
  ELSE IF g.name = "U" THEN Cudaq_U(g.on, g.angles[1], g.angles[2], g.angles[3])
  ELSE IF g.name \in CudaqDirect THEN <<g>>
  ELSE <<>>
=============================================================================
