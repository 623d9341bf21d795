---------------------------- MODULE CircuitBuilder ----------------------------
(* Programs that build circuits with CircuitBuilder (circuit_builder.cpp,    *)
(* py_circuit_builder.cpp) and run them, in sessions on threads of their     *)
(* own, on the sparse simulator (SparseStateVecAccelerator.cpp).             *)
(*                                                                           *)
(* A CircuitBuilder copied or made from another circuit shares that          *)
(* circuit's instructions.  One kind of instruction has state: a block C-U,  *)
(* which the sparse simulator disables while it simulates a circuit.         *)
EXTENDS Naturals, Selection, PythonCircuit

CONSTANTS Builders,  \* the CircuitBuilder objects
          Sessions,  \* sessions, each of which runs one circuit at a time
          Gates,     \* gates without free parameters to add
          Free,      \* gates with free parameters to add
          Programs,  \* compiled circuits: records of variables and gates
          Calls,     \* the bindings called, of GateCalls, BlockCalls and AlgorithmCalls
          MaxGates,  \* bound on the gates of all circuits together
          CallsWithin \* bound on the gates there are when a binding is called
ASSUME BoundsAreNatural == MaxGates \in Nat /\ CallsWithin \in Nat
ASSUME FinitelyMany == IsFiniteSet(Builders)

(* Instructions: gates are numbered 0.  A parameter is a name, or "number".  *)
Gate(name, on, params) ==
  [name |-> name, on |-> on, params |-> params, id |-> 0, inside |-> <<>>]
Symbolic(inst) == \E i \in DOMAIN inst.params : inst.params[i] # "number"

(* What a program gives are gates, not blocks; only simple ones it controls. *)
Simple == {"H", "X", "Ry", "C-X"}
BuiltIn == {"X", "Ry", "CRZ", "Measure", "block"} \cup {call.method.generator : call \in GateCalls}
GateNames == STRING \cup BuiltIn \cup {"C-" \o name : name \in Simple}
Parameters == STRING \cup Names \cup {"number"}
PlainGates == [name : GateNames, on : Seq(Nat), params : Seq(Parameters), id : {0}, inside : {<<>>}]
ASSUME InputsAssumption ==
  /\ Gates \subseteq PlainGates /\ \A g \in Gates : ~ Symbolic(g)
  /\ Free \subseteq PlainGates
  /\ Programs \subseteq [variables : Seq(Parameters), gates : Seq(PlainGates)]

VARIABLES circuit_,         \* of each builder, its instructions
          variables,        \* the variables of circuit_
          free_params_,
          is_parametrized_,
          map,              \* what the last call passed to a gate, generator or algorithm
          disabled,         \* the blocks that are disabled
          runs,             \* of each session, its run
          meant             \* history: the gates each circuit was asked for
builder == <<circuit_, variables, free_params_, is_parametrized_, map, meant>>
vars == <<builder, disabled, runs>>

(* The gates of instructions, those in blocks among them.                    *)
Inside(inst) == IF inst.id = 0 THEN <<inst>> ELSE inst.inside
Leaves(insts) == FlattenSeq([i \in DOMAIN insts |-> Inside(insts[i])])
Blocks(insts) == {insts[i].id : i \in DOMAIN insts} \ {0}

(* The qubits a circuit uses, in blocks too.                                 *)
uniqueBitsQD(insts) ==
  LET gates == Leaves(insts) IN UNION {Range(gates[i].on) : i \in DOMAIN gates}

NotDisabled(insts) == Among(insts, {inst \in Range(insts) : inst.id \notin disabled})
(* The gates an InstructionIterator finds enabled.                           *)
Enabled(insts) == Leaves(NotDisabled(insts))

(* Composite::addVariable, and the search of free_params_ before it.         *)
WithName(list, p) == IF p = "number" \/ Contains(list, p) THEN list ELSE Append(list, p)
WithNames(list, params) ==
  LET with[n \in 0 .. Len(params)] == IF n = 0 THEN list ELSE WithName(with[n - 1], params[n])
  IN with[Len(params)]
ParamsOf(insts) == FlattenSeq([i \in DOMAIN insts |-> insts[i].params])

Note(b, params) ==
  /\ free_params_' = [free_params_ EXCEPT ![b] = WithNames(@, params)]
  /\ LET new == Among(params, Range(params) \ Range(free_params_[b]))
     IN variables' = [variables EXCEPT ![b] = WithNames(@, new)]

Running == {s \in Sessions : runs[s].stage = "running"}

Init ==
  /\ circuit_ = [b \in Builders |-> <<>>]
  /\ variables = [b \in Builders |-> <<>>]
  /\ free_params_ = [b \in Builders |-> <<>>]
  /\ is_parametrized_ = [b \in Builders |-> FALSE]
  /\ map = <<>>
  /\ disabled = {}
  /\ runs = [s \in Sessions |-> [stage |-> "idle"]]
  /\ meant = [b \in Builders |-> <<>>]

-----------------------------------------------------------------------------
(* Calls that add gates.  The program builds while none of its runs is under *)
(* way: what it read from a circuit then would lack the blocks disabled.     *)

Size(circuits) == MapThenSumSet(LAMBDA b : Len(meant[b]), circuits)
Room(n) == Running = {} /\ Size(Builders) + n <= MaxGates
MayCall == Running = {} /\ Size(Builders) <= CallsWithin
RoomFor(b, gates) == Room(Len(gates) - Len(meant[b]))
NoMap == map' = <<>>
Put(b, insts) == circuit_' = [circuit_ EXCEPT ![b] = @ \o insts]
Want(b, gates) == meant' = [meant EXCEPT ![b] = @ \o gates]

AddGate(b, g) ==
  /\ Room(1)
  /\ Put(b, <<g>>) /\ Want(b, <<g>>)
  /\ UNCHANGED <<variables, free_params_, is_parametrized_, disabled, runs>> /\ NoMap

(* add_gate_with_free_parameters *)
AddFree(b, g) ==
  /\ Room(1)
  /\ Note(b, g.params)
  /\ is_parametrized_' = [is_parametrized_ EXCEPT ![b] = TRUE]
  /\ Put(b, <<g>>) /\ Want(b, <<g>>)
  /\ UNCHANGED <<disabled, runs>> /\ NoMap

(* CRX: a rotation of the target, CRZ, and back.  CRY, whose rotations are   *)
(* Rx, is told apart from it by no property.                                 *)
CRX(c, t, p) == <<Gate("Ry", <<t>>, <<"number">>), Gate("CRZ", <<c, t>>, <<p>>), Gate("Ry", <<t>>, <<"number">>)>>

AddCRX(b, p) ==
  /\ Room(3)
  /\ Note(b, <<p>>)
  /\ is_parametrized_' = [is_parametrized_ EXCEPT ![b] = TRUE]
  /\ Put(b, CRX(0, 1, p)) /\ Want(b, CRX(0, 1, p))
  /\ UNCHANGED <<disabled, runs>> /\ NoMap

(* A binding of a gate, whose arguments are the gate's by position.          *)
NamesGiven(call) == Among(call.given, Names)
GatesAsked(call) ==
  LET qubits == Among(call.given, Range(call.given) \ (Angles \cup Names))
      params == [i \in DOMAIN Among(call.given, Angles) |-> "number"] \o NamesGiven(call)
      kind == call.method.generator
  IN IF kind \in {"CRX", "CRY"} THEN CRX(0, 1, params[1])
     ELSE <<Gate(kind, [i \in DOMAIN qubits |-> i - 1], params)>>

CallGate(b, call) ==
  /\ Room(Len(GatesAsked(call)))
  /\ Put(b, GatesAsked(call)) /\ Want(b, GatesAsked(call))
  /\ map' = ArgumentsOf(call)
  /\ Note(b, NamesGiven(call))
  /\ is_parametrized_' = [is_parametrized_ EXCEPT ![b] = @ \/ NamesGiven(call) # <<>>]
  /\ UNCHANGED <<disabled, runs>>

(* CU, and MCX whose circuit is an X: a block that holds the controlled      *)
(* gates.  Free parameters of the controlled circuit are not noted: the      *)
(* program gives none.  Blocks are told apart by a number unused.            *)
Control == 2
Controlled(ctrl, g) == [g EXCEPT !.name = "C-" \o @, !.on = <<ctrl>> \o @]
Unused ==
  LET used == UNION {Blocks(circuit_[b]) : b \in Builders}
  IN CHOOSE n \in 1 .. Cardinality(used) + 1 : n \notin used
CU(ctrl, gates) ==
  LET inside == [i \in DOMAIN gates |-> Controlled(ctrl, gates[i])]
  IN [Gate("C-U", <<ctrl>>, <<>>) EXCEPT !.id = Unused, !.inside = inside]

AddBlock(b, ctrl, gates) ==
  /\ gates # <<>> /\ Room(Len(gates))
  /\ Put(b, <<CU(ctrl, gates)>>)
  /\ Want(b, CU(ctrl, gates).inside)
  /\ UNCHANGED <<variables, free_params_, is_parametrized_, disabled, runs>> /\ NoMap

AddMCX(b) == AddBlock(b, 0, <<Gate("X", <<1>>, <<>>)>>)
AddCU(b, other) ==
  LET gates == Leaves(circuit_[other])
  IN /\ b # other /\ free_params_[other] = <<>>
     /\ Control \notin uniqueBitsQD(circuit_[other])
     /\ \A i \in DOMAIN gates : gates[i].name \in Simple
     /\ AddBlock(b, Control, gates)

(* Without a number of qubits, MeasureAll goes by the highest there is.      *)
MeasureAll(insts) ==
  LET bits == uniqueBitsQD(insts)
  IN IF bits = {} THEN <<>> ELSE [k \in 1 .. Max(bits) + 1 |-> Gate("Measure", <<k - 1>>, <<>>)]

AddMeasureAll(b) ==
  LET measures == MeasureAll(circuit_[b])
  IN /\ Room(Len(measures))
     /\ Put(b, measures) /\ Want(b, measures)
     /\ UNCHANGED <<variables, free_params_, is_parametrized_, disabled, runs>> /\ NoMap

(* The methods that expand a generator ignore whether it refused.            *)
CallBlock(b, call) ==
  LET block == IF Expands(call) THEN <<Gate("block", <<0, 1>>, <<>>)>> ELSE <<>>
  IN /\ Room(1)
     /\ Put(b, block) /\ Want(b, block)
     /\ map' = ArgumentsOf(call)
     /\ UNCHANGED <<variables, free_params_, is_parametrized_, disabled, runs>>

CallAlgorithm(call) ==
  /\ map' = ArgumentsOf(call)
  /\ UNCHANGED <<circuit_, variables, free_params_, is_parametrized_, meant, disabled, runs>>

-----------------------------------------------------------------------------
(* Circuits made from others.                                                *)

(* append: clones of the gates found enabled, those in blocks without the    *)
(* blocks.  The call binds a copy of the other circuit.                      *)
AppendsTo(b, gates) ==
  /\ Put(b, gates)
  /\ is_parametrized_' = [is_parametrized_ EXCEPT ![b] = \E i \in DOMAIN circuit_'[b] : Symbolic(circuit_'[b][i])]
  /\ UNCHANGED <<disabled, runs>> /\ NoMap

(* Variation: the gates inside blocks are skipped with the blocks.           *)
CallAppend_Shallow(b, other) ==
  LET gates == Among(circuit_[other], {inst \in Range(circuit_[other]) : inst.id = 0})
  IN /\ meant[other] # <<>> /\ Room(Len(meant[other]))
     /\ Want(b, meant[other])
     /\ AppendsTo(b, gates)
     /\ Note(b, ParamsOf(gates))

(* Variation: the parameters of the appended gates are not noted.            *)
CallAppend_Unnoted(b, other) ==
  /\ meant[other] # <<>> /\ Room(Len(meant[other]))
  /\ Want(b, meant[other])
  /\ AppendsTo(b, Enabled(circuit_[other]))
  /\ UNCHANGED <<free_params_, variables>>

CallAppend(b, other) ==
  /\ meant[other] # <<>> /\ Room(Len(meant[other]))
  /\ Want(b, meant[other])
  /\ AppendsTo(b, Enabled(circuit_[other]))
  /\ Note(b, ParamsOf(Enabled(circuit_[other])))

(* The default constructor: b is a new circuit.                              *)
New(b) ==
  /\ Running = {} /\ circuit_[b] # <<>>
  /\ circuit_' = [circuit_ EXCEPT ![b] = <<>>]
  /\ variables' = [variables EXCEPT ![b] = <<>>]
  /\ free_params_' = [free_params_ EXCEPT ![b] = <<>>]
  /\ is_parametrized_' = [is_parametrized_ EXCEPT ![b] = FALSE]
  /\ meant' = [meant EXCEPT ![b] = <<>>]
  /\ UNCHANGED <<disabled, runs>> /\ NoMap

(* The copy constructor: b is a new copy of the other circuit.               *)
CallCopy(b, other) ==
  /\ b # other /\ RoomFor(b, meant[other])
  /\ circuit_' = [circuit_ EXCEPT ![b] = circuit_[other]]
  /\ variables' = [variables EXCEPT ![b] = variables[other]]
  /\ free_params_' = [free_params_ EXCEPT ![b] = free_params_[other]]
  /\ is_parametrized_' = [is_parametrized_ EXCEPT ![b] = is_parametrized_[other]]
  /\ meant' = [meant EXCEPT ![b] = meant[other]]
  /\ UNCHANGED <<disabled, runs>> /\ NoMap

(* The constructor from a composite, which a session's irtarget is read      *)
(* with: every instruction with parameters makes the circuit parametrised.   *)
FromComposite(b, insts, declared) ==
  LET params == ParamsOf(Leaves(insts))
      free == WithNames(<<>>, params)
  IN /\ circuit_' = [circuit_ EXCEPT ![b] = insts]
     /\ free_params_' = [free_params_ EXCEPT ![b] = free]
     /\ variables' = [variables EXCEPT ![b] = WithNames(declared, free)]
     /\ is_parametrized_' = [is_parametrized_ EXCEPT ![b] = params # <<>>]
     /\ UNCHANGED <<disabled, runs>> /\ NoMap

ReadIrtarget(b, other) ==
  /\ b # other /\ RoomFor(b, meant[other])
  /\ FromComposite(b, circuit_[other], variables[other])
  /\ meant' = [meant EXCEPT ![b] = meant[other]]

ReadCompiled(b, program) ==
  /\ RoomFor(b, program.gates)
  /\ FromComposite(b, program.gates, program.variables)
  /\ meant' = [meant EXCEPT ![b] = program.gates]

-----------------------------------------------------------------------------
(* Runs.                                                                     *)

(* param_map_to_vec orders the values of a map that names every free         *)
(* parameter by free_params_; the run gives them to the variables in the     *)
(* order of those (session.cpp).  The value of a name is called by the name. *)
param_map_to_vec(b) == free_params_[b]
ValueOf(b, p) ==
  IF p = "number" THEN p
  ELSE IF ~ Contains(variables[b], p) THEN "unbound"
  ELSE param_map_to_vec(b)[CHOOSE i \in DOMAIN variables[b] : variables[b][i] = p]
WithValues(b, g) == [g EXCEPT !.params = [i \in DOMAIN g.params |-> ValueOf(b, g.params[i])]]
Bound(b, insts) ==
  LET inside(inst) == [k \in DOMAIN inst.inside |-> WithValues(b, inst.inside[k])]
  IN [i \in DOMAIN insts |-> [WithValues(b, insts[i]) EXCEPT !.inside = inside(insts[i])]]

(* Two runs clash that execute the same blocks; with variables, a run        *)
(* executes instructions of its own, but may miss blocks disabled now.       *)
Clashes(b) == {r \in Running : ~ runs[r].own /\ runs[r].blocks \cap Blocks(circuit_[b]) # {}}

Start(s, b) ==
  LET own == variables[b] # <<>>
  IN /\ s \notin Running /\ circuit_[b] # <<>>
     /\ runs' = [r \in Sessions |->
          IF r = s THEN [stage |-> "running", own |-> own, blocks |-> Blocks(circuit_[b]), mine |-> {},
                         todo |-> Bound(b, IF own THEN NotDisabled(circuit_[b]) ELSE circuit_[b]),
                         owed |-> meant[b], right |-> TRUE, clash |-> Clashes(b) # {}]
          ELSE IF r \in Clashes(b) /\ ~ own THEN [runs[r] EXCEPT !.clash = TRUE] ELSE runs[r]]
     /\ UNCHANGED <<circuit_, variables, free_params_, is_parametrized_, meant, disabled>> /\ NoMap

(* The run's record once a gate has reached the simulator: whether it was    *)
(* the next that the circuit was asked for.                                  *)
Simulate(run, gate) ==
  [run EXCEPT !.right = @ /\ run.owed # <<>> /\ Head(run.owed) = gate,
              !.owed = IF @ = <<>> THEN @ ELSE Tail(@)]

ToExecute(s) == s \in Running /\ runs[s].todo # <<>>
Simulated == {"C-X", "C-Y", "C-Z", "C-H", "C-Rx", "C-Ry", "C-Rz"}
Unsupported == {"iSwap", "fSim", "IfStmt"}

ExecuteGate(s) ==
  LET gate == Head(runs[s].todo)
  IN /\ ToExecute(s) /\ gate.id = 0 /\ gate.name \notin Unsupported
     /\ runs' = [runs EXCEPT ![s] = Simulate([runs[s] EXCEPT !.todo = Tail(@)], gate)]
     /\ UNCHANGED <<builder, disabled>>

(* A block of one gate it knows the visitor executes whole, and disables.    *)
Whole(block) == Len(block.inside) = 1 /\ block.inside[1].name \in Simulated
IsOff(s, block) == ~ runs[s].own /\ block.id \in disabled

EnterBlock(s) ==
  LET block == Head(runs[s].todo)
  IN /\ ToExecute(s) /\ block.id # 0 /\ (Whole(block) => IsOff(s, block))
     /\ runs' = [runs EXCEPT ![s].todo = (IF IsOff(s, block) THEN <<>> ELSE block.inside) \o Tail(@)]
     /\ UNCHANGED <<builder, disabled>>

(* Variation: the visitor leaves the block enabled.                          *)
ExecuteBlock_LeftOn(s) ==
  LET block == Head(runs[s].todo)
  IN /\ ToExecute(s) /\ block.id # 0 /\ Whole(block) /\ ~ IsOff(s, block)
     /\ runs' = [runs EXCEPT ![s] = Simulate([runs[s] EXCEPT !.todo = block.inside \o Tail(@)], block.inside[1])]
     /\ UNCHANGED <<builder, disabled>>

ExecuteBlock(s) ==
  LET block == Head(runs[s].todo)
  IN /\ ToExecute(s) /\ block.id # 0 /\ Whole(block) /\ ~ IsOff(s, block)
     /\ runs' = [runs EXCEPT ![s] = Simulate([runs[s] EXCEPT !.todo = Tail(@), !.mine = @ \cup {block.id}], block.inside[1])]
     /\ disabled' = IF runs[s].own THEN disabled ELSE disabled \cup {block.id}
     /\ UNCHANGED builder

(* The visitor goes, after the run or an exception: it enables its blocks.   *)
(* The record keeps whether a run that clashed with no other went wrong.     *)
Ended(run) ==
  [stage |-> IF run.clash \/ (run.right /\ run.owed = <<>>) THEN "idle" ELSE "wrong"]
Enable(s) == disabled' = IF runs[s].own THEN disabled ELSE disabled \ runs[s].mine

Finish(s) ==
  /\ s \in Running /\ runs[s].todo = <<>>
  /\ runs' = [runs EXCEPT ![s] = Ended(@)]
  /\ Enable(s)
  /\ UNCHANGED builder

(* Variation: an exception leaves the blocks disabled.                       *)
Throw_LeavesOff(s) ==
  /\ ToExecute(s) /\ Head(runs[s].todo).name \in Unsupported
  /\ runs' = [runs EXCEPT ![s] = [stage |-> "idle"]]
  /\ UNCHANGED <<builder, disabled>>

Throw(s) ==
  /\ ToExecute(s) /\ Head(runs[s].todo).name \in Unsupported
  /\ runs' = [runs EXCEPT ![s] = [stage |-> "idle"]]
  /\ Enable(s)
  /\ UNCHANGED builder

Next ==
  \/ \E b \in Builders :
       \/ \E g \in Gates : AddGate(b, g)
       \/ \E g \in Free : AddFree(b, g)
       \/ \E p \in UNION {Range(g.params) : g \in Free} : AddCRX(b, p)
       \/ AddMCX(b)
       \/ New(b)
       \/ AddMeasureAll(b)
       \/ MayCall /\ \E call \in Calls \cap GateCalls : CallGate(b, call)
       \/ MayCall /\ \E call \in Calls \cap BlockCalls : CallBlock(b, call)
       \/ \E other \in Builders : AddCU(b, other) \/ CallAppend(b, other) \/ CallCopy(b, other) \/ ReadIrtarget(b, other)
       \/ \E program \in Programs : ReadCompiled(b, program)
  \/ MayCall /\ \E call \in Calls \cap AlgorithmCalls : CallAlgorithm(call)
  \/ \E s \in Sessions :
       \/ \E b \in Builders : Start(s, b)
       \/ ExecuteGate(s) \/ EnterBlock(s) \/ ExecuteBlock(s) \/ Finish(s) \/ Throw(s)
Spec == Init /\ [][Next]_vars

-----------------------------------------------------------------------------
(* Every circuit has the gates that its calls, and those of the circuits it  *)
(* was made from or appended with, asked for, in order, whatever runs and    *)
(* exceptions there were in between.                                         *)
NothingLost == \A b \in Builders : Leaves(circuit_[b]) = meant[b]

(* free_params_ names the free parameters of the gates in the order they     *)
(* first appear, as param_dict_to_list documents (py_circuit_builder.cpp),   *)
(* through append, copies and sessions; and a circuit that has any says so.  *)
ParametersListed ==
  \A b \in Builders :
    /\ free_params_[b] = WithNames(<<>>, ParamsOf(Leaves(circuit_[b])))
    /\ free_params_[b] # <<>> => is_parametrized_[b]

(* Every operand of a gate, and every key of a generator's or an algorithm's *)
(* map, gets the argument that the Python documentation says is for it.      *)
ArgumentsArrive == \A key \in DOMAIN map : IsAbout(key, map[key])

(* Programs that declare their variables in the order the gates have them,   *)
(* the order in which the values are given.                                  *)
OrderlyPrograms ==
  \A program \in Programs : program.variables = WithNames(<<>>, ParamsOf(program.gates))

(* A run that no other run of the same blocks overlaps executes every gate   *)
(* of its circuit once, each with the value the map has for its name,        *)
(* whatever runs, exceptions, copies and appends there were before.          *)
RunsAreWhole == \A s \in Sessions : runs[s].stage # "wrong"
=============================================================================
