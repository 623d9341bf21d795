----------------------------- MODULE BuilderCalls -----------------------------
(* How the arguments of a Python call on a circuit reach the circuit         *)
(* generator that uses them.  A binding (py_circuit_builder.cpp) passes its  *)
(* named arguments by position to a CircuitBuilder method                    *)
(* (circuit_builder.cpp), which passes them on under the keys of a map; the  *)
(* generator's expand() looks keys up and is refused without the ones it     *)
(* requires (src/src/circuits).                                              *)
(*                                                                           *)
(* A method is the generator's name and, in the order of its parameters, the *)
(* keys they are passed under; a binding is the method it calls and, in the  *)
(* order of the method's parameters, the names Python has for their values.  *)
Method(generator, keys) == [generator |-> generator, keys |-> keys]
Binding(method, given) == [method |-> method, given |-> given]

-----------------------------------------------------------------------------
(* Methods that add a gate, by the gate's name: its instruction takes the    *)
(* qubits, then the angles, in the order of the parameters.  A method with   *)
(* a name for an angle is overloaded on one with its value.                  *)

Fixed(gate) == Method(gate, <<"idx">>)
Rotation(gate) == Method(gate, <<"idx", "theta">>)
U3 == Method("U", <<"idx", "theta", "phi", "lambda">>)
TwoQubit(gate) == Method(gate, <<"ctrl_idx", "target_idx">>)
ControlledRotation(gate) == Method(gate, <<"ctrl_idx", "target_idx", "theta">>)
SWAP == Method("Swap", <<"q1", "q2">>)
MCX == Method("C-U", <<"ctrl_inds", "target_idx">>)

-----------------------------------------------------------------------------
(* Methods that add a block to the circuit.                                  *)

QFT == Method("qft", <<"qubit_idxs">>)
IQFT == Method("iqft", <<"qubit_idxs">>)
QPE == Method("PhaseEstimation", <<"unitary", "num_evaluation_qubits", "trial_qubits", "evaluation_qubits">>)
CanonicalAmplitudeEstimation ==
  Method("CanonicalAmplitudeEstimation",
         <<"state_preparation_circuit", "grover_op_circuit", "num_evaluation_qubits", "num_state_qubits",
           "num_trial_qubits", "trial_qubits", "evaluation_qubits", "no_state_prep">>)
MultiControlledUWithAncilla ==
  Method("MultiControlledUWithAncilla", <<"U", "qubits_control", "qubits_ancilla">>)
AmplitudeAmplification == Method("AmplitudeAmplification", <<"oracle", "state_preparation", "power">>)

PrimeKeys ==
  <<"nb_qubits_ancilla_metric", "nb_qubits_ancilla_letter", "nb_qubits_next_letter_probabilities",
    "nb_qubits_next_letter">>
QPrime == Method("QPrime", PrimeKeys)
UPrime == Method("UPrime", PrimeKeys)
UQPrime == Method("UQPrime", PrimeKeys)
WPrime ==
  Method("WPrime", <<"iteration", "qubits_next_metric", "qubits_next_letter", "probability_table",
                     "qubits_init_null", "null_integer", "use_ancilla", "ancilla_qubits">>)

RippleAdd == Method("RippleCarryAdder", <<"adder_bits", "sum_bits", "c_in">>)
ComparatorKeys ==
  <<"BestScore", "num_scoring_qubits", "trial_score_qubits", "flag_qubit", "best_score_qubits",
    "ancilla_qubits", "is_LSB", "controls_on", "controls_off">>
Comparator == Method("Comparator", ComparatorKeys)
(* ... which also says as_oracle.                                            *)
Comparator_as_Oracle == Method("Comparator as oracle", ComparatorKeys)
EfficientEncoding ==
  Method("EfficientEncoding",
         <<"scoring_function", "num_state_qubits", "num_scoring_qubits", "state_qubits", "scoring_qubits",
           "is_LSB", "use_ancilla", "qubits_init_flag", "flag_integer">>)
EqualityChecker ==
  Method("EqualityChecker", <<"qubits_a", "qubits_b", "flag", "use_ancilla", "qubits_ancilla",
                              "controls_on", "controls_off">>)
ControlledSwap == Method("ControlledSwap", <<"qubits_a", "qubits_b", "flags_on", "flags_off">>)
ControlledAddition ==
  Method("ControlledAddition", <<"qubits_adder", "qubits_sum", "c_in", "flags_on", "flags_off", "no_overflow">>)
GeneralisedMCX == Method("GeneralisedMCX", <<"target", "controls_on", "controls_off">>)
CompareBeamOracle ==
  Method("CompareBeamOracle", <<"q0", "q1", "q2", "FA", "FB", "SA", "SB", "simplified">>)
SuperpositionAdder ==
  Method("SuperpositionAdder",
         <<"q0", "q1", "q2", "qubits_flags", "qubits_string", "qubits_metric", "ae_state_prep_circ",
           "qubits_ancilla", "qubits_beam_metric">>)
InverseCircuit == Method("InverseCircuit", <<"circ">>)
Subtraction == Method("Subtraction", <<"qubits_larger", "qubits_smaller", "is_LSB", "qubit_ancilla">>)
ControlledSubtraction ==
  Method("ControlledSubtraction",
         <<"qubits_larger", "qubits_smaller", "controls_on", "controls_off", "is_LSB", "qubit_ancilla">>)
ProperFractionDivision ==
  Method("ProperFractionDivision",
         <<"qubits_numerator", "qubits_denominator", "qubits_fraction", "qubits_ancilla", "is_LSB">>)
ControlledProperFractionDivision ==
  Method("ControlledProperFractionDivision",
         <<"qubits_numerator", "qubits_denominator", "qubits_fraction", "qubits_ancilla", "controls_on",
           "controls_off", "is_LSB">>)
CompareGT == Method("CompareGT", <<"qubits_a", "qubits_b", "qubit_flag", "qubit_ancilla", "is_LSB">>)
Multiplication ==
  Method("Multiplication", <<"qubits_a", "qubits_b", "qubits_result", "qubit_ancilla", "is_LSB">>)
ControlledMultiplication ==
  Method("ControlledMultiplication",
         <<"qubits_a", "qubits_b", "qubits_result", "qubit_ancilla", "is_LSB", "controls_on", "controls_off">>)

(* Methods that run an algorithm and answer with its result.                 *)
RunCanonicalAmplitudeEstimation ==
  Method("canonical-ae",
         <<"state_preparation_circuit", "grover_op_circuit", "num_evaluation_qubits", "num_state_qubits",
           "num_trial_qubits", "trial_qubits", "evaluation_qubits", "qpu">>)
RunCanonicalAmplitudeEstimationWithOracle ==
  Method("canonical-ae",
         <<"state_preparation_circuit", "oracle", "num_evaluation_qubits", "num_state_qubits",
           "num_trial_qubits", "evaluation_qubits", "trial_qubits", "qpu">>)
RunMLAmplitudeEstimation ==
  Method("ML-ae",
         <<"state_preparation_circuit", "oracle_circuit", "is_in_good_subspace", "score_qubits",
           "total_num_qubits", "num_runs", "shots", "qpu">>)
ExponentialSearch ==
  Method("exponential-search",
         <<"method", "state_preparation_circuit", "oracle_circuit", "best_score", "f_score",
           "total_num_qubits", "qubits_string", "total_metric", "qpu">>)

-----------------------------------------------------------------------------
(* The keys without which expand() returns false; the generators not listed  *)
(* require no key their method leaves out.                                   *)

PhaseEstimation_requires == {"num_evaluation_qubits", "unitary"}
CanonicalAmplitudeEstimation_requires ==
  {"num_evaluation_qubits", "state_preparation_circuit", "num_trial_qubits"}
AmplitudeAmplification_requires == {"oracle"}
QPrime_requires == {"iteration", "qubits_metric", "qubits_string", "qubits_next_metric", "qubits_next_letter"}
UPrime_requires == QPrime_requires
UQPrime_requires ==
  {"qubits_ancilla_metric", "qubits_ancilla_letter", "qubits_next_letter_metric", "qubits_next_letter"}
WPrime_requires == {"probability_table", "iteration", "qubits_next_letter", "qubits_next_metric"}
SuperpositionAdder_requires ==
  {"q0", "q1", "q2", "qubits_flags", "qubits_string", "qubits_metric", "ae_state_prep_circ",
   "qubits_ancilla", "qubits_beam_metric"}
EqualityChecker_requires == {"qubits_a", "qubits_b", "flag"}
EfficientEncoding_requires == {"scoring_function", "num_state_qubits", "num_scoring_qubits"}

Required(generator) ==
  CASE generator = "PhaseEstimation" -> PhaseEstimation_requires
    [] generator = "CanonicalAmplitudeEstimation" -> CanonicalAmplitudeEstimation_requires
    [] generator = "AmplitudeAmplification" -> AmplitudeAmplification_requires
    [] generator = "QPrime" -> QPrime_requires
    [] generator = "UPrime" -> UPrime_requires
    [] generator = "UQPrime" -> UQPrime_requires
    [] generator = "WPrime" -> WPrime_requires
    [] generator = "SuperpositionAdder" -> SuperpositionAdder_requires
    [] generator = "EqualityChecker" -> EqualityChecker_requires
    [] generator = "EfficientEncoding" -> EfficientEncoding_requires
    [] OTHER -> {}
=============================================================================
