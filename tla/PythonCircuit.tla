---------------------------- MODULE PythonCircuit ----------------------------
(* The bindings of the Python class Circuit (py_circuit_builder.cpp): each   *)
(* passes its named arguments, in this order, to the parameters of a method  *)
(* of CircuitBuilder.                                                        *)
EXTENDS BuilderCalls
LOCAL INSTANCE Sequences

(* Gates.  Where an angle may have a name, a second binding takes the name.  *)
one_qubit == {Binding(Fixed(g), <<"idx">>) : g \in {"H", "X", "Y", "Z", "T", "Tdg", "S", "Sdg"}}
rx_ry_rz ==
  {Binding(Rotation("Rx"), <<"idx", "theta">>), Binding(Rotation("Rx"), <<"idx", "name">>)}
    \cup {Binding(Rotation(g), <<"idx", a>>) : g \in {"Ry", "Rz"}, a \in {"theta", "param_name"}}
cnot == Binding(TwoQubit("CNOT"), <<"ctrl_idx", "target_idx">>)
mcx == Binding(MCX, <<"ctrl_inds", "target_idx">>)
ccx == Binding(MCX, <<"{ctrl_idx1, ctrl_idx2}", "target_idx">>)
swap == Binding(SWAP, <<"q1", "q2">>)
cphase == {Binding(ControlledRotation("CPhase"), <<"ctrl_idx", "target_idx", a>>) : a \in {"theta", "param_name"}}
cz_acz == {Binding(TwoQubit(g), <<"ctrl_idx", "target_idx">>) : g \in {"CZ", "ACZ"}}
crz_crx_cry ==
  {Binding(ControlledRotation(g), <<"ctrl_idx", "target_idx", a>>) :
     g \in {"CRZ", "CRX", "CRY"}, a \in {"theta", "param_name"}}
ch == Binding(TwoQubit("CH"), <<"ctrl_idx", "target_idx">>)
u1 == {Binding(Rotation("U1"), <<"idx", a>>) : a \in {"theta", "param_name"}}
u3 == {Binding(U3, <<"idx", "theta", "phi", "lambda">>), Binding(U3, <<"idx", "param_1", "param_2", "param_3">>)}
measure == Binding(Fixed("Measure"), <<"idx">>)

(* Blocks and algorithms.                                                    *)
qft == Binding(QFT, <<"qubits">>)
iqft == Binding(IQFT, <<"qubits">>)
qpe == Binding(QPE, <<"oracle", "precision", "trial_qubits", "precision_qubits">>)
canonical_ae ==
  Binding(CanonicalAmplitudeEstimation,
          <<"state_prep", "grover_op", "precision", "num_state_prep_qubits", "num_trial_qubits",
            "precision_qubits", "trial_qubits", "no_state_prep">>)
run_canonical_ae ==
  Binding(RunCanonicalAmplitudeEstimation,
          <<"state_prep", "grover_op", "precision", "num_state_prep_qubits", "num_trial_qubits",
            "precision_qubits", "trial_qubits", "qpu">>)
amcu == Binding(MultiControlledUWithAncilla, <<"U", "qubits_control", "qubits_ancilla">>)

(* Variation: the two registers in the order of the method without oracle.   *)
run_canonical_ae_with_oracle_Exchanged ==
  Binding(RunCanonicalAmplitudeEstimationWithOracle,
          <<"state_prep", "oracle", "precision", "num_state_prep_qubits", "num_trial_qubits",
            "trial_qubits", "precision_qubits", "qpu">>)

run_canonical_ae_with_oracle ==
  Binding(RunCanonicalAmplitudeEstimationWithOracle,
          <<"state_prep", "oracle", "precision", "num_state_prep_qubits", "num_trial_qubits",
            "precision_qubits", "trial_qubits", "qpu">>)
run_MLQAE ==
  Binding(RunMLAmplitudeEstimation,
          <<"state_prep", "oracle", "is_in_good_subspace", "score_qubits", "total_num_qubits", "num_runs",
            "shots", "qpu">>)
amplitude_amplification == Binding(AmplitudeAmplification, <<"oracle", "state_prep", "power">>)
ripple_add == Binding(RippleAdd, <<"a", "b", "carry_bit">>)

ComparatorArguments ==
  <<"best_score", "num_scoring_qubits", "trial_score_qubits", "flag_qubit", "best_score_qubits",
    "ancilla_qubits", "is_LSB", "controls_on", "controls_off">>
comparator == Binding(Comparator, ComparatorArguments)
comparator_as_oracle == Binding(Comparator_as_Oracle, ComparatorArguments)
efficient_encoding ==
  Binding(EfficientEncoding,
          <<"scoring_function", "num_state_qubits", "num_scoring_qubits", "state_qubits", "scoring_qubits",
            "is_LSB", "use_ancilla", "qubits_init_flags", "flag_integer">>)
equality_checker ==
  Binding(EqualityChecker, <<"qubits_a", "qubits_b", "flag", "use_ancilla", "qubits_ancilla",
                             "controls_on", "controls_off">>)
controlled_swap == Binding(ControlledSwap, <<"qubits_a", "qubits_b", "flags_on", "flags_off">>)
controlled_ripple_carry_adder ==
  Binding(ControlledAddition, <<"qubits_adder", "qubits_sum", "c_in", "flags_on", "flags_off", "no_overflow">>)
generalised_mcx == Binding(GeneralisedMCX, <<"target", "controls_on", "controls_off">>)
compare_beam_oracle ==
  Binding(CompareBeamOracle, <<"q0", "q1", "q2", "FA", "FB", "SA", "SB", "simplified">>)
inverse_circuit == Binding(InverseCircuit, <<"circ">>)

(* The names of these two are given in another order than the parameters of  *)
(* the lambda they belong to: qubit_ancilla is its first.                    *)
multiplication ==
  Binding(Multiplication, <<"qubit_ancilla", "qubits_a", "qubits_b", "qubits_result", "is_LSB">>)
controlled_multiplication ==
  Binding(ControlledMultiplication, <<"qubit_ancilla", "qubits_a", "qubits_b", "qubits_result", "is_LSB",
                                      "controls_on", "controls_off">>)

superposition_adder ==
  Binding(SuperpositionAdder,
          <<"q0", "q1", "q2", "qubits_flags", "qubits_string", "qubits_metric", "ae_state_prep_circ",
            "qubits_ancilla", "qubits_beam_metric">>)
exponential_search ==
  Binding(ExponentialSearch,
          <<"method", "state_prep", "oracle", "best_score", "f_score", "total_num_qubits",
            "qubits_string", "total_metric", "qpu">>)
q_prime_unitary == Binding(QPrime, PrimeKeys)
subtraction == Binding(Subtraction, <<"qubits_larger", "qubits_smaller", "is_LSB", "qubit_ancilla">>)
controlled_subtraction ==
  Binding(ControlledSubtraction,
          <<"qubits_larger", "qubits_smaller", "controls_on", "controls_off", "is_LSB", "qubit_ancilla">>)
proper_fraction_division ==
  Binding(ProperFractionDivision,
          <<"qubits_numerator", "qubits_denominator", "qubits_fraction", "qubits_ancilla", "is_LSB">>)
controlled_proper_fraction_division ==
  Binding(ControlledProperFractionDivision,
          <<"qubits_numerator", "qubits_denominator", "qubits_fraction", "qubits_ancilla", "controls_on",
            "controls_off", "is_LSB">>)
compare_gt == Binding(CompareGT, <<"qubits_a", "qubits_b", "qubit_flag", "qubit_ancilla", "is_LSB">>)

(* The functions of the module pass on the same arguments as the methods of  *)
(* their names, but one calls its oracle grover_op.                          *)
module_run_canonical_ae == run_canonical_ae
module_run_canonical_ae_with_oracle ==
  [run_canonical_ae_with_oracle EXCEPT !.given[2] = "grover_op"]
module_run_MLQAE == run_MLQAE
module_exponential_search == exponential_search

GateCalls ==
  {cnot, swap, ch, measure} \cup one_qubit \cup rx_ry_rz \cup cphase \cup cz_acz \cup crz_crx_cry \cup u1 \cup u3
BlockCalls ==
  {mcx, ccx, qft, iqft, qpe, canonical_ae, amcu, amplitude_amplification, ripple_add, comparator,
   comparator_as_oracle, efficient_encoding, equality_checker, controlled_swap,
   controlled_ripple_carry_adder, generalised_mcx, compare_beam_oracle, inverse_circuit,
   multiplication, controlled_multiplication, superposition_adder, q_prime_unitary, subtraction,
   controlled_subtraction, proper_fraction_division, controlled_proper_fraction_division, compare_gt}
AlgorithmCalls ==
  {run_canonical_ae, run_canonical_ae_with_oracle, run_MLQAE, exponential_search,
   module_run_canonical_ae, module_run_canonical_ae_with_oracle, module_run_MLQAE, module_exponential_search}

-----------------------------------------------------------------------------
(* What a call's map holds: for each key, the argument it gets.              *)
ArgumentsOf(call) ==
  [key \in {call.method.keys[i] : i \in DOMAIN call.method.keys} |->
     call.given[CHOOSE i \in DOMAIN call.method.keys : call.method.keys[i] = key]]
Expands(call) == Required(call.method.generator) \subseteq DOMAIN ArgumentsOf(call)

(* The arguments that are angles, or names for angles, and not qubits.       *)
Angles == {"theta", "phi", "lambda"}
Names == {"name", "param_name", "param_1", "param_2", "param_3"}

(* Specification: the other names Python has for what a key is about.        *)
AlsoCalled ==
  {<<"theta", "name">>, <<"theta", "param_name">>, <<"theta", "param_1">>, <<"phi", "param_2">>,
   <<"lambda", "param_3">>, <<"ctrl_inds", "{ctrl_idx1, ctrl_idx2}">>, <<"qubit_idxs", "qubits">>, <<"unitary", "oracle">>, <<"num_evaluation_qubits", "precision">>,
   <<"evaluation_qubits", "precision_qubits">>, <<"state_preparation_circuit", "state_prep">>,
   <<"state_preparation", "state_prep">>, <<"grover_op_circuit", "grover_op">>,
   <<"num_state_qubits", "num_state_prep_qubits">>, <<"oracle_circuit", "oracle">>,
   <<"adder_bits", "a">>, <<"sum_bits", "b">>, <<"c_in", "carry_bit">>, <<"BestScore", "best_score">>,
   <<"qubits_init_flag", "qubits_init_flags">>}
IsAbout(key, name) == key = name \/ <<key, name>> \in AlsoCalled
=============================================================================
