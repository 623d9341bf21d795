---------------------------- MODULE NoiseChannels ----------------------------
(* src/noise_model/noise_channel.cpp: the noise channels a model is made of, *)
(* the representations of a channel and the conversions between them.        *)
(*                                                                           *)
(* A channel is a sequence of Kraus operators, each a matrix and the qubits  *)
(* it acts on; the probability kept beside a matrix serves the emulator      *)
(* alone and is left out.  The first qubit of an operator is the left factor *)
(* of its matrix.                                                            *)
EXTENDS ComplexMatrices
LOCAL INSTANCE SequencesExt
LOCAL INSTANCE FiniteSetsExt

KrausOperator(m, qubits) == [matrix |-> m, qubits |-> qubits]

(***************************************************************************)
(* Factories.  Rates are residues; see ComplexMatrices for their roots.    *)
(***************************************************************************)

RealRows(a, b, c, d) == OfRows(<<<<Real(a), Real(b)>>, <<Real(c), Real(d)>>>>)

AmplitudeDampingChannel(q, gamma) ==
  <<KrausOperator(RealRows(1, 0, 0, Root(1 - gamma)), <<q>>),
    KrausOperator(RealRows(0, Root(gamma), 0, 0), <<q>>)>>

PhaseDampingChannel(q, gamma) ==
  <<KrausOperator(RealRows(1, 0, 0, Root(1 - gamma)), <<q>>),
    KrausOperator(RealRows(0, 0, 0, Root(gamma)), <<q>>)>>

(* The Pauli matrices I, X, Y and Z (primitives.hpp). *)
PauliMatrix ==
  <<Identity(2), RealRows(0, 1, 1, 0),
    OfRows(<<<<Zero, Imaginary(-1)>>, <<Imaginary(1), Zero>>>>), RealRows(1, 0, 0, -1)>>

DepolarizingChannel(q, p) ==
  [i \in 1 .. 4 |->
     KrausOperator(Scaled(Root(IF i = 1 THEN 1 - p ELSE Over(p, 3)), PauliMatrix[i]), <<q>>)]

(* On two qubits: II, IX, ... ZZ. *)
TwoQubitDepolarizing(q1, q2, iden, pauli) ==
  [i \in 1 .. 16 |->
     KrausOperator(Scaled(Root(IF i = 1 THEN iden ELSE pauli),
                          Kronecker(PauliMatrix[1 + (i - 1) \div 4], 2, PauliMatrix[1 + ((i - 1) % 4)])),
                   <<q1, q2>>)]
\* Mutant: the identity keeps 1 - p, as on one qubit, the errors p / 16 each
DepolarizingChannel2_Shares(q1, q2, p) == TwoQubitDepolarizing(q1, q2, 1 - p, Over(p, 16))
DepolarizingChannel2(q1, q2, p) ==
  TwoQubitDepolarizing(q1, q2, 1 - Over(15 * p, 16), Over(p, 16))

GeneralizedPhaseAmplitudeDampingChannel(q, excited_state_population, param_amp, param_phase) ==
  LET c0 == Root(1 - excited_state_population)
      c1 == Root(excited_state_population)
      param == Root(1 - param_amp - param_phase)
      all_ops == <<RealRows(c0, 0, 0, c0 * param), RealRows(0, c0 * Root(param_amp), 0, 0),
                   RealRows(0, 0, 0, c0 * Root(param_phase)), RealRows(c1 * param, 0, 0, c1),
                   RealRows(0, 0, c1 * Root(param_amp), 0), RealRows(c1 * Root(param_phase), 0, 0, 0)>>
      is_non_zero(m) == DOMAIN m # {}
      kept == SelectSeq(all_ops, is_non_zero)
  IN [i \in DOMAIN kept |-> KrausOperator(kept[i], <<q>>)]

GeneralizedAmplitudeDampingChannel(q, excited_state_population, gamma) ==
  GeneralizedPhaseAmplitudeDampingChannel(q, excited_state_population, gamma, 0)

krausOpToChannel(qubits, kraus_ops) ==
  [i \in DOMAIN kraus_ops |-> KrausOperator(kraus_ops[i], qubits)]

(* Both channels side by side (noise_model.cpp), which throws unless they are on   *)
(* different qubits.                                                               *)
noise_channel_expand(channel1, channel2) ==
  FlattenSeq([i \in DOMAIN channel1 |->
    [j \in DOMAIN channel2 |->
       KrausOperator(Kronecker(channel1[i].matrix, 2, channel2[j].matrix),
                     channel1[i].qubits \o channel2[j].qubits)]])

(***************************************************************************)
(* Conversions, on n qubits.                                               *)
(***************************************************************************)

Dim(n) == 2 ^ n
KrausMatrices(channel) == [i \in DOMAIN channel |-> channel[i].matrix]

(* The Kronecker product of Pauli matrices that an index stands for: its     *)
(* digits in base 4, the most significant first.                             *)
build_up_matrix_by_Kronecker_product(index, n) ==
  LET digit(i) == (index \div 4 ^ i) % 4
      part[k \in 0 .. n] ==
        IF k = 0 THEN Identity(1) ELSE Kronecker(part[k - 1], 2, PauliMatrix[1 + digit(n - k)])
  IN part[n]

get_computational_to_pauli_transform(n) ==
  LET pauli == [i \in 0 .. 4 ^ n - 1 |-> build_up_matrix_by_Kronecker_product(i, n)]
  IN Matrix(Square(4 ^ n), LAMBDA i, c : Entry(pauli[i], c \div Dim(n), c % Dim(n)))
Transform == [n \in 1 .. 2 |-> get_computational_to_pauli_transform(n)]

process_to_choi(n, process_matrix) ==
  Product(4 ^ n, Product(4 ^ n, Adjoint(Transform[n]), process_matrix), Transform[n])

choi_to_process(n, choi) ==
  Scaled(Over(1, 4 ^ n),
         Product(4 ^ n, Product(4 ^ n, Transform[n], choi), Adjoint(Transform[n])))

\* Mutant: the quotients and the remainders exchanged
choi_to_superoperator_Exchanged(n, choi_matrix) ==
  LET dim == Dim(n)
  IN Moved(choi_matrix, LAMBDA row, col :
       <<(col \div dim) * dim + (row \div dim), (col % dim) * dim + (row % dim)>>)
choi_to_superoperator(n, choi_matrix) ==
  LET dim == Dim(n)
  IN Moved(choi_matrix, LAMBDA row, col :
       <<(col % dim) * dim + (row % dim), (col \div dim) * dim + (row \div dim)>>)

superoperator_to_choi(n, superop) ==
  LET dim == Dim(n)
  IN Moved(superop, LAMBDA row, col :
       <<(row % dim) + dim * (col % dim), (row \div dim) + dim * (col \div dim)>>)

ChoiEntry(n, kraus_mats, row, col) ==
  LET dim == Dim(n)
  IN Sum(Len(kraus_mats), LAMBDA i :
       Times(Entry(kraus_mats[i + 1], row % dim, row \div dim),
             Conj(Entry(kraus_mats[i + 1], col % dim, col \div dim))))
kraus_to_choi(n, kraus_mats) ==
  Matrix(Square(4 ^ n), LAMBDA row, col : ChoiEntry(n, kraus_mats, row, col))

process_to_superoperator(n, process_matrix) ==
  choi_to_superoperator(n, process_to_choi(n, process_matrix))
superoperator_to_process(n, superop) == choi_to_process(n, superoperator_to_choi(n, superop))
kraus_to_superoperator(n, kraus_mats) == choi_to_superoperator(n, kraus_to_choi(n, kraus_mats))

(* The scaled eigenvectors the solver finds become Kraus matrices, column by *)
(* column.                                                                   *)
reshaped(n, vector) ==
  Matrix(Square(Dim(n)), LAMBDA r, c : vector[1 + c * Dim(n) + r])
choi_to_kraus(n, eigenvectors) == [i \in DOMAIN eigenvectors |-> reshaped(n, eigenvectors[i])]

(* The fidelity with the channel that does nothing.  Its Choi matrix has     *)
(* rank one, so that the singular value decompositions of compute_fidelity   *)
(* leave the expectation of the other Choi matrix in its vector.             *)
process_fidelity(channel) ==
  LET n == Len(channel[1].qubits)
      kraus_mats == KrausMatrices(channel)
      at(i) == i * Dim(n) + i
  IN Over(Sum(Dim(n), LAMBDA i :
            Sum(Dim(n), LAMBDA j : ChoiEntry(n, kraus_mats, at(i), at(j))))[1], 4 ^ n)

(* The superoperator of a qubit among several: a process matrix with nothing *)
(* but the identity on the others.                                           *)
expandProcessMatrixSpace(qubit, nb_qubits, superop) ==
  LET at00 == [p \in {<<0, 0>>} |-> Real(1)]
      right == nb_qubits - qubit - 1
      process == Kronecker(Kronecker(at00, 4, superoperator_to_process(1, superop)), 4 ^ right, at00)
  IN process_to_superoperator(nb_qubits, process)

get_index(n_qubits, indices, index) ==
  LET place(q) == Cardinality({r \in indices : r > q})
      digit(q) == (index \div 4 ^ place(q)) % 4
  IN MapThenSumSet(LAMBDA q : 4 ^ (n_qubits - q - 1) * digit(q), indices)

partialTraceProcessMatrixKeep(n_qubits, full, kept) ==
  LET removed == (0 .. n_qubits - 1) \ kept
      index(i, k) == get_index(n_qubits, kept, i) + get_index(n_qubits, removed, k)
  IN Matrix(Square(4 ^ Cardinality(kept)), LAMBDA i, j :
       Sum(4 ^ Cardinality(removed), LAMBDA k : Entry(full, index(i, k), index(j, k))))
=============================================================================
