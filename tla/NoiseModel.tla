------------------------------ MODULE NoiseModel ------------------------------
(* src/noise_model/noise_model.cpp: one noise model, as a program builds it, *)
(* changes it, writes it to a file for a simulator, reads it back and hands  *)
(* it to the noise-aware placement.  The program may also take a channel out *)
(* of the model, convert it from one representation to another               *)
(* (noise_channel.cpp) and put it back.                                      *)
(*                                                                           *)
(* Left out: the noise models of the emulator library, the name of a model   *)
(* and the choice of the Qobj compiler.                                      *)
EXTENDS NoiseChannels, FiniteSets
LOCAL INSTANCE SequencesExt
LOCAL INSTANCE FiniteSetsExt

CONSTANTS
  Defaults,      \* default models: [nb_qubits, pairs], pairs the connected ones in order
  Devices,       \* noise properties: [topology, readout, gates]; see FromProperties
  GateErrors,    \* the gate errors a program adds: [channel, gate, qubits]
  ReadoutErrors, \* the readout errors it sets: [p_01, p_10]
  Connections,   \* the pairs of qubits it connects
  Qubits,
  Eigensystems,  \* what the solver of choi_to_kraus may find: [n, vectors]
  Taken,         \* the gates, with their qubits, whose channels are taken out (a bound)
  MaxCalls       \* how often a model is changed (a bound)

ASSUME DefaultsAssumption ==
  \A d \in Defaults : \A i \in DOMAIN d.pairs : d.pairs[i] \in Nat \X Nat
ASSUME ConnectionsAssumption == Connections \subseteq Nat \X Nat
(* Expanding the channel of a gate on one qubit twice throws. *)
ASSUME DevicesAssumption ==
  \A d \in Devices : \A i \in DOMAIN d.gates :
    \/ Len(d.gates[i].qubits) = 1
    \/ /\ d.gates[i].qubits \in Nat \X Nat
       /\ d.gates[i].qubits[1] # d.gates[i].qubits[2]

VARIABLES
  model,         \* the noise model
  file,          \* what to_json wrote last
  placed,        \* what the placement was given last
  calls,         \* the changes a program made so far
  unconnected,   \* pairs the program gave noise and has not connected (history)
  hand,          \* a channel taken out, in one of its representations
  meant          \* Kraus matrices of what it should be
noiseVars == <<model, file, placed, calls, unconnected, hand, meant>>
modelVars == <<model, file, placed, calls, unconnected>>
handVars == <<hand, meant>>

Nothing == [is |-> "nothing"]
Terminated == [is |-> "terminated"]            \* std::terminate was called
Running == placed # Terminated

(* The noise of a model is keyed by gate and qubits: a sequence of channels, *)
(* applied in turn.                                                          *)
NoiseModelOf(noise, readout, topology) ==
  [noise |-> noise, readout |-> readout, topology |-> topology]
EmptyModel == NoiseModelOf(<<>>, <<>>, {})
Swap(p) == <<p[2], p[1]>>

-----------------------------------------------------------------------------
(* Building a model.                                                         *)

GateErrorRate == Over(1, 1000)                       \* 1.0 - GATE_FIDELITY
DefaultReadout == [p_01 |-> Over(1, 100), p_10 |-> Over(1, 100)]

CoupledKeys(pairs) == {"cx"} \X UNION {{pairs[i], Swap(pairs[i])} : i \in DOMAIN pairs}
DefaultNoise(nb_qubits, pairs, two_qubit_keys) ==
  LET single == {"u1", "u2", "u3"} \X {<<q>> : q \in 0 .. nb_qubits - 1}
      uses(k) == SelectSeq(pairs, LAMBDA p : k[2] \in {p, Swap(p)})
  IN [k \in single \cup two_qubit_keys |->
        IF k \in single THEN <<DepolarizingChannel(k[2][1], GateErrorRate)>>
        ELSE [i \in DOMAIN uses(k) |->
                DepolarizingChannel2(uses(k)[i][1], uses(k)[i][2], GateErrorRate)]]

DefaultModel(nb_qubits, pairs, two_qubit_keys) ==
  NoiseModelOf(DefaultNoise(nb_qubits, pairs, two_qubit_keys),
               [q \in 0 .. nb_qubits - 1 |-> DefaultReadout],
               {pairs[i] : i \in DOMAIN pairs})
make_default(d) == DefaultModel(d.nb_qubits, d.pairs, CoupledKeys(d.pairs))

(* A gate of a device: its name, its qubits, the rates of amplitude and      *)
(* phase damping of each during the gate, and the rate of depolarisation,    *)
(* none if a single qubit's decoherence explains its error.  The rates of    *)
(* damping add up to at most 1 (the code does not check it).  Both qubits of *)
(* a pair are damped at the rates of one of them, and once for each.         *)
Damping(qubits, first, second) ==
  noise_channel_expand(
    GeneralizedPhaseAmplitudeDampingChannel(qubits[1], 0, first[1], first[2]),
    GeneralizedPhaseAmplitudeDampingChannel(qubits[2], 0, second[1], second[2]))

OneQubitChannels(g) ==
  LET q == g.qubits[1]
  IN <<GeneralizedPhaseAmplitudeDampingChannel(q, 0, g.rates[1][1], g.rates[1][2])>>
     \o [i \in DOMAIN g.depolarizing |-> DepolarizingChannel(q, g.depolarizing[i])]
Depolarized(g) == DepolarizingChannel2(g.qubits[1], g.qubits[2], g.depolarizing[1])

\* Mutant: each qubit of the pair is damped at its own rates
GateChannels_OwnRates(g) ==
  IF Len(g.qubits) = 1 THEN OneQubitChannels(g)
  ELSE <<Damping(g.qubits, g.rates[1], g.rates[2]), Depolarized(g)>>
GateChannels(g) ==
  IF Len(g.qubits) = 1 THEN OneQubitChannels(g)
  ELSE FlattenSeq([i \in 1 .. 2 |-> <<Damping(g.qubits, g.rates[i], g.rates[i]), Depolarized(g)>>])

Directions(qubits) == IF Len(qubits) = 1 THEN {qubits} ELSE {qubits, Swap(qubits)}
FromProperties(device) ==
  LET gates == device.gates
      keys == UNION {{gates[i].gate} \X Directions(gates[i].qubits) : i \in DOMAIN gates}
      of(k) == SelectSeq(gates, LAMBDA g : g.gate = k[1] /\ k[2] \in Directions(g.qubits))
  IN NoiseModelOf([k \in keys |-> FlattenSeq([i \in DOMAIN of(k) |-> GateChannels(of(k)[i])])],
                  device.readout, device.topology)

add_gate_error(m, channel, gate, qubits) ==
  LET key == <<gate, qubits>>
      before == IF key \in DOMAIN m.noise THEN m.noise[key] ELSE <<>>
  IN NoiseModelOf([k \in DOMAIN m.noise \cup {key} |->
                     IF k = key THEN Append(before, channel) ELSE m.noise[k]],
                  m.readout, m.topology)
set_qubit_readout_error(m, q, ro_error) ==
  NoiseModelOf(m.noise,
               [p \in DOMAIN m.readout \cup {q} |-> IF p = q THEN ro_error ELSE m.readout[p]],
               m.topology)
add_qubit_connectivity(m, p) == NoiseModelOf(m.noise, m.readout, m.topology \cup {p})

-----------------------------------------------------------------------------
(* The file.  What a channel says of its qubits is not written: its matrices *)
(* act on those of the gate, in their order.                                 *)

to_json(m) ==
  [readout |-> [q \in DOMAIN m.readout |->
                  LET r == m.readout[q]
                  IN <<<<Residue(1 - r.p_10), r.p_10>>, <<r.p_01, Residue(1 - r.p_01)>>>>],
   errors |-> [k \in DOMAIN m.noise |->
                 [i \in DOMAIN m.noise[k] |-> KrausMatrices(m.noise[k][i])]]]

(* Read back: of the channels of a gate the first, and the readout errors    *)
(* with their two probabilities exchanged.  Gates on two qubits connect      *)
(* them, the lesser first.                                                   *)
Sorted(p) == IF p[1] <= p[2] THEN p ELSE Swap(p)
PairsOf(errors) == {k[2] : k \in {j \in DOMAIN errors : Len(j[2]) = 2}}
ModelRead(f, topology) ==
  NoiseModelOf([k \in DOMAIN f.errors |-> <<krausOpToChannel(k[2], f.errors[k][1])>>],
               [q \in DOMAIN f.readout |->
                  [p_01 |-> f.readout[q][1][2], p_10 |-> f.readout[q][2][1]]],
               topology)
\* Mutant: the qubits are not connected
initialise_noise_properties_from_json_NotConnected(f) == ModelRead(f, {})
\* Mutant: the qubits of a gate are sorted before its error is added
initialise_noise_properties_from_json_SortsFirst(f) ==
  LET key(k) == IF Len(k[2]) = 2 THEN <<k[1], Sorted(k[2])>> ELSE k
      keys == {key(k) : k \in DOMAIN f.errors}
      read == [k \in keys |-> f.errors[CHOOSE j \in DOMAIN f.errors : key(j) = k]]
  IN ModelRead([f EXCEPT !.errors = read], PairsOf(read))
initialise_noise_properties_from_json(f) == ModelRead(f, {Sorted(p) : p \in PairsOf(f.errors)})

-----------------------------------------------------------------------------
(* The placement's view of a model.  A pair with noise has to be connected,  *)
(* one way or the other: the conversion throws otherwise, and as it is       *)
(* declared noexcept the program ends.                                       *)

Connected(p, topology) == p \in topology \/ Swap(p) \in topology
Uncoupled(m) == {p \in PairsOf(m.noise) : ~Connected(p, m.topology)}

FidelityProduct(channels) ==
  LET upto[i \in 0 .. Len(channels)] ==
        IF i = 0 THEN 1 ELSE Residue(upto[i - 1] * process_fidelity(channels[i]))
  IN upto[Len(channels)]
GateErrorOf(channels) == Residue(1 - FidelityProduct(channels))

(* One kind of gate acts on two qubits, as the code expects. *)
to_noise_aware_placement_config(m) ==
  LET singles == {k[2][1] : k \in {j \in DOMAIN m.noise : Len(j[2]) = 1}}
      on(qubits) == {k \in DOMAIN m.noise : k[2] = qubits}
      total(qubits) == MapThenSumSet(LAMBDA k : GateErrorOf(m.noise[k]), on(qubits))
  IN [qubit_connectivity |-> m.topology,
      avg_qubit_readout_errors |->
        [q \in DOMAIN m.readout |-> Over(m.readout[q].p_01 + m.readout[q].p_10, 2)],
      avg_two_qubit_gate_errors |->
        [p \in PairsOf(m.noise) |-> GateErrorOf(m.noise[CHOOSE k \in on(p) : TRUE])],
      avg_single_qubit_gate_errors |->
        [q \in singles |-> Over(total(<<q>>), Cardinality(on(<<q>>)))]]

-----------------------------------------------------------------------------
NoiseInit ==
  /\ model = EmptyModel /\ calls = 0 /\ unconnected = {}
  /\ file = Nothing /\ placed = Nothing /\ hand = Nothing /\ meant = Nothing

(* A new model in place of the one before. *)
New(m, faults) ==
  /\ model' = m /\ unconnected' = faults /\ placed' = Nothing
  /\ UNCHANGED <<file, calls, hand, meant>>

(* The two directions of a pair that a gate acts on and nothing connects. *)
Faults(qubits, topology) ==
  IF Len(qubits) = 2 /\ ~Connected(qubits, topology) THEN Directions(qubits) ELSE {}

Default ==
  /\ model = EmptyModel /\ file = Nothing
  /\ \E d \in Defaults : New(make_default(d), {})

FromDevice ==
  /\ model = EmptyModel /\ file = Nothing
  /\ \E d \in Devices :
       New(FromProperties(d),
           UNION {Faults(d.gates[i].qubits, d.topology) : i \in DOMAIN d.gates})

ReadJson ==
  /\ Running /\ hand = Nothing /\ file # Nothing
  /\ New(initialise_noise_properties_from_json(file), {})

(* A change of the model; what was placed is what the model was before. *)
Change(m, faults) ==
  /\ model' = m /\ unconnected' = faults /\ calls' = calls + 1
  /\ placed' = Nothing
  /\ UNCHANGED file
AddedError(channel, gate, qubits) ==
  Change(add_gate_error(model, channel, gate, qubits),
         unconnected \cup Faults(qubits, model.topology))
MayChange == Running /\ hand = Nothing /\ calls < MaxCalls

AddGateError ==
  /\ MayChange
  /\ \E e \in GateErrors : AddedError(e.channel, e.gate, e.qubits)
  /\ UNCHANGED handVars

SetQubitReadoutError ==
  /\ MayChange
  /\ \E q \in Qubits, r \in ReadoutErrors :
       Change(set_qubit_readout_error(model, q, r), unconnected)
  /\ UNCHANGED handVars

AddQubitConnectivity ==
  /\ MayChange
  /\ \E p \in Connections :
       Change(add_qubit_connectivity(model, p), unconnected \ {p, Swap(p)})
  /\ UNCHANGED handVars

WriteJson ==
  /\ Running /\ hand = Nothing
  /\ file' = to_json(model)
  /\ UNCHANGED <<model, placed, calls, unconnected, hand, meant>>

Place ==
  /\ Running /\ hand = Nothing
  /\ placed' = IF Uncoupled(model) # {} THEN Terminated
               ELSE to_noise_aware_placement_config(model)
  /\ UNCHANGED <<model, file, calls, unconnected, hand, meant>>

-----------------------------------------------------------------------------
(* A channel in hand: of n qubits, in representation rep, from the gate and  *)
(* qubits key; expanded, it does what inner does to qubit at.  (A bound: it  *)
(* is taken from a model as it was built.)                                   *)

Take ==
  /\ hand = Nothing /\ calls = 0 /\ file = Nothing /\ placed = Nothing
  /\ \E k \in DOMAIN model.noise \cap Taken : \E i \in DOMAIN model.noise[k] :
       LET kraus == KrausMatrices(model.noise[k][i])
       IN /\ hand' = [n |-> Len(k[2]), rep |-> "kraus", value |-> kraus, key |-> k,
                     at |-> 0, inner |-> kraus]
          /\ meant' = kraus
  /\ UNCHANGED modelVars

Become(rep, value) ==
  /\ hand' = [hand EXCEPT !.rep = rep, !.value = value]
  /\ UNCHANGED <<model, file, placed, calls, unconnected, meant>>
InHand(rep) == hand # Nothing /\ hand.rep = rep

KrausToChoi == InHand("kraus") /\ Become("choi", kraus_to_choi(hand.n, hand.value))
KrausToSuperoperator ==
  InHand("kraus") /\ Become("superop", kraus_to_superoperator(hand.n, hand.value))
ChoiToSuperoperator ==
  InHand("choi") /\ Become("superop", choi_to_superoperator(hand.n, hand.value))
ChoiToProcess == InHand("choi") /\ Become("process", choi_to_process(hand.n, hand.value))
SuperoperatorToChoi ==
  InHand("superop") /\ Become("choi", superoperator_to_choi(hand.n, hand.value))
SuperoperatorToProcess ==
  InHand("superop") /\ Become("process", superoperator_to_process(hand.n, hand.value))
ProcessToChoi == InHand("process") /\ Become("choi", process_to_choi(hand.n, hand.value))
ProcessToSuperoperator ==
  InHand("process") /\ Become("superop", process_to_superoperator(hand.n, hand.value))

(* The eigenvectors of a Choi matrix, scaled by the roots of their values:   *)
(* the matrix is the sum of their projections.                               *)
EigenvectorsOf(n, vectors, choi) ==
  \A a, b \in 1 .. 4 ^ n :
    Entry(choi, a - 1, b - 1)
      = Sum(Len(vectors), LAMBDA i : Times(vectors[i + 1][a], Conj(vectors[i + 1][b])))
ChoiToKraus ==
  /\ InHand("choi")
  /\ \E e \in Eigensystems :
       /\ e.n = hand.n /\ EigenvectorsOf(e.n, e.vectors, hand.value)
       /\ Become("kraus", choi_to_kraus(e.n, e.vectors))

(* One qubit becomes one of two, with nothing happening to the other. *)
Beside(m, q) ==
  IF q = 0 THEN Kronecker(m, 2, Identity(2)) ELSE Kronecker(Identity(2), 2, m)
Expand ==
  /\ InHand("superop") /\ hand.n = 1
  /\ \E q \in 0 .. 1 :
       /\ hand' = [hand EXCEPT !.n = 2, !.value = expandProcessMatrixSpace(q, 2, hand.value),
                               !.at = q, !.inner = meant]
       /\ meant' = [i \in DOMAIN meant |-> Beside(meant[i], q)]
  /\ UNCHANGED modelVars

(* Back to one of the two. *)
PartialTrace ==
  /\ InHand("process") /\ hand.n = 2 /\ Len(hand.key[2]) = 1
  /\ \E q \in 0 .. 1 :
       /\ hand' = [hand EXCEPT !.n = 1, !.at = 0,
                               !.value = partialTraceProcessMatrixKeep(2, hand.value, {q})]
       /\ meant' = IF q = hand.at THEN hand.inner
                   ELSE <<Identity(2)>>
  /\ UNCHANGED modelVars

(* Back to the gate it came from, as another channel of it. *)
PutBack ==
  /\ InHand("kraus") /\ calls < MaxCalls /\ hand.n = Len(hand.key[2])
  /\ AddedError(krausOpToChannel(hand.key[2], hand.value), hand.key[1], hand.key[2])
  /\ hand' = Nothing /\ meant' = Nothing

Convert ==
  \/ KrausToChoi \/ KrausToSuperoperator \/ ChoiToSuperoperator \/ ChoiToProcess
  \/ SuperoperatorToChoi \/ SuperoperatorToProcess \/ ProcessToChoi
  \/ ProcessToSuperoperator \/ ChoiToKraus

NoiseNext ==
  \/ Default \/ FromDevice \/ ReadJson
  \/ AddGateError \/ SetQubitReadoutError \/ AddQubitConnectivity
  \/ WriteJson \/ Place
  \/ Take \/ Convert \/ Expand \/ PartialTrace \/ PutBack

NoiseSpec == NoiseInit /\ [][NoiseNext]_noiseVars

-----------------------------------------------------------------------------
(* Properties                                                                *)

(* Nothing is lost or gained: the operators of a channel, adjoint times      *)
(* matrix, add up to the identity.                                           *)
Complete(n, kraus) ==
  LET squares == [i \in DOMAIN kraus |-> Product(Dim(n), Adjoint(kraus[i]), kraus[i])]
  IN \A r, c \in 0 .. Dim(n) - 1 :
       Sum(Len(kraus), LAMBDA i : Entry(squares[i + 1], r, c))
         = IF r = c THEN Real(1) ELSE Zero

(* Every channel a model holds is one that quantum mechanics allows,         *)
(* whichever way it got there: from a factory, from two factories side by    *)
(* side, out of a file, out of a chain of conversions.                       *)
ChannelsArePhysical ==
  LET channels(n) == UNION {{KrausMatrices(model.noise[k][i]) : i \in DOMAIN model.noise[k]} :
                              k \in {j \in DOMAIN model.noise : Len(j[2]) = n}}
  IN \A n \in 1 .. 2 : \A kraus \in channels(n) : kraus # <<>> /\ Complete(n, kraus)

(* The Choi matrix of a channel on two qubits, with the two exchanged. *)
Exchanged(x) == 2 * (x % 2) + (x \div 2)
ChoiExchanged(kraus) ==
  LET to(x) == 4 * Exchanged(x \div 4) + Exchanged(x % 4)
  IN Moved(kraus_to_choi(2, kraus), LAMBDA row, col : <<to(row), to(col)>>)

(* The matrices written to the file, which act on the qubits of the gate in  *)
(* the order of the gate, do what the channels of the model do on their own  *)
(* qubits: noise stored under both directions of a pair is the same noise.   *)
FilesMeanTheModel ==
  [][WriteJson =>
       \A k \in DOMAIN model.noise : \A i \in DOMAIN model.noise[k] :
         LET written == file'.errors[k][i]
             kraus == KrausMatrices(model.noise[k][i])
         IN IF model.noise[k][i][1].qubits = k[2] THEN written = kraus
            ELSE kraus_to_choi(2, written) = ChoiExchanged(kraus)]_noiseVars

(* A file with one channel for each gate and the same readout error both     *)
(* ways, as those of the default model are, is read into a model that writes *)
(* the same file: every gate, for each order of its qubits, has its noise.   *)
Carried(f) ==
  /\ \A k \in DOMAIN f.errors : Len(f.errors[k]) = 1
  /\ \A q \in DOMAIN f.readout : f.readout[q][1][2] = f.readout[q][2][1]
RoundTrip ==
  [][ReadJson /\ Carried(file) => to_json(model') = file]_noiseVars

(* The placement ends the program only over a pair that the program, or the  *)
(* device it describes, gave noise and has not connected; never over a       *)
(* default model or one read from a file.                                    *)
PlacementNeverAborts == placed = Terminated => unconnected # {}

(* What a representation of a channel says of the entry r, s of the state    *)
(* after it: how much of the entry a, b before it goes there.                *)
SumOver(S, Term(_)) == MapThenFoldSet(Plus, Zero, Term, LAMBDA T : CHOOSE x \in T : TRUE, S)
PauliString == [n \in 1 .. 2 |->
  [m \in 0 .. 4 ^ n - 1 |->
     IF n = 1 THEN PauliMatrix[m + 1]
     ELSE Kronecker(PauliMatrix[1 + m \div 4], 2, PauliMatrix[1 + (m % 4)])]]
Transfer(h, r, a, s, b) ==
  LET d == Dim(h.n)
      strings(row, col) ==
        {m \in 0 .. 4 ^ h.n - 1 : <<row, col>> \in DOMAIN PauliString[h.n][m]}
  IN CASE h.rep = "kraus" ->
            Sum(Len(h.value), LAMBDA i :
              Times(Entry(h.value[i + 1], r, a), Conj(Entry(h.value[i + 1], s, b))))
       [] h.rep = "choi" -> Entry(h.value, a * d + r, b * d + s)
       [] h.rep = "superop" -> Entry(h.value, s * d + r, b * d + a)
       [] h.rep = "process" ->
            SumOver(strings(r, a) \X strings(s, b), LAMBDA m :
              Times(Entry(h.value, m[1], m[2]),
                    Times(PauliString[h.n][m[1]][r, a],
                          Conj(PauliString[h.n][m[2]][s, b]))))

(* However a channel is converted, expanded to more qubits and traced out    *)
(* again, it does to a state what the Kraus matrices it is to be do.         *)
SameChannel ==
  hand # Nothing =>
    LET basis == 0 .. Dim(hand.n) - 1
        asMeant == [hand EXCEPT !.rep = "kraus", !.value = meant]
    IN \A r, a, s, b \in basis : Transfer(hand, r, a, s, b) = Transfer(asMeant, r, a, s, b)
=============================================================================
