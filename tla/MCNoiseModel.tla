----------------------------- MODULE MCNoiseModel -----------------------------
(* Two default models and three devices, changed up to MaxCalls times.       *)
EXTENDS NoiseModel

MCDefaults ==
  {[nb_qubits |-> 2, pairs |-> <<<<0, 1>>>>],              \* all to all
   [nb_qubits |-> 3, pairs |-> <<<<1, 0>>, <<1, 2>>>>]}    \* as the program connects them

Slow == <<Over(1, 100), Over(2, 100)>>                     \* rates of the two dampings
Fast == <<Over(2, 100), Over(4, 100)>>
Readout(qubits) == [q \in qubits |-> [p_01 |-> Over(2, 100), p_10 |-> Over(1, 100)]]
Gate(gate, qubits, rates, depolarizing) ==
  [gate |-> gate, qubits |-> qubits, rates |-> rates, depolarizing |-> depolarizing]
MCDevices ==
  {[topology |-> {<<0, 1>>}, readout |-> Readout(0 .. 1),  \* two unlike qubits
    gates |-> <<Gate("u3", <<0>>, <<Slow>>, <<Over(1, 1000)>>),
                Gate("u3", <<1>>, <<Fast>>, <<>>),
                Gate("cz", <<0, 1>>, <<Slow, Fast>>, <<Over(1, 1000)>>)>>],
   [topology |-> {}, readout |-> Readout(0 .. 1),          \* a gate nothing connects
    gates |-> <<Gate("cz", <<1, 0>>, <<Slow, Slow>>, <<0>>)>>],
   [topology |-> {}, readout |-> Readout({0}),             \* one qubit
    gates |-> <<Gate("u3", <<0>>, <<Fast>>, <<Over(2, 1000)>>)>>]}

Rate == Over(1, 100)
MCGateErrors ==
  {[gate |-> "u1", qubits |-> <<0>>,
    channel |-> AmplitudeDampingChannel(0, Rate)],
   [gate |-> "cx", qubits |-> <<0, 2>>, channel |-> DepolarizingChannel2(0, 2, Over(1, 1000))]}
MCReadoutErrors == {[p_01 |-> Over(2, 100), p_10 |-> Over(1, 100)]}
MCConnections == {<<2, 0>>}
MCTaken == {<<"u3", <<0>>>>, <<"cx", <<1, 0>>>>, <<"cz", <<1, 0>>>>}

(* The depolarising channels are found again: their operators are orthogonal. *)
Column(n, m) == [x \in 1 .. 4 ^ n |-> Entry(m, (x - 1) % Dim(n), (x - 1) \div Dim(n))]
Found(n, channel) ==
  [n |-> n, vectors |-> [i \in DOMAIN channel |-> Column(n, channel[i].matrix)]]
MCEigensystems ==
  {Found(1, DepolarizingChannel(0, Over(1, 1000))), Found(1, DepolarizingChannel(0, Over(2, 1000))),
   Found(2, DepolarizingChannel2(0, 1, Over(1, 1000)))}

(* The roots the factories take are roots of squares. *)
ASSUME RatesAreSquares ==
  \A x \in {Over(1, 1000), Over(2, 1000)} :
    IsSquare(1 - x) /\ IsSquare(Over(x, 3)) /\ IsSquare(Over(x, 16)) /\ IsSquare(1 - Over(15 * x, 16))
ASSUME DampingsAreSquares ==
  \A x \in {Slow, Fast} : IsSquare(x[1]) /\ IsSquare(x[2]) /\ IsSquare(1 - x[1] - x[2])
=============================================================================
