------------------------------- MODULE MCSparse -------------------------------
EXTENDS SparseRun, TLC

MCQubits == {0, 1, 2}
G(name, on) == Gate(name, on, <<>>)
CU(base, on, angles) == [name |-> "C-U", base |-> base, on |-> on, angles |-> angles]

(* A state with eight amplitudes, all different, with phases in the queue. *)
Entangled ==
  <<Gate("Ry", <<0>>, <<1>>), Gate("Rx", <<1>>, <<3>>), Gate("Ry", <<2>>, <<5>>),
    Gate("CRZ", <<0, 1>>, <<3>>), G("CH", <<1, 2>>), CU("Ry", <<0, 2, 1>>, <<1>>), G("CNOT", <<2, 0>>),
    G("T", <<0>>), G("S", <<1>>), G("T", <<2>>), G("CZ", <<0, 2>>)>>

(* Every combination of H, Rx and Ry held back, on some qubits. *)
Held3(qubits, Allowed(_, _)) ==
  LET part(use, g) == IF use THEN <<g>> ELSE <<>>
      on(q, f) == part(f[1], G("H", <<q>>)) \o part(f[2], Gate("Rx", <<q>>, <<q + 1>>))
                  \o part(f[3], Gate("Ry", <<q>>, <<q + 3>>))
      flags(q) == {f \in [1 .. 3 -> BOOLEAN] :
                     /\ \A k \in 1 .. 3 : f[k] => Allowed(q, k)
                     /\ q \notin qubits => \A k \in 1 .. 3 : ~f[k]}
  IN {on(0, a) \o on(1, b) \o on(2, c) : a \in flags(0), b \in flags(1), c \in flags(2)}

Pairs == {p \in MCQubits \X MCQubits : p[1] # p[2]}
SomePairs == {<<0, 1>>, <<1, 0>>, <<2, 1>>}
OneQubit ==
  {G(n, <<q>>) : n \in {"H", "X", "Y", "Z", "S", "Sdg", "T", "Tdg", "I"}, q \in MCQubits}
  \cup {Gate(n, <<q>>, <<1>>) : n \in {"Rx", "Ry", "Rz"}, q \in MCQubits}
  \cup {Gate("U", <<q>>, <<1, 2, 3>>) : q \in MCQubits}
TwoQubits ==
  {G(n, p) : n \in {"CH", "CY", "CZ", "Swap"}, p \in SomePairs}
  \cup {Gate(n, p, <<1>>) : n \in {"CRZ", "CPhase"}, p \in SomePairs}
  \cup {CU(n, p, <<a>>) : n \in {"Rx", "Ry", "Rz"}, p \in SomePairs, a \in {3, 4, 8}}
ThreeQubits ==
  {CU(n, p, <<>>) : n \in {"X", "Y", "Z", "H"}, p \in {<<0, 1, 2>>, <<2, 1, 0>>}}
  \cup {CU(n, <<0, 1, 2>>, <<a>>) : n \in {"Rx", "Ry", "Rz"}, a \in {3, 4}}

Axes == {a \in UNION {[Q -> {"X", "Y", "Z"}] : Q \in {{0}, {0, 1}, {1, 2}}} : TRUE}
        \cup {(0 :> "Z" @@ 1 :> "I"), (0 :> "I"), (0 :> "X" @@ 1 :> "Y" @@ 2 :> "Z")}
Reads ==
  {[call |-> n, target |-> q] : n \in {"M", "Reset", "release"}, q \in MCQubits}
  \cup {[call |-> "Measure", axes |-> a] : a \in Axes \ {(0 :> "I")}}
  \cup {[call |-> "Assert", axes |-> a, result |-> r] : a \in Axes, r \in BOOLEAN}
  \cup {[call |-> "dump_qubits", qubits |-> Q] : Q \in {{0}, {1}, {0, 2}}}
  \cup {[call |-> "Sample"]}
Others ==
  {[call |-> "CSWAP", controls |-> c, i |-> 0, j |-> 1] : c \in {{2}, {}}}
  \cup {[call |-> "MCR_I", controls |-> c, angle |-> 2, target |-> 2] : c \in {{0}, {0, 1}}}
  \cup {[call |-> "Exp", controls |-> c, axes |-> a, angle |-> 3] :
          c \in {{}, {2}}, a \in {(0 :> "Z"), (0 :> "I"), (0 :> "X" @@ 1 :> "Y"), (0 :> "Z" @@ 1 :> "Y"), (0 :> "Z" @@ 1 :> "Z")}}
  \cup {[call |-> "Exp", controls |-> {2}, axes |-> (0 :> "X" @@ 1 :> "Z"), angle |-> 4]}

On(prefix, openings) == {prefix \o o : o \in openings}

(* 1: anything may be held back, on an entangled state, when the call comes. *)
AnyHeld == On(Entangled, Held3(MCQubits, LAMBDA q, k : TRUE))
AllGates == OneQubit \cup TwoQubits \cup ThreeQubits
AllCalls == Others \cup Reads

(* 2: the life of qubits: from nothing, gates, measurements, resets,         *)
(* releases, assertions and gates again.                                     *)
Beginnings ==
  {<<>>, <<G("X", <<0>>)>>, <<G("H", <<0>>), G("CNOT", <<0, 1>>)>>,
   <<G("H", <<0>>), G("S", <<0>>), G("H", <<1>>)>>}
LifeGates ==
  {G(n, <<q>>) : n \in {"H", "X", "Z"}, q \in {0, 1}}
  \cup {Gate("Rx", <<0>>, <<4>>), G("CNOT", <<0, 1>>), G("Swap", <<0, 1>>), G("S", <<0>>)}
LifeCalls ==
  {[call |-> n, target |-> q] : n \in {"M", "Reset", "release"}, q \in {0, 1}}
  \cup {[call |-> "Measure", axes |-> a] : a \in {(0 :> "X"), (0 :> "Z" @@ 1 :> "Z")}}
  \cup {[call |-> "Assert", axes |-> a, result |-> r] :
          a \in {(0 :> "Z"), (0 :> "X"), (0 :> "Y"), (0 :> "Y" @@ 1 :> "Y")}, r \in BOOLEAN}
  \cup {[call |-> "CSWAP", controls |-> {0}, i |-> 1, j |-> 2], [call |-> "dump_qubits", qubits |-> {0}]}

(* 3: a conjunction computed and uncomputed. *)
Conjunctions ==
  {o \o <<CU("X", <<0, 1, 2>>, <<>>)>> : o \in Held3({0, 1}, LAMBDA q, k : TRUE)}
  \cup {<<>>, <<G("X", <<0>>), G("X", <<1>>)>>}
AndCalls == {[call |-> n, controls |-> {0, 1}, target |-> 2] : n \in {"MCApplyAnd", "MCApplyAndAdj"}}

(* 4 to 7: CNOT, but where it finds an Ry held back on its target and an H   *)
(* on both its qubits and computes something else (see the README): there    *)
(* is no Ry on the target, or no H on the control.                           *)
Without(qubit, flag) == On(Entangled, Held3(MCQubits, LAMBDA q, k : ~(q = qubit /\ k = flag)))

MCOpenings ==
  <<AnyHeld, Beginnings, Conjunctions, Without(1, 3), Without(0, 1), Without(1, 3), Without(2, 1)>>
MCGates ==
  <<AllGates, LifeGates, {G("X", <<0>>)}, {G("CNOT", <<0, 1>>)}, {G("CNOT", <<0, 1>>)},
    {G("CNOT", <<2, 1>>)}, {G("CNOT", <<2, 1>>)}>>
MCCalls == <<AllCalls, LifeCalls, AndCalls, {}, {}, {}, {}>>
MCMost == <<1, 3, 2, 1, 1, 1, 1>>
=============================================================================
