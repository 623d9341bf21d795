--------------------------- MODULE MCGateDeferral ---------------------------
EXTENDS GateDeferral

(* The gates of the reference satisfy the identities they are known by. *)
Same(c, d) == SameUpToPhase(After(Identity, c), After(Identity, d))
G(name, on) == Gate(name, on, <<>>)
ASSUME GateIdentities ==
  /\ Same(<<G("H", <<0>>), G("X", <<0>>), G("H", <<0>>)>>, <<G("Z", <<0>>)>>)
  /\ Same(<<G("H", <<1>>), G("CNOT", <<0, 1>>), G("H", <<1>>)>>, <<G("CZ", <<1, 0>>)>>)
  /\ Same(<<G("Swap", <<0, 1>>)>>,
          <<G("CNOT", <<0, 1>>), G("CNOT", <<1, 0>>), G("CNOT", <<0, 1>>)>>)
  /\ Same(<<G("CY", <<1, 0>>)>>, <<G("Sdg", <<0>>), G("CNOT", <<1, 0>>), G("S", <<0>>)>>)
  /\ Same(<<Gate("U", <<1>>, <<3, 5, 2>>)>>,
          <<Gate("Rz", <<1>>, <<2>>), Gate("Ry", <<1>>, <<3>>), Gate("Rz", <<1>>, <<5>>)>>)
  /\ Same(<<G("H", <<1>>), Gate("Rz", <<1>>, <<3>>)>>, <<Gate("Rx", <<1>>, <<3>>), G("H", <<1>>)>>)
  /\ ~Same(<<Gate("Ry", <<1>>, <<3>>)>>, <<Gate("Rx", <<1>>, <<3>>)>>)

(* Every combination of H, Rx and Ry held back on the two qubits. *)
MCOpenings ==
  LET part(use, g) == IF use THEN <<g>> ELSE <<>>
      on(q, f) == part(f[1], G("H", <<q>>)) \o part(f[2], Gate("Rx", <<q>>, <<q + 1>>))
                  \o part(f[3], Gate("Ry", <<q>>, <<q + 3>>))
  IN {on(0, f) \o on(1, h) : f \in [1 .. 3 -> BOOLEAN], h \in [1 .. 3 -> BOOLEAN]}

Pairs == {<<0, 1>>, <<1, 0>>}
All ==
  {G(n, <<q>>) : n \in {"I", "H", "X", "Y", "Z", "S", "Sdg", "T", "Tdg", "Measure"}, q \in Qubits}
  \cup {Gate(n, <<q>>, <<1>>) : n \in {"Rx", "Ry", "Rz"}, q \in Qubits}
  \cup {Gate("U", <<q>>, <<1, 2, 3>>) : q \in Qubits}
  \cup {G(n, p) : n \in {"CH", "CNOT", "CY", "CZ", "Swap", "iSwap"}, p \in Pairs}
  \cup {Gate(n, p, <<1>>) : n \in {"CRX", "CRY", "CRZ", "CPhase"}, p \in Pairs}

Circuit(Opening(_), Going(_)) ==
  {[opening |-> o, gates |-> {g \in All : Going(g)}] :
     o \in {p \in MCOpenings : \A i \in DOMAIN p : Opening(p[i])}}

HoldsRy(g, qubits) == g.name \in {"Ry", "U"} /\ g.on[1] \in qubits

(* Other phases like S, each a call of Phase: tried in the last set only. *)
Phases == {"I", "Sdg", "T", "Tdg"}

(* The pass as it is computes something else when CNOT meets an Ry on its    *)
(* target and an H on both qubits (see the README).  These circuits hold     *)
(* everything else: no CNOT; no Ry; no Ry on a target; no H but in CH.       *)
MCCircuits ==
  Circuit(LAMBDA g : TRUE, LAMBDA g : g.name \notin Phases \cup {"CNOT"})
  \cup Circuit(LAMBDA g : ~HoldsRy(g, Qubits),
               LAMBDA g : ~HoldsRy(g, Qubits) /\ g.name \notin Phases)
  \cup Circuit(LAMBDA g : ~HoldsRy(g, {1}),
               LAMBDA g : /\ ~HoldsRy(g, {1})
                          /\ g # G("CNOT", <<1, 0>>)
                          /\ g.name \notin Phases \cup {"Swap"})
  \cup Circuit(LAMBDA g : g.name # "H", LAMBDA g : g.name # "H")
=============================================================================
