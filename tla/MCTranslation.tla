---------------------------- MODULE MCTranslation ----------------------------
EXTENDS Translation

(* Every back end with every option. *)
MCBackEnds ==
  {[kind |-> k, anti |-> FALSE, restricted |-> r, verbatim |-> FALSE, noise |-> FALSE] :
     k \in {"qb", "transpiler"}, r \in BOOLEAN}
  \cup {[kind |-> "qb", anti |-> TRUE, restricted |-> r, verbatim |-> FALSE, noise |-> FALSE] : r \in BOOLEAN}
  \cup {[kind |-> k, anti |-> FALSE, restricted |-> FALSE, verbatim |-> v, noise |-> n] :
          k \in {"aws", "openqasm3"}, v \in BOOLEAN, n \in BOOLEAN}
  \cup {[kind |-> k, anti |-> FALSE, restricted |-> FALSE, verbatim |-> FALSE, noise |-> FALSE] :
          k \in {"cudaq", "tket"}}

Pairs == {<<0, 1>>, <<1, 0>>}
Fixed == {"I", "H", "X", "Y", "Z", "S", "Sdg", "T", "Tdg", "Measure"}

(* One turn and more either way in steps of pi/4; where an angle is halved,  *)
(* in steps of pi/2.                                                         *)
Turns == -9 .. 9
Halves == {2 * k : k \in -5 .. 5}

MCGates ==
  {Gate(n, <<q>>, <<>>) : n \in Fixed, q \in {0, 1}}
  \cup {Gate(n, <<1>>, <<a>>) : n \in {"Rx", "Ry", "Rz", "U1"}, a \in Turns}
  \cup {Gate(n, p, <<>>) : n \in {"CNOT", "CY", "CZ", "CH", "ACZ", "Swap", "iSwap"}, p \in Pairs}
  \cup {Gate(n, p, <<a>>) : n \in {"CPhase", "CRZ"}, p \in Pairs, a \in Halves}
  \cup {Gate("U", <<0>>, <<t, p, l>>) : t \in Halves, p \in Halves, l \in Halves}

(* The gates a back end does not write, or (see the README) writes as        *)
(* something else.                                                           *)
Missing(b, g) ==
  CASE b.kind \in {"qb", "transpiler"} -> g.name \in {"U1", "CY", "CH", "CRZ", "iSwap"}
    [] b.kind = "aws" -> \/ g.name \in {"U1", "CY", "CH", "CRZ", "ACZ", "iSwap", "Sdg", "U"}
                         \/ b.verbatim /\ g.name \in {"CNOT", "Z", "Swap"}
    [] b.kind = "openqasm3" -> g.name \in {"ACZ", "CH"}
    [] b.kind = "cudaq" -> g.name = "ACZ"
    [] b.kind = "tket" -> g.name = "ACZ"
NoTurn(b, g) == b.kind \in {"qb", "transpiler"} /\ g.name = "U" /\ g.angles[1] = 0

(* Single gates on every back end. *)
MCSingles ==
  {[backEnd |-> b, circuit |-> <<g>>] : <<b, g>> \in
     {x \in MCBackEnds \X MCGates : ~ Missing(x[1], x[2]) /\ ~ NoTurn(x[1], x[2])}}

(* Circuits of up to four steps with measurements in between, in which no    *)
(* gate meets two measured qubits that were not used since.                  *)
MCSteps ==
  {Gate("H", <<0>>, <<>>), Gate("CNOT", <<0, 1>>, <<>>), Gate("Swap", <<1, 0>>, <<>>)}
  \cup {Gate("Measure", <<q>>, <<>>) : q \in {0, 1}}
MCSequences ==
  LET circuits == {c \in UNION {[1 .. n -> MCSteps] : n \in 2 .. 4} : Apart(c)}
      plain(b) == b.kind = "tket" \/ (b.kind \in {"transpiler", "openqasm3"} /\ ~b.restricted)
  IN {[backEnd |-> b, circuit |-> c] : b \in {x \in MCBackEnds : plain(x)}, c \in circuits}

MCTasks == MCSingles \cup MCSequences
ASSUME TasksAreSpared == Numerical /\ Convertible
=============================================================================
