--------------------------- MODULE MCCircuitBuilder ---------------------------
EXTENDS CircuitBuilder, TLC

MCGates == {Gate("H", <<0>>, <<>>)}
MCFree == {Gate("U", <<1>>, <<"x", "y", "x">>)}
MCPrograms == {[variables |-> <<>>, gates |-> <<Gate("fSim", <<0, 1>>, <<"number", "number">>)>>],
               [variables |-> <<"y">>, gates |-> <<Gate("Ry", <<0>>, <<"y">>)>>]}

ASSUME ProgramsAreOrderly == OrderlyPrograms

(* All calls but those whose arguments do not arrive, or that are refused.   *)
MCCalls ==
  (GateCalls \cup BlockCalls \cup AlgorithmCalls)
    \ {canonical_ae, run_canonical_ae, multiplication, controlled_multiplication, q_prime_unitary,
       module_run_canonical_ae_with_oracle}

(* Bound: the program goes on after a binding only if all there is is a block. *)
MCMapLast ==
  map = <<>> \/ (Size(Builders) <= 1 /\ \A b \in Builders : \A i \in DOMAIN meant[b] : meant[b][i].name = "block")

MCSymmetry == Permutations(Builders) \cup Permutations(Sessions)
=============================================================================
