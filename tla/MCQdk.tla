------------------------------- MODULE MCQdk -------------------------------
\* Instances of Qdk for TLC: sessions that share one device, with and without
\* exclusive access, and one that only prepares its circuit.
EXTENDS Qdk, TLC
CONSTANTS c1, c2

Runs(exclusive, n) == [exclusive_access |-> exclusive, execute_circuit |-> TRUE, calls |-> n]
Prepares == [exclusive_access |-> TRUE, execute_circuit |-> FALSE, calls |-> 1]
MCSettings == {c1 :> Runs(TRUE, 1) @@ c2 :> Runs(FALSE, 1), c1 :> Runs(FALSE, 2) @@ c2 :> Prepares}
PlainSettings == {c1 :> Runs(FALSE, 1)}
============================================================================
