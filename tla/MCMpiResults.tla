---------------------------- MODULE MCMpiResults ----------------------------
(* Small instances of MpiResults for TLC.                                  *)
EXTENDS MpiResults

Plain(n) == [sn |-> n, executes |-> TRUE, parameters |-> TRUE, fragile |-> FALSE,
             missing |-> [p \in Processes |-> 0], optional |-> {}]
With(n, options) == [Plain(n) EXCEPT !.optional = options]

(* 2 shots on 3 processes leave none for the supervisor, 5 leave a         *)
(* remainder that every worker shares.  In the last setting a backend may  *)
(* fail, and a worker's that misses its 2 shots sends a message without    *)
(* elements.                                                               *)
SomeSettings == {Plain(2), With(5, {"counts", "probabilities"}), With(4, {"native"}),
                 [Plain(4) EXCEPT !.fragile = TRUE, !.missing[1] = 2]}
=============================================================================
