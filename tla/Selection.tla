------------------------------ MODULE Selection ------------------------------
(* What several modules take out of a sequence or a set.                     *)
EXTENDS Integers, SequencesExt

(* The elements of a sequence that are in a set, in order.                   *)
Among(seq, S) == FlattenSeq([i \in DOMAIN seq |-> IF seq[i] \in S THEN <<seq[i]>> ELSE <<>>])

(* The elements of a finite set of numbers, each once, the lowest first.     *)
Ascending(S) ==
  CHOOSE s \in [1 .. Cardinality(S) -> S] : \A i \in DOMAIN s : \A j \in 1 .. i - 1 : s[j] < s[i]
=============================================================================
