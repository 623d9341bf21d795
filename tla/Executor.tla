------------------------------ MODULE Executor ------------------------------
(***************************************************************************)
(* What a client of the thread pool may count on.  Tasks start in the      *)
(* order they were accepted, each once; at most `capacity' of them run at  *)
(* a time; a resize raises the capacity at once or lowers it gradually, by *)
(* one idle place at a time and never below the target; and the executor   *)
(* goes down either because a task failed or, after being closed, with no  *)
(* task running (tasks still pending are then dropped).                    *)
(***************************************************************************)
EXTENDS Integers, Sequences, FiniteSets

CONSTANTS Tasks, Throwing, Requests, Concurrency

VARIABLES pending, running, finished, capacity, target, open, up

vars == <<pending, running, finished, capacity, target, open, up>>

Init ==
    /\ pending = <<>>
    /\ running = {}
    /\ finished = {}
    /\ capacity = Concurrency
    /\ target = Concurrency
    /\ open = TRUE
    /\ up = TRUE

Accept(k) ==
    /\ up
    /\ k \notin running \cup finished
    /\ \A i \in DOMAIN pending : pending[i] # k
    /\ pending' = Append(pending, k)
    /\ UNCHANGED <<running, finished, capacity, target, open, up>>

Start ==
    /\ up
    /\ pending # <<>>
    /\ Cardinality(running) < capacity
    /\ running' = running \cup {Head(pending)}
    /\ pending' = Tail(pending)
    /\ UNCHANGED <<finished, capacity, target, open, up>>

Finish(k) ==
    /\ up
    /\ k \in running
    /\ running' = running \ {k}
    /\ finished' = finished \cup {k}
    /\ UNCHANGED <<pending, capacity, target, open, up>>

Resize(n) ==
    /\ up
    /\ open
    /\ target' = n
    /\ capacity' = IF n > capacity THEN n ELSE capacity
    /\ UNCHANGED <<pending, running, finished, open, up>>

Retire ==
    /\ up
    /\ capacity > target
    /\ Cardinality(running) < capacity
    /\ capacity' = capacity - 1
    /\ UNCHANGED <<pending, running, finished, target, open, up>>

Close ==
    /\ up
    /\ open' = FALSE
    /\ UNCHANGED <<pending, running, finished, capacity, target, up>>

GoDown ==
    /\ up
    /\ up' = FALSE
    /\ (~open /\ running = {}) \/ running \cap Throwing # {}
    /\ UNCHANGED <<pending, running, finished, capacity, target, open>>

Next ==
    \/ \E k \in Tasks : Accept(k) \/ Finish(k)
    \/ Start
    \/ \E n \in Requests : Resize(n)
    \/ Retire
    \/ Close
    \/ GoDown

Spec == Init /\ [][Next]_vars

=============================================================================
