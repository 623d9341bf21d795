---------------------------- MODULE MCThreadPool ----------------------------
(* A small instance of ThreadPool for TLC.                                 *)
EXTENDS ThreadPool

(* Requests that grow, shrink, empty the pool, and one a caller may pass   *)
(* by mistake: the argument is an unchecked int.                           *)
SomeRequests == {-1, 0, 1, 2, 3}
=============================================================================
