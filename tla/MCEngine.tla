------------------------------ MODULE MCEngine ------------------------------
(***************************************************************************)
(* Engine on small instances: one case, since cases share nothing but the  *)
(* order of the queue, which decides when a job runs and not what it does. *)
(***************************************************************************)
EXTENDS Engine, TLC

CONSTANTS a1, w1, w2, q1, q2

OneCase     == {a1}
OneWorker   == {w1}
TwoWorkers  == {w1, w2}
NoRequests  == {}
OneRequest  == {q1}
TwoRequests == {q1, q2}

\* Worker replicas, and callers, are interchangeable.
Interchangeable == Permutations(TwoWorkers) \cup Permutations(TwoRequests)
=============================================================================
