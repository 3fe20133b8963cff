------------------------------- MODULE MCWorkers -------------------------------
(* Small instances of PriorityQueue and WorkerMetrics for TLC. *)
EXTENDS WorkerMetrics

CONSTANTS i1, i2
TwoItems == {i1, i2}
TwoPriorities == {1, 250}
ShortAndLong == {3, 40}
=============================================================================
