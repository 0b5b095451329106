------------------------------ MODULE MCJobTimer ------------------------------
(* A small instance of JobTimer, and of the job queues under it, for TLC. *)
EXTENDS JobTimer

CONSTANTS t1, t2, t3, q1, q2, j1, j2

ThreeThreads == {t1, t2, t3}
TwoQueues == {q1, q2}
TwoJobs == {j1, j2}
OneStrong == {j1}
SomeDelays == {0, 1}

===============================================================================
