--------------------------- MODULE MCWaitQueue ---------------------------
(* Model-checking instance of WaitQueue: three or four journals on one record.   *)
EXTENDS WaitQueue, TLC

CONSTANTS w1, w2, w3, w4

MCWaiter == {w1, w2, w3}
MCFourWaiters == {w1, w2, w3, w4}

\* Journals are interchangeable.
WQSymmetry == Permutations(MCFourWaiters)
=============================================================================
