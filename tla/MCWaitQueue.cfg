\* Four journals, timed and untimed waits: the queue stays in step with the waiters.
CONSTANTS
  Waiter <- MCFourWaiters
  w1 = w1
  w2 = w2
  w3 = w3
  w4 = w4
  None = None
  Timeouts = {TRUE, FALSE}
SPECIFICATION Spec
\* A waiter behind a woken head that timed out is stuck (see MCWaitQueueLost).
CHECK_DEADLOCK FALSE
SYMMETRY WQSymmetry
INVARIANTS
  QueueMatchesWaiters
