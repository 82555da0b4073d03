\* Timed and untimed waits: a woken head whose deadline expires takes the
\* wake-up with it, and an untimed waiter behind it stays on a free lock.
CONSTANTS
  Waiter <- MCWaiter
  w1 = w1
  w2 = w2
  w3 = w3
  w4 = w4
  None = None
  Timeouts = {TRUE, FALSE}
SPECIFICATION Spec
PROPERTIES
  WaiterWakes
\* The waiter left behind has nothing it may do: that is the finding.
CHECK_DEADLOCK FALSE
