\* Four journals waiting with no deadline: every release reaches a waiter.
CONSTANTS
  Waiter <- MCFourWaiters
  w1 = w1
  w2 = w2
  w3 = w3
  w4 = w4
  None = None
  Timeouts = {FALSE}
SPECIFICATION Spec
PROPERTIES
  WaiterWakes
