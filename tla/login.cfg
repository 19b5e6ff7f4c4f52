SPECIFICATION FairSpec
CONSTANTS
  Waiters = {w1, w2, w3}
  MaxAttempts = 3
  None = None
CHECK_DEADLOCK FALSE
INVARIANTS NoLostWakeup
PROPERTIES LoginSettles
