SPECIFICATION RestartSpec
CONSTANTS
  Queue = {q1, q2}
  Size = 3
  none = none
  MaxRestarts = 1
INVARIANT
  RestartSafe
PROPERTY
  RetryEndsUnlessFull
CHECK_DEADLOCK FALSE
