CONSTANTS
  b1 = b1
  b2 = b2
  b3 = b3
  b4 = b4
  b5 = b5
  k1 = k1
  k2 = k2
  k3 = k3
  none = none
  Block = {b1, b2, b3, b4, b5}
  Bucket = {k1, k2, k3}
  BucketOf <- MCBucketOf
  Depth = 4
  N = 6
  Wrap = 7
  NoSource = 4
  Beats = 2
  DmaDepth = 2
  Round = 3
  Limit <- MCLimit
  Kinds <- MCKinds
  LineBeats = 2
  NetDepth = 1
  LoopDepth = 4
  NoMsg = none
SPECIFICATION CardSpec
INVARIANTS DirTypeOK DirConsistent Joined NoStaleEntry LocksMatch DmaInOrder NetSound
PROPERTIES TransientCloses TransientEnds RetryEnds Served Delivered
CHECK_DEADLOCK FALSE
