CONSTANTS
  w1 = w1
  w2 = w2
  Writers <- MCWriters
  MaxWrites = 3
  flushwallet = TRUE
  IdleCap = 3

SPECIFICATION Spec
INVARIANT FlushedWritesAreDurable
PROPERTY WritesEventuallyFlushed
