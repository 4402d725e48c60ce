SPECIFICATION CodecSpec
CONSTANTS
  Objects <- MCObjects
  MaxObjects = 3
  Now <- MCNow
  MemoryLimit = 4
CHECK_DEADLOCK FALSE
INVARIANTS CodecTypeOK ComesBack EndsUnless
