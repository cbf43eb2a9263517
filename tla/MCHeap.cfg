SPECIFICATION FairSpec
CONSTANTS
  HEAP_SIZE = 28
  HEADER = 3
  HEAP_ALIGN = 2
  SIZE_MOD = 64
  Request = {1, 3, 6}
INVARIANTS
  HeapTiled
  HeldSound
PROPERTY CallsReturn
