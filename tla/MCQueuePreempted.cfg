SPECIFICATION PreemptiveSpec
CONSTANTS
  Proc = {idle, p1, p2, p3}
  Idle = idle
  NULL = null
INVARIANT QueueIsFifo
