\* Three threads in an ARM64EC build, at most two private heaps.
SPECIFICATION Spec
CONSTANTS
  Threads = {t1, t2, t3}
  ARM64EC = TRUE
  MaxHeaps = 2
  Initializing = Initializing
  Uninitializing = Uninitializing
  ProcessHeap = ProcessHeap
  Null = Null
INVARIANTS
  IInv
  ReadyAfterInit
  NoHeapLost
  NobodySuspendedInside
PROPERTY
  WaitingEnds
