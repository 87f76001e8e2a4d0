SPECIFICATION FairSpec
CONSTANTS
  Threads = {c, a, b, d, e}
  Client = c
  Initial = {c, a, b}
  Stubborn = {b}
  Room = 1
  SnapshotRoom = 3
  MaxUses = 2
  PrivateHeap = TRUE
  Null = Null
INVARIANTS IInv OthersStopped NothingHeldBetween
PROPERTIES CallsReturn
