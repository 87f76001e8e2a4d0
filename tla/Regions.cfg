SPECIFICATION Spec
CONSTANTS
  Places = {1, 3}
  Units = 5
  Gigabyte = 7
  Requests <- MCRequests
  MaxOps = 3
  MaxLeaks = 2
  Null = Null
INVARIANTS IInv FreeListsExact InReach
PROPERTIES WritableExactlyWhileOpen NoUnusedRegionKept
