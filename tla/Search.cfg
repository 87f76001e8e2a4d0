\* Nine blocks, of which any may be in use; one change by another thread.
SPECIFICATION Spec
CONSTANTS
  Minimum = 2
  Maximum = 19
  Gigabyte = 4
  Slack = 2
  Stride = 4
  SystemLowest = 10
  SystemSize = 10
  Bases <- MCBases
  Targets <- MCTargets
  MaxChanges = 1
  Null = Null
INVARIANTS
  WithinReach
  NothingMissed
PROPERTY
  SearchEnds
