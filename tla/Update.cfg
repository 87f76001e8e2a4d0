SPECIFICATION Spec
CONSTANTS
  Threads = {a, b}
  Length = 4
  Parts <- MCPartsX64
  Calls = {2, 3}
  JumpParts = 1
  TailParts = 1
  CodeIn = TRUE
  AlignSize = 8
  Null = Null
INVARIANTS NoMixture
