SPECIFICATION Spec
CONSTANTS
  Threads = {a}
  Length = 4
  Parts <- MCPartsARM64
  Calls = {}
  JumpParts = 3
  TailParts = 2
  CodeIn = FALSE
  AlignSize = 8
  Null = Null
INVARIANTS NoMixture
