SPECIFICATION Spec
CONSTANTS
  MaxLength = 15
  LongLimit = 8388608
  MaxPrefixes = 0
  PageSize = 32
  PieceSize = 128
  Reach14 = 64
  Reach19 = 128
  Reach21 = 512
  Reach26 = 512
  Literals <- MCLiterals
  First <- MCFirstAddress
  Later <- MCLater
  Fillers <- MCFillers
  Places <- MCPlaces
  CodeSize <- MCCodeSize
  RestoreSize <- MCRestoreSize
  JumpSize <- MCJumpSize
  JumpBackSize <- MCJumpBackSize
  AlignSize = 8
  None = None
INVARIANT ActsAlike
