SPECIFICATION Spec
CONSTANTS
  h1 = h1
  h2 = h2
  h3 = h3
  Hooks = {h1, h2, h3}
  Layouts <- MCLayouts
  Trampolines <- MCTrampolines
  PageSize = 512
  JumpSize <- MCJumpSize
  MaxLeaks = 1
  MaxHops = 12
  MaxEvents = 8
  Pool = 120
  RemainSlot = 152
  DetourSlot = 160
  CodeIn = 168
  TrampolineSize = 192
  None = None
INVARIANTS
  LatestFirst
  MayAlwaysUnhook
  RecognisedUnlessCovered
  AllRestored
