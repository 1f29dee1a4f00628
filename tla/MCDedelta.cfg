SPECIFICATION Spec
CONSTANTS
  Base = 4
  Word = 1024
  XWord = 4096
  Page = 8
  HardMaxWinsize = 64
  AllocSize = 4
  HasGetblk = FALSE
  Tables <- TableOf
  MaxFaults = 1
  Inputs <- MCInputs
  Chunks = {4, 64}
  Damages = {1}
CHECK_DEADLOCK FALSE
INVARIANTS  SectionsIntact OutputIsTarget
PROPERTIES AppliesDelta Returns
