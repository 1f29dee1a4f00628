SPECIFICATION Spec
CONSTANTS
  Base = 4
  Word = 1024
  XWord = 4096
  Page = 8
  LLOOK = 5
  LSTEP = 2
  SCHAIN = 3
  SLCHAIN = 2
  MAXLAZY = 7
  LONGENOUGH = 8
  HalfBits = 4
  Multiplier = 13
  Elements = 2
  FarFour = 12
  FarFive = 14
  Behaviours <- MCBehaviours
INVARIANTS RoundTrip BufferSound LoopStateFresh SourceKnown InputInOrder
PROPERTIES Finishes
