SPECIFICATION Spec
CONSTANTS
  Content <- MCContent
  Archives <- MCArchives
  CHUNK = 2
  MaxFaults = 1
  MaxStale = 3
INVARIANTS OutputReadable EntriesKept FixedPoint
PROPERTY Adjusts
CHECK_DEADLOCK FALSE
