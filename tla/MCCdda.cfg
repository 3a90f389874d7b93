SPECIFICATION Spec
CONSTANTS
  Slots = 4
  Chunk = 2
  First = 1
  Sectors = 4
  HunkSectors = 2
  Images = {"plain", "chd"}
  Starts = {1, 2}
  Reads = {0}
  Plays = 2
INVARIANTS
  
  CacheKept
PROPERTIES
  HeardInOrder
  PlaybackEnds
CHECK_DEADLOCK FALSE
