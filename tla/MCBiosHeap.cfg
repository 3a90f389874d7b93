SPECIFICATION HeapSpec
CONSTANTS
  Room = 5
  Sizes = {2, 5}
  Requests = {0, 1, 2, 5}
  Junk <- TwoWords
INVARIANTS
  BlocksApart
  RoomIsUsed
