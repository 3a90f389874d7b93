SPECIFICATION FairSpec
CONSTANTS
  BufferLen = 6
  Threshold = 1
  Rows = 2
  Programs <- Triples
  MaxPackets = 4
  BlockUnits = 3
  MaxBlocks = 3
INVARIANTS
  DrawsStream
  ListRestored
  BlocksInOrder
PROPERTIES
  TransfersTold
