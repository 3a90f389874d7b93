SPECIFICATION FairSpec
CONSTANTS
  FrameBytes = 2
  High = {0}
  Low = {0, 1}
  CardSlots = {1}
  Swaps = {0}
INVARIANT AnswersRight
PROPERTIES
  WritesWhole
  ToldBeforeWriting
  TransferEnds
