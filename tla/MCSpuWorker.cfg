SPECIFICATION FairSpec
CONSTANTS
  v1 = v1
  v2 = v2
  Slots = 2
  Voices <- OneVoice
  CaptureVoice = v1
  Callers <- AllCallers
  FixedUpdates = FALSE
  MayToggle = TRUE
  MaxUpdates = 4
INVARIANTS
  NoSlotClash
  PlaysMixedItems
  MixesAlone
PROPERTIES
  QueueSpec
  EveryCallReturns
