SPECIFICATION Spec
CONSTANTS
  d1 = d1
  d2 = d2
  NoDisc = NoDisc
  Discs <- TwoDiscs
  Count = 3
  Blocking = 1
  Players <- SafetyPlayers
SYMMETRY DiscSymmetry
INVARIANTS
  OldestServed
  CleanExit
  SaveAfterQuiet
CHECK_DEADLOCK FALSE
