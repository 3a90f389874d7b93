SPECIFICATION FairSpec
CONSTANTS
  d1 = d1
  d2 = d2
  NoDisc = NoDisc
  Discs <- TwoDiscs
  Count = 1
  Blocking = 0
  Players <- AlarmedPlayers
PROPERTY AlarmsServed
CHECK_DEADLOCK FALSE
