SPECIFICATION Spec
CONSTANTS
  Clock = 22
  Overflow = 4
  Timers = {2}
  Rates = {1, 2}
  Targets = {0, 3}
  Counts = {1}
  Modes <- SomeModes
  Late = 1
  VBlankStart = 2
  HSyncTotal = 3
  LineCycles = 7
  LineFraction = 2
INVARIANTS
  NoDrift
  IrqAsProgrammed
  BeamAgrees
PROPERTIES
  FrameHasVBlank
