SPECIFICATION FairSpec
CONSTANTS
  Clock = 12
  Events <- ThreeEvents
  Rcnt = 2
  Arms <- CdArms
  Cancels <- CdCancels
  Delays <- SomeDelays
  MaxSlice = 3
  MaxBlock = 1
INVARIANTS
  ClockAgrees
  BoundedLateness
PROPERTY OverdueHandled
