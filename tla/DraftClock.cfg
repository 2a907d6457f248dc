CONSTANTS
  c1 = c1
  c2 = c2
  w1 = w1
  Coordinator = {c1, c2}
  Worker = {w1}
  TotalPicks = 1
  ExpectedPicks = 1
  PlayerCount = 2
  Null = Null
  MaxPauses = 1
  MaxFaults = 3
SPECIFICATION ClockSpec
INVARIANTS ClockTypeOK ReceiptMeansJob
PROPERTY EveryTurnEnds
\* A completed draft is at rest.
CHECK_DEADLOCK FALSE
