CONSTANTS
  c1 = c1
  c2 = c2
  w1 = w1
  Coordinator = {c1}
  Worker = {w1}
  TotalPicks = 2
  ExpectedPicks = 3
  PlayerCount = 2
  Null = Null
  MaxPauses = 1
  MaxFaults = 0
SPECIFICATION ClockSpec
INVARIANT FullBoardIsComplete
