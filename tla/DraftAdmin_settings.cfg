CONSTANTS
  m1 = m1
  m2 = m2
  Member = {m1, m2}
  TeamCount = 2
  SlotMember <- MCSlotMember
  Null = Null
  Player = {p1, p2, p3}
  Request = {r1}
  Queueable = {}
  Retiring = {}
  StartSettings <- OneRound
  OtherSettings <- OneLongerRound
  ScheduleCall = {}
  Repairer = {}
  LegacyRows = {}
  BoardTeams = 6
  BoardRounds = 5
  TicksPerSecond = 2
  MaxTime = 8
  MaxVersion = 5
SPECIFICATION AdminSpec
INVARIANTS
  TypeOK
  ClockAgreesWithStatus
  OutboxFollowsTheClock
  SlotFollowsBoard
PROPERTIES
  TurnIsNeverProlonged
  ExpiryTakesOnlyItsOwnTurn
SYMMETRY PlayersAreAlike
