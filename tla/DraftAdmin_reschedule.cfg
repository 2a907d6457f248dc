CONSTANTS
  m1 = m1
  m2 = m2
  Member = {m1, m2}
  TeamCount = 2
  SlotMember <- MCSlotMember
  Null = Null
  Player = {p1, p2}
  Request = {r1}
  Queueable = {}
  Retiring = {}
  StartSettings <- OneRound
  OtherSettings = {}
  ScheduleCall = {c1}
  Repairer = {}
  LegacyRows = {}
  BoardTeams = 1
  BoardRounds = 1
  TicksPerSecond = 1
  MaxTime = 1
  MaxVersion = 3
SPECIFICATION AdminSpec
PROPERTY OnlyPendingOrLiveIsRescheduled
