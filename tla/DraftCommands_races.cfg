CONSTANTS
  m1 = m1
  m2 = m2
  p1 = p1
  p2 = p2
  p3 = p3
  p4 = p4
  Member = {m1, m2}
  TeamCount = 2
  SlotMember <- MCSlotMember
  Null = Null
  Player = {p1, p2, p3, p4}
  Request = {r1, r2}
  Queueable = {p1, p2, p3, p4}
  Retiring = {p1, p2, p3, p4}
  StartSettings <- SnakeOfTwoRounds
  TicksPerSecond = 1
  MaxTime = 1
  MaxVersion = 2
SPECIFICATION Spec
INVARIANTS
  BoardHasNoGap
  RostersFillEvenly
  RepliesAreTrue
  QueuesHoldNoPickedPlayer
PROPERTIES
  AutoPickHonoursTheQueue
  RefinesBoard
SYMMETRY CallsAndPlayersAreAlike
CONSTRAINT RacesOrQueues
