CONSTANTS
  m1 = m1
  m2 = m2
  m3 = m3
  m4 = m4
  Member = {m1, m2, m3, m4}
  p1 = p1
  p2 = p2
  p3 = p3
  p4 = p4
  Player = {p1, p2, p3, p4}
  Request <- MCRequest
  t1 = t1
  t2 = t2
  Thread = {t1, t2}
  s1 = s1
  s2 = s2
  Server = {s1, s2}
  One <- MCOne
  Two <- MCTwo
  Deals <- MCDeals
  ReviewMode <- MCReview
  VetoThreshold = 2
  TradeLimit = 0
  Capacity = 2
  Commissioner = m4
  Null = Null
  MaxIncidents = 1
  MaxCounters = 1
  MaxCommands = 3
  Leaver = {m3}
SPECIFICATION MCSpec
INVARIANTS TradeTypeOK EveryVetoCounts
PROPERTIES OnlyTheStandingOfferMoves ResolvedStaysResolved EveryDueTradeIsResolved
CHECK_DEADLOCK FALSE
