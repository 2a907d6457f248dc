CONSTANTS
  m1 = m1
  m2 = m2
  Member = {m1, m2}
  p1 = p1
  p2 = p2
  p3 = p3
  p4 = p4
  Player = {p1, p2, p3, p4}
  Request <- MCRequest
  r1 = r1
  r2 = r2
  Run = {r1}
  Order <- MCOrder
  Null = Null
  Budget = 2
  Offer <- MCOffer
  RosterSize = 2
  MaxFaults = 0
SPECIFICATION MCSpec
PROPERTY AwardTakesFromNobody
CONSTRAINT FewFirstClaims
\* Managers may stop and all claims be settled.
CHECK_DEADLOCK FALSE
