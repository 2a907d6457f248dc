CONSTANTS
  o = o
  a = a
  b = b
  c = c
  Person = {o, a, b, c}
  Creator = o
  MaxTeams = 3
  s1 = s1
  s2 = s2
  Server = {s1, s2}
  Null = Null
SPECIFICATION FormationSpec
INVARIANTS FormationTypeOK OrderIsTheLeague
PROPERTY StartedOrderStays
SYMMETRY Alike
\* A draft that is LIVE with no command in flight is left to DraftCommands.
CHECK_DEADLOCK FALSE
