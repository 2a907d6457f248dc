CONSTANTS
  r1 = r1
  r2 = r2
  RouteCall = {r1, r2}
  Null = Null
  MaxTimes = 2
  MaxCommands = 1
  MaxFaults = 3
SPECIFICATION StartSpec
PROPERTIES ScheduledDraftStarts StartsAtTheStoredTime
\* A draft that has started, or whose jobs are gone, is at rest.
CHECK_DEADLOCK FALSE
