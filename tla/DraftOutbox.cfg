CONSTANTS
  command = command
  drainA = drainA
  drainB = drainB
  A = A
  B = B
  Flush = {command, drainA, drainB}
  Process = {A, B}
  ProcessOf <- MCProcessOf
  Drainer = {drainA, drainB}
  Limit = 1
  Null = Null
  MaxRows = 3
  MaxFaults = 2
SPECIFICATION OutboxSpec
INVARIANTS
  OutboxTypeOK
  PublishedMeansDelivered
  TwiceOnlyIfDisturbed
PROPERTIES
  FirstDeliveryInOrder
  NoEventIsLost
  EveryRevisionIsShown
\* Once every row is published the outbox is at rest.
CHECK_DEADLOCK FALSE
