---------------------------- MODULE MCDraftCommands ----------------------------
(***************************************************************************)
(* Small drafts for TLC.                                                   *)
(***************************************************************************)
EXTENDS DraftCommands, TLC

CONSTANTS m1, m2, p1, p2, p3, p4

MCSlotMember == <<m1, m2>>

SnakeOfTwoRounds ==
  [draftType |-> "SNAKE", rosterLimit |-> 2, pickSeconds |-> 1, allowAutoPick |-> TRUE]

\* Calls are interchangeable, and so are players.
CallsAndPlayersAreAlike == Permutations(Request) \cup Permutations(Player)

QueueRows == {row \in Member \X Player : queues[row[1]][row[2]] > 0}
CallsInFlight == {r \in Request : req[r] # Idle}

\* The clock has moved: seconds that have passed, and pauses and resumptions.
ClockSteps == now + (IF draft.status = "SCHEDULED" THEN 0 ELSE draft.version - draft.currentPick)

\* Bound: two calls race while nobody has a queue, nobody has retired and the clock stands
\* still; else one call at a time, until the second pick, meets two of: a row of a queue,
\* a retirement, a second, a pause and its end.
RacesOrQueues ==
  \/ active = Player /\ QueueRows = {} /\ ClockSteps = 0
  \/ /\ Cardinality(CallsInFlight) <= 1 /\ draft.currentPick <= TeamCount
     /\ Cardinality(QueueRows) + Cardinality(Player \ active) + ClockSteps <= 2
===============================================================================
