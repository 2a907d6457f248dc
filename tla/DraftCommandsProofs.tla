------------------------- MODULE DraftCommandsProofs -------------------------
(***************************************************************************)
(* Theorems about the order arithmetic and the durable draft, for every    *)
(* number of teams, rounds, players, calls in flight, and every clock: the *)
(* board; the members' queues; what a pick call may still rely on when it  *)
(* commits, however long ago it read the draft; what its caller is told;   *)
(* and that each step of DraftCommands is a step of DraftBoard or leaves   *)
(* the board as it was.                                                    *)
(***************************************************************************)
EXTENDS DraftCommands, FiniteSetTheorems, WellFoundedInduction, SequenceTheorems, TLAPS

-------------------------------------------------------------------------------
(* The order arithmetic *)

\* Division of a pick number by the number of teams: the quotient and the
\* remainder that the rounding up of Round and the index of PickIndex share.
LEMMA PickDivision ==
  ASSUME NEW overall \in Nat \ {0}, NEW teamCount \in Nat \ {0}
  PROVE  /\ PickIndex(overall, teamCount) \in 0..(teamCount - 1)
         /\ Round(overall, teamCount) = (overall - 1) \div teamCount + 1
         /\ Round(overall, teamCount) \in Nat \ {0}
         /\ overall - 1 = ((overall - 1) \div teamCount) * teamCount
                            + PickIndex(overall, teamCount)
PROOF
  <1> DEFINE q == (overall - 1) \div teamCount
             x == (overall - 1) % teamCount
  <1>1. /\ q \in Int /\ x \in 0..(teamCount - 1)
        /\ overall - 1 = q * teamCount + x
    BY SMT
  <1>2. q >= 0
    BY <1>1, SMT
  <1>3. overall + teamCount - 1 = (q + 1) * teamCount + x
    BY <1>1, SMT
  <1>4. (overall + teamCount - 1) \div teamCount = q + 1
    BY <1>1, <1>3, SMT
  <1> QED BY <1>1, <1>2, <1>4 DEF Round, PickIndex

\* getDraftPickCoordinate always names a slot of the draft: calculateTurn can
\* only fail to find it when the stored order itself has a hole.
THEOREM SlotInRange ==
  ASSUME NEW type \in DraftType, NEW overall \in Nat \ {0}, NEW teamCount \in Nat \ {0}
  PROVE  Slot(type, overall, teamCount) \in 1..teamCount
PROOF
  <1>1. PickIndex(overall, teamCount) \in 0..(teamCount - 1)
    BY PickDivision
  <1> QED BY <1>1, SMT DEF Slot

\* Two different picks of one round never belong to the same slot, so no member
\* is on the clock twice in a round.
THEOREM SlotOncePerRound ==
  ASSUME NEW type \in DraftType, NEW teamCount \in Nat \ {0},
         NEW a \in Nat \ {0}, NEW b \in Nat \ {0},
         Round(a, teamCount) = Round(b, teamCount),
         Slot(type, a, teamCount) = Slot(type, b, teamCount)
  PROVE  a = b
PROOF
  <1> DEFINE qa == (a - 1) \div teamCount
             qb == (b - 1) \div teamCount
             xa == PickIndex(a, teamCount)
             xb == PickIndex(b, teamCount)
  <1>1. IsReverse(type, a, teamCount) = IsReverse(type, b, teamCount)
    BY DEF IsReverse
  <1>2. /\ xa \in 0..(teamCount - 1) /\ Round(a, teamCount) = qa + 1 /\ a - 1 = qa * teamCount + xa
        /\ xb \in 0..(teamCount - 1) /\ Round(b, teamCount) = qb + 1 /\ b - 1 = qb * teamCount + xb
    BY PickDivision
  <1>3. xa = xb
    BY <1>1, <1>2, SMT DEF Slot
  <1>4. qa \in Int /\ qb \in Int
    BY SMT
  <1> HIDE DEF qa, qb, xa, xb
  <1>5. qa + 1 = qb + 1
    BY <1>2
  <1>6. qa = qb
    BY <1>4, <1>5, SMT
  <1>7. a - 1 = b - 1
    BY <1>2, <1>3, <1>6
  <1> QED BY <1>7, SMT

-------------------------------------------------------------------------------
(* The board written out round by round *)

\* A set of numbers that is not empty has a least one.
LEMMA LeastOf ==
  ASSUME NEW S \in SUBSET Nat, S # {}
  PROVE  \E least \in S : \A n \in S : least <= n
PROOF
  <1> DEFINE Less == { pair \in Nat \X Nat : pair[1] < pair[2] }
  <1>1. IsWellFoundedOn(Less, Nat)
    BY NatLessThanWellFounded DEF OpToRel
  <1>2. PICK least \in S : \A n \in S : <<n, least>> \notin Less
    <2> HIDE DEF Less
    <2> QED BY <1>1, WFMin
  <1>3. ASSUME NEW n \in S PROVE ~(n < least)
    <2>1. n \in Nat /\ least \in Nat /\ <<n, least>> \in Nat \X Nat
      OBVIOUS
    <2>2. <<n, least>>[1] = n /\ <<n, least>>[2] = least
      OBVIOUS
    <2> QED BY <1>2, <2>1, <2>2, Zenon
  <1> QED BY <1>3

\* Induction over the naturals, for a set in the place of a predicate.
LEMMA NatSetInduction ==
  ASSUME NEW S, 0 \in S, \A n \in Nat : n \in S => n + 1 \in S
  PROVE  Nat \subseteq S
PROOF
  <1> SUFFICES ASSUME Nat \ S # {} PROVE FALSE
    OBVIOUS
  <1>1. PICK least \in Nat \ S : \A n \in Nat \ S : least <= n
    <2>1. Nat \ S \in SUBSET Nat
      OBVIOUS
    <2> QED BY <2>1, LeastOf
  <1>2. least - 1 \in Nat /\ (least - 1) + 1 = least
    BY <1>1
  <1>3. least - 1 \in S
    BY <1>1, <1>2
  <1> QED BY <1>1, <1>2, <1>3

\* A place within a round, as a pick of the whole draft.
LEMMA PickOfRound ==
  ASSUME NEW type \in DraftType, NEW teamCount \in Nat \ {0}, NEW round \in Nat \ {0},
         NEW i \in 1..teamCount, NEW overall, overall = teamCount * (round - 1) + i
  PROVE  overall \in Nat \ {0} /\ Slot(type, overall, teamCount) = RoundOrder(type, teamCount, round)[i]
PROOF
  <1> DEFINE q == round - 1
  <1>1. teamCount * q \in Nat /\ q \in Nat
    BY SMT
  <1>2. overall \in Nat \ {0}
    BY <1>1
  <1>3. overall - 1 = teamCount * q + (i - 1) /\ i - 1 \in 0..(teamCount - 1)
    BY <1>1
  <1>4. (overall - 1) \div teamCount = q /\ PickIndex(overall, teamCount) = i - 1
    BY <1>1, <1>3, SMT DEF PickIndex
  <1>5. Round(overall, teamCount) = round
    BY <1>2, <1>4, PickDivision
  <1>6. CASE type = "SNAKE" /\ round % 2 = 0
    BY <1>2, <1>4, <1>5, <1>6 DEF Slot, IsReverse, RoundOrder
  <1>7. CASE ~(type = "SNAKE" /\ round % 2 = 0)
    BY <1>2, <1>4, <1>5, <1>7 DEF Slot, IsReverse, RoundOrder
  <1> QED BY <1>6, <1>7

\* The slots of the first picks of a draft.
SlotsUpTo(type, teamCount, n) == [overall \in 1..n |-> Slot(type, overall, teamCount)]

\* One more round goes at the end of them.
LEMMA OneRoundMore ==
  ASSUME NEW type \in DraftType, NEW teamCount \in Nat \ {0}, NEW round \in Nat \ {0}
  PROVE  SlotsUpTo(type, teamCount, teamCount * round)
           = SlotsUpTo(type, teamCount, teamCount * (round - 1)) \o RoundOrder(type, teamCount, round)
PROOF
  <1> DEFINE m == teamCount * (round - 1)
             n == teamCount * round
             before == SlotsUpTo(type, teamCount, m)
             order == RoundOrder(type, teamCount, round)
             all == SlotsUpTo(type, teamCount, n)
  <1>1. m \in Nat /\ n \in Nat /\ n = m + teamCount
    BY SMT
  <1>2. \A overall \in Nat \ {0} : Slot(type, overall, teamCount) \in 1..teamCount
    BY SlotInRange
  <1>3. \A i \in 1..teamCount : Slot(type, m + i, teamCount) = order[i]
    BY PickOfRound
  <1>4. order \in [1..teamCount -> 1..teamCount]
    BY DEF RoundOrder
  <1> HIDE DEF m, n, order
  <1>5. before \in [1..m -> 1..teamCount] /\ all \in [1..n -> 1..teamCount]
    BY <1>1, <1>2 DEF SlotsUpTo
  <1>6. before \in Seq(1..teamCount) /\ order \in Seq(1..teamCount)
    <2>1. \A k \in Nat : [1..k -> 1..teamCount] \subseteq Seq(1..teamCount)
      BY SeqDef, SMT
    <2> HIDE DEF before, all
    <2> QED BY <1>1, <1>4, <1>5, <2>1
  <1>7. Len(before) = m /\ Len(order) = teamCount
    BY <1>1, <1>4, <1>5, <1>6, LenProperties
  <1>8. ASSUME NEW overall \in 1..n
        PROVE  all[overall] = (before \o order)[overall]
    <2>1. all[overall] = Slot(type, overall, teamCount)
      BY <1>8 DEF SlotsUpTo
    <2>2. CASE overall <= m
      <3>1. overall \in 1..m
        BY <1>1, <2>2
      <3>2. before[overall] = Slot(type, overall, teamCount)
        BY <3>1 DEF SlotsUpTo
      <3> HIDE DEF before, all
      <3> QED BY <1>6, <1>7, <2>1, <3>1, <3>2, ConcatProperties, <1>1
    <2>3. CASE ~(overall <= m)
      <3>1. overall - m \in 1..teamCount /\ m + (overall - m) = overall
        BY <1>1, <2>3
      <3>2. order[overall - m] = Slot(type, overall, teamCount)
        BY <1>3, <3>1
      <3> HIDE DEF before, all
      <3> QED BY <1>1, <1>6, <1>7, <2>1, <2>3, <3>1, <3>2, ConcatProperties
    <2> QED BY <2>2, <2>3
  <1> HIDE DEF before, all
  <1>9. (before \o order) \in [1..n -> 1..teamCount]
    <2>1. before \o order \in Seq(1..teamCount) /\ Len(before \o order) = n
      BY <1>1, <1>6, <1>7, ConcatProperties
    <2> QED BY <2>1, LenProperties
  <1>10. all = before \o order
    <2>1. all = [overall \in 1..n |-> all[overall]]
      BY <1>5
    <2>2. before \o order = [overall \in 1..n |-> (before \o order)[overall]]
      BY <1>9
    <2> QED BY <1>8, <2>1, <2>2, Zenon
  <1> QED BY <1>10 DEF all, before, m, n, order

\* getDraftPickCoordinate names, for every overall pick of every draft, the slot that the
\* board has at that place when it is written out round by round, however many teams and
\* rounds there are: the rounding up, the remainder and the turn at the end of a snake round
\* are right.
THEOREM BoardIsFollowed ==
  ASSUME NEW type \in DraftType, NEW teamCount \in Nat \ {0}, NEW rounds \in Nat
  PROVE  BoardOrder(type, teamCount, rounds)
           = [overall \in 1..(teamCount * rounds) |-> Slot(type, overall, teamCount)]
PROOF
  <1> DEFINE Laid(f, r) == IF r = 0 THEN << >> ELSE f[r - 1] \o RoundOrder(type, teamCount, r)
             IsBoard(f) == f = [r \in Nat |-> Laid(f, r)]
             order == CHOOSE f : IsBoard(f)
             slots == [r \in Nat |-> SlotsUpTo(type, teamCount, teamCount * r)]
  <1>1. BoardOrder(type, teamCount, rounds) = order[rounds]
    BY Zenon DEF BoardOrder
  <1>2. slots[0] = << >>
    BY DEF SlotsUpTo
  <1>3. \A r \in Nat \ {0} : slots[r] = slots[r - 1] \o RoundOrder(type, teamCount, r)
    BY OneRoundMore
  <1>4. IsBoard(slots)
    <2>1. \A r \in Nat : slots[r] = Laid(slots, r)
      BY <1>2, <1>3
    <2>2. slots = [r \in Nat |-> slots[r]]
      OBVIOUS
    <2> HIDE DEF slots, Laid
    <2> QED BY <2>1, <2>2
  <1>5. IsBoard(order)
    <2> HIDE DEF IsBoard, slots
    <2> QED BY <1>4
  <1>6. order = [r \in Nat |-> Laid(order, r)]
    <2> HIDE DEF order, Laid
    <2> QED BY <1>5
  <1> HIDE DEF order, slots
  <1>7. order[0] = << >> /\ \A r \in Nat \ {0} : order[r] = order[r - 1] \o RoundOrder(type, teamCount, r)
    BY <1>6
  <1> DEFINE S == {r \in Nat : order[r] = slots[r]}
  <1>8. 0 \in S
    BY <1>2, <1>7
  <1>9. ASSUME NEW r \in Nat, r \in S
        PROVE  r + 1 \in S
    <2>1. r + 1 \in Nat \ {0} /\ (r + 1) - 1 = r
      OBVIOUS
    <2> QED BY <1>3, <1>7, <1>9, <2>1
  <1>10. Nat \subseteq S
    <2> HIDE DEF S
    <2> QED BY <1>8, <1>9, NatSetInduction
  <1>11. order[rounds] = slots[rounds]
    BY <1>10
  <1> QED BY <1>1, <1>11 DEF slots, SlotsUpTo

-------------------------------------------------------------------------------
(* The durable draft *)

CommandEvent ==
  {"draft:started", "draft:paused", "draft:resumed", "draft:pick-made",
   "draft:auto-pick", "draft:completed"}

EventName == CommandEvent \cup {"draft:clock-repaired"}

\* A call knows its kind, and one that has read the draft holds what it read and what
\* it chose.
Holds(c) ==
  /\ c.phase # "idle" => c.kind \in {"make", "auto", "expire"}
  /\ c.phase \in {"running", "reread"} => c.seen \in SnapshotRow /\ c.choice \in Player

CallsHoldTheirSnapshot == \A r \in Request : Holds(req[r])

TypeInv == TypeOK /\ CallsHoldTheirSnapshot

USE TeamsAssumption, PoolAssumption, SettingsAssumption, NullAssumption

-------------------------------------------------------------------------------
(* The values the helpers return *)

\* The turn of any pick number is well defined: there is a member for the slot.
LEMMA TurnIsDefined ==
  ASSUME NEW s \in Settings, NEW k \in Nat \ {0}
  PROVE  /\ Slot(s.draftType, k, TeamCount) \in 1..TeamCount
         /\ calculateDraftTurn(s, k) \in Member
         /\ Round(k, TeamCount) \in Nat \ {0}
         /\ Direction(s.draftType, k, TeamCount) \in {"FORWARD", "REVERSE"}
PROOF
  <1>1. s.draftType \in DraftType
    BY DEF Settings
  <1>2. Slot(s.draftType, k, TeamCount) \in 1..TeamCount
    BY <1>1, SlotInRange
  <1>3. Round(k, TeamCount) \in Nat \ {0}
    BY PickDivision
  <1> QED BY <1>2, <1>3 DEF calculateDraftTurn, Direction

\* A pause stores a natural number of seconds, whatever the clock says.
LEMMA CeilSecondsType ==
  ASSUME NEW ticks \in Int
  PROVE  CeilSeconds(ticks) \in Nat
PROOF
  <1>1. TicksPerSecond \in Nat \ {0}
    OBVIOUS
  <1>2. CASE ticks <= 0
    BY <1>2 DEF CeilSeconds
  <1>3. CASE ticks > 0
    <2>1. ticks + TicksPerSecond - 1 \in Nat
      BY <1>1, <1>3
    <2>2. (ticks + TicksPerSecond - 1) \div TicksPerSecond \in Nat
      BY <1>1, <2>1, SMT
    <2> QED BY <1>3, <2>2 DEF CeilSeconds
  <1> QED BY <1>2, <1>3

LEMMA DeadlineType ==
  ASSUME NEW from \in Nat, NEW seconds \in Nat
  PROVE  buildPickDeadline(from, seconds) \in Nat
PROOF
  <1>1. seconds * TicksPerSecond \in Nat
    BY SMT
  <1> QED BY <1>1, SMT DEF buildPickDeadline

LEMMA RunClockType ==
  ASSUME NEW row \in DraftRow, NEW seconds \in Nat, now \in Nat
  PROVE  /\ seconds # 0 => RunClock(row, seconds) \in DraftRow
         /\ \A d \in Nat \ {0} : [RunClock(row, seconds) EXCEPT !.clockDuration = d] \in DraftRow
PROOF
  <1>1. buildPickDeadline(now, seconds) \in Int /\ now \in Int
    BY DeadlineType
  <1> QED BY <1>1 DEF RunClock, DraftRow, OrNull

LEMMA StopClockType ==
  ASSUME NEW row \in DraftRow, NEW remaining \in Nat \cup {Null}
  PROVE  StopClock(row, remaining) \in DraftRow
BY DEF StopClock, DraftRow, OrNull

\* A clock transition keeps the row and the outbox well formed.
LEMMA TransitionType ==
  ASSUME TypeOK, NEW row \in DraftRow, NEW names \in Seq(EventName),
         transitionDraftClock(row, names)
  PROVE  draft' \in DraftRow /\ outbox' \subseteq DraftEvent
PROOF
  <1> DEFINE version == draft.version + 1
  <1>1. draft.version \in Nat /\ draft.eventSequence \in Nat /\ Len(names) \in Nat
    BY DEF TypeOK, DraftRow
  <1>2. version \in Nat \ {0} /\ draft.eventSequence + Len(names) \in Nat
    BY <1>1, SMT
  <1>3. draft' = [row EXCEPT !.version = version,
                             !.eventSequence = draft.eventSequence + Len(names)]
    BY DEF transitionDraftClock
  <1>4. draft' \in DraftRow
    BY <1>2, <1>3 DEF DraftRow
  <1>5. createDraftEvents(names, version) \subseteq DraftEvent
    <2> SUFFICES ASSUME NEW i \in DOMAIN names
                 PROVE  [sequence |-> draft.eventSequence + i, event |-> names[i],
                         revision |-> IF i = Len(names) THEN version ELSE Null] \in DraftEvent
      BY DEF createDraftEvents
    <2>1. i \in 1..Len(names) /\ names[i] \in EventName
      BY SMT
    <2>2. draft.eventSequence + i \in Nat \ {0}
      BY <1>1, <2>1, SMT
    <2> QED BY <1>2, <2>1, <2>2, SMT DEF DraftEvent, EventName, CommandEvent, OrNull
  <1>6. outbox' = outbox \cup createDraftEvents(names, version)
    BY DEF transitionDraftClock
  <1> QED BY <1>4, <1>5, <1>6 DEF TypeOK

\* Writing a list back gives every player of it a rank.
LEMMA RenumberedType ==
  ASSUME NEW queue \in Queue
  PROVE  Renumbered(queue) \in Queue
PROOF
  <1> SUFFICES ASSUME NEW p \in Player
               PROVE  Cardinality({ q \in Queued(queue) : queue[q] <= queue[p] }) \in Nat
    BY DEF Renumbered, Queue
  <1>1. { q \in Queued(queue) : queue[q] <= queue[p] } \in SUBSET Player
    BY DEF Queued
  <1>2. IsFiniteSet({ q \in Queued(queue) : queue[q] <= queue[p] })
    BY <1>1, FS_Subset
  <1> QED BY <1>2, FS_CardinalityType

LEMMA OnlyInType ==
  ASSUME NEW queue \in Queue, NEW S
  PROVE  OnlyIn(queue, S) \in Queue
BY DEF OnlyIn, Queue

LEMMA InsertedAtType ==
  ASSUME NEW queue \in Queue, NEW p \in Player, NEW at \in Nat
  PROVE  InsertedAt(queue, p, at) \in Queue
BY DEF InsertedAt, Queue

\* The list of a member after an edit is a list again.
LEMMA QueueEditType ==
  ASSUME TypeOK, NEW m \in Member, NEW queue \in Queue, replaceQueueRows(m, queue)
  PROVE  TypeOK'
PROOF
  <1>1. queues' \in [Member -> Queue]
    BY DEF TypeOK, replaceQueueRows
  <1> QED BY <1>1 DEF TypeOK, replaceQueueRows

\* The clock a pick leaves behind: that of the next turn, or none.
LEMMA NextDraftRowType ==
  ASSUME TypeOK, NEW s \in Settings
  PROVE  NextDraftRow(draft, s) \in DraftRow
PROOF
  <1> DEFINE next == [draft EXCEPT !.currentPick = draft.currentPick + 1]
             turn == [next EXCEPT !.round = Round(next.currentPick, TeamCount),
                                  !.direction = Direction(s.draftType, next.currentPick, TeamCount)]
  <1>1. draft \in DraftRow /\ now \in Nat
    BY DEF TypeOK
  <1>2. draft.currentPick \in Nat \ {0} /\ s.pickSeconds \in Nat \ {0}
    BY <1>1 DEF DraftRow, Settings
  <1>3. draft.currentPick + 1 \in Nat \ {0}
    BY <1>2
  <1>4. next \in DraftRow /\ next.currentPick \in Nat \ {0}
    BY <1>1, <1>3 DEF DraftRow
  <1>5. turn \in DraftRow
    <2>1. /\ Round(next.currentPick, TeamCount) \in Nat \ {0}
          /\ Direction(s.draftType, next.currentPick, TeamCount) \in {"FORWARD", "REVERSE"}
      BY <1>4, TurnIsDefined
    <2> HIDE DEF next
    <2> QED BY <1>4, <2>1 DEF DraftRow
  <1>6. RunClock(turn, s.pickSeconds) \in DraftRow
    BY <1>1, <1>2, <1>5, RunClockType
  <1>7. [StopClock(next, Null) EXCEPT
           !.status = "COMPLETED",
           !.clockDuration = IF @ = Null THEN s.pickSeconds ELSE @] \in DraftRow
    <2>1. StopClock(next, Null) \in DraftRow
      BY <1>4, StopClockType
    <2> HIDE DEF next
    <2> QED BY <1>2, <2>1 DEF DraftRow, DraftStatus, OrNull
  <1> HIDE DEF next
  <1> QED BY <1>6, <1>7 DEF NextDraftRow, next, turn

-------------------------------------------------------------------------------
(* The type invariant, action by action *)

LEMMA StartKeepsType ==
  ASSUME TypeOK, startDraft
  PROVE  TypeOK'
PROOF
  <1> DEFINE row == [draft EXCEPT !.status = "LIVE", !.lobby = "LIVE"]
  <1>1. row \in DraftRow /\ now \in Nat /\ settings.pickSeconds \in Nat \ {0}
    BY DEF TypeOK, DraftRow, DraftStatus, Settings
  <1>2. RunClock(row, settings.pickSeconds) \in DraftRow
    BY <1>1, RunClockType
  <1>3. <<"draft:started">> \in Seq(EventName)
    BY DEF EventName, CommandEvent
  <1>4. draft' \in DraftRow /\ outbox' \subseteq DraftEvent
    BY <1>2, <1>3, TransitionType DEF startDraft
  <1> QED BY <1>4 DEF TypeOK, startDraft

LEMMA PauseKeepsType ==
  ASSUME TypeOK, pauseDraft
  PROVE  TypeOK'
PROOF
  <1> DEFINE stopped == StopClock(draft, calculatePausedRemainingSeconds)
             row == [stopped EXCEPT !.status = "PAUSED",
                       !.clockDuration = IF @ = Null THEN settings.pickSeconds ELSE @]
  <1>1. /\ draft \in DraftRow /\ now \in Nat /\ settings.pickSeconds \in Nat \ {0}
        /\ draft.pickDeadlineAt \in Int \cup {Null}
        /\ draft.clockDuration \in (Nat \ {0}) \cup {Null}
    BY DEF TypeOK, DraftRow, OrNull, Settings
  <1>2. calculatePausedRemainingSeconds \in Nat
    <2>1. CASE draft.pickDeadlineAt = Null
      BY <1>1, <2>1 DEF calculatePausedRemainingSeconds
    <2>2. CASE draft.pickDeadlineAt # Null
      <3>1. draft.pickDeadlineAt - now \in Int
        BY <1>1, <2>2
      <3> QED BY <2>2, <3>1, CeilSecondsType DEF calculatePausedRemainingSeconds
    <2> QED BY <2>1, <2>2
  <1>3. stopped \in DraftRow
    BY <1>1, <1>2, StopClockType
  <1>4. row \in DraftRow
    <2> HIDE DEF stopped
    <2> QED BY <1>1, <1>3 DEF DraftRow, DraftStatus, OrNull
  <1>5. <<"draft:paused">> \in Seq(EventName)
    BY DEF EventName, CommandEvent
  <1>6. draft' \in DraftRow /\ outbox' \subseteq DraftEvent
    <2>1. transitionDraftClock(row, <<"draft:paused">>)
      BY DEF pauseDraft
    <2> HIDE DEF row
    <2> QED BY <1>4, <1>5, <2>1, TransitionType
  <1> QED BY <1>6 DEF TypeOK, pauseDraft

LEMMA ResumeKeepsType ==
  ASSUME TypeOK, resumeDraft
  PROVE  TypeOK'
PROOF
  <1> DEFINE remaining == IF draft.pausedRemaining # Null THEN draft.pausedRemaining
                          ELSE IF draft.clockDuration # Null THEN draft.clockDuration
                          ELSE settings.pickSeconds
             duration == IF remaining = 0 THEN 1 ELSE remaining
             live == [draft EXCEPT !.status = "LIVE"]
             row == [RunClock(live, remaining) EXCEPT !.clockDuration = duration]
  <1>1. live \in DraftRow /\ now \in Nat
    BY DEF TypeOK, DraftRow, DraftStatus
  <1>2. remaining \in Nat
    BY DEF TypeOK, DraftRow, OrNull, Settings
  <1>3. duration \in Nat \ {0}
    BY <1>2
  <1>4. row \in DraftRow
    <2> HIDE DEF live, remaining, duration
    <2> QED BY <1>1, <1>2, <1>3, RunClockType
  <1>5. <<"draft:resumed">> \in Seq(EventName)
    BY DEF EventName, CommandEvent
  <1>6. transitionDraftClock(row, <<"draft:resumed">>)
    BY DEF resumeDraft
  <1>7. draft' \in DraftRow /\ outbox' \subseteq DraftEvent
    <2> HIDE DEF row
    <2> QED BY <1>4, <1>5, <1>6, TransitionType
  <1> QED BY <1>7 DEF TypeOK, resumeDraft

\* Changing one call to a well-formed one that holds what its phase needs keeps both
\* parts of the invariant when the rows do not change.
LEMMA CallKeepsType ==
  ASSUME TypeInv, NEW r \in Request, NEW c \in PickCallState,
         req' = [req EXCEPT ![r] = c],
         Holds(c),
         UNCHANGED <<draft, settings, picks, queues, outbox, active, now>>
  PROVE  TypeInv'
PROOF
  <1>1. req' \in [Request -> PickCallState]
    BY DEF TypeInv, TypeOK
  <1>2. TypeOK'
    BY <1>1 DEF TypeInv, TypeOK
  <1>3. CallsHoldTheirSnapshot'
    BY DEF TypeInv, TypeOK, CallsHoldTheirSnapshot
  <1> QED BY <1>2, <1>3 DEF TypeInv

LEMMA IdleType == Idle \in PickCallState
BY DEF Idle, PickCallState, OrNull, MaxAttempts

LEMMA CalledType ==
  ASSUME NEW kind \in {"make", "auto", "expire"}, NEW m \in OrNull(Member),
         NEW p \in OrNull(Player), NEW v \in OrNull(Nat)
  PROVE  Called(kind, m, p, v) \in PickCallState /\ Holds(Called(kind, m, p, v))
PROOF
  <1>1. Called(kind, m, p, v) =
          [phase |-> "called", kind |-> kind, member |-> m, player |-> p, expect |-> v,
           attempt |-> 1, seen |-> Null, choice |-> Null, reply |-> Null]
    BY DEF Called
  <1>2. Called(kind, m, p, v) \in PickCallState
    BY <1>1 DEF PickCallState, OrNull, MaxAttempts
  <1>3. Called(kind, m, p, v).phase = "called" /\ Called(kind, m, p, v).kind = kind
    BY <1>1
  <1> QED BY <1>2, <1>3 DEF Holds

LEMMA PickCallKeepsType ==
  ASSUME TypeInv, NEW r \in Request, PickCall(r)
  PROVE  TypeInv'
PROOF
  <1> DEFINE Fits(c) == c \in PickCallState /\ Holds(c)
  <1>1. SUFFICES ASSUME NEW c, Fits(c), Call(r, c)
                 PROVE  TypeInv'
    <2>1. \A m \in Member, p \in Player : Fits(Called("make", m, p, Null))
      BY CalledType DEF OrNull
    <2>2. Fits(Called("auto", Null, Null, Null))
      BY CalledType DEF OrNull
    <2>3. \A v \in Nat : Fits(Called("expire", Null, Null, v))
      BY CalledType DEF OrNull
    <2>4. draft.version \in Nat
      BY DEF TypeInv, TypeOK, DraftRow
    <2>5. \A v \in 0..draft.version : v \in Nat
      BY <2>4
    <2> HIDE DEF Fits
    <2> QED BY <1>1, <2>1, <2>2, <2>3, <2>5 DEF PickCall, makePick, autoPick, expirePick
  <1> QED BY <1>1, CallKeepsType DEF Call

\* Whatever the checks admit is a player.
LEMMA AdmittedArePlayers ==
  ASSUME TypeOK, NEW r \in Request
  PROVE  Admitted(req[r]) \subseteq Player
PROOF
  <1>1. \A m : AutoChoice(m) \subseteq Player
    BY DEF AutoChoice, Queued, Available, TypeOK
  <1>2. active \subseteq Player
    BY DEF TypeOK
  <1> QED BY <1>1, <1>2 DEF Admitted

LEMMA AnswerType ==
  ASSUME TypeInv, NEW r \in Request,
         NEW reply \in Reply
  PROVE  /\ [req[r] EXCEPT !.phase = "done", !.seen = Null, !.reply = reply] \in PickCallState
         /\ Answer(r, reply) =
              [req EXCEPT ![r] = [req[r] EXCEPT !.phase = "done", !.seen = Null, !.reply = reply]]
PROOF
  <1>1. req[r] \in PickCallState /\ req \in [Request -> PickCallState]
    BY DEF TypeInv, TypeOK
  <1>2. [req[r] EXCEPT !.phase = "done", !.seen = Null, !.reply = reply] \in PickCallState
    BY <1>1 DEF PickCallState, OrNull
  <1>3. Answer(r, reply) =
          [req EXCEPT ![r] = [req[r] EXCEPT !.phase = "done", !.seen = Null, !.reply = reply]]
    BY <1>1 DEF Answer, PickCallState
  <1> QED BY <1>2, <1>3

\* A reply without a commit changes nothing but the call.
LEMMA AnswerKeepsType ==
  ASSUME TypeInv, NEW r \in Request,
         NEW reply \in Reply,
         req[r].phase # "idle", req' = Answer(r, reply),
         UNCHANGED <<draft, settings, picks, queues, outbox, active, now>>
  PROVE  TypeInv'
PROOF
  <1> DEFINE c == [req[r] EXCEPT !.phase = "done", !.seen = Null, !.reply = reply]
  <1>1. c \in PickCallState /\ req' = [req EXCEPT ![r] = c]
    BY AnswerType
  <1>2. Holds(c)
    BY DEF TypeInv, TypeOK, PickCallState, CallsHoldTheirSnapshot, Holds
  <1> HIDE DEF c
  <1> QED BY <1>1, <1>2, CallKeepsType

LEMMA ReadKeepsType ==
  ASSUME TypeInv, NEW r \in Request, ReadDraft(r)
  PROVE  TypeInv'
PROOF
  <1>1. CASE Admitted(req[r]) = {}
    <2>1. req' = Answer(r, "refused")
      BY <1>1 DEF ReadDraft
    <2> QED BY <2>1, AnswerKeepsType DEF ReadDraft, Reply
  <1>2. CASE Admitted(req[r]) # {}
    <2>1. PICK p \in Admitted(req[r]) :
            req' = [req EXCEPT ![r].phase = "running", ![r].choice = p,
                               ![r].seen = Snapshot(req[r].kind)]
      BY <1>2 DEF ReadDraft
    <2> DEFINE c == [req[r] EXCEPT !.phase = "running", !.choice = p, !.seen = Snapshot(req[r].kind)]
    <2>2. /\ req[r] \in PickCallState /\ req \in [Request -> PickCallState]
          /\ draft \in DraftRow /\ settings \in Settings /\ queues \in [Member -> Queue]
      BY DEF TypeInv, TypeOK
    <2>3. p \in Player
      BY AdmittedArePlayers DEF TypeInv
    <2>4. req[r].kind \in {"make", "auto", "expire"}
      BY <2>2 DEF ReadDraft, TypeInv, CallsHoldTheirSnapshot, Holds, PickCallState, OrNull
    <2>5. Snapshot(req[r].kind) \in SnapshotRow
      <3>1. draft.currentPick \in Nat \ {0}
        BY <2>2 DEF DraftRow
      <3>2. queues[calculateDraftTurn(settings, draft.currentPick)] \in Queue
        BY <2>2, <3>1, TurnIsDefined
      <3>3. NoQueue \in Queue
        BY DEF NoQueue, Queue
      <3> QED BY <2>2, <3>2, <3>3 DEF Snapshot, SnapshotRow
    <2>7. c \in PickCallState
      BY <2>2, <2>3, <2>5 DEF PickCallState, OrNull
    <2>8. Holds(c)
      BY <2>2, <2>3, <2>4, <2>5 DEF Holds, PickCallState
    <2>9. req' = [req EXCEPT ![r] = c]
      BY <2>1, <2>2 DEF PickCallState
    <2> HIDE DEF c
    <2> QED BY <2>7, <2>8, <2>9, CallKeepsType DEF ReadDraft
  <1> QED BY <1>1, <1>2

LEMMA CommitKeepsType ==
  ASSUME TypeInv, NEW r \in Request, CommitPick(r)
  PROVE  TypeInv'
PROOF
  <1> DEFINE s == req[r].seen.settings
             p == req[r].choice
             row == PickRow(s, draft.currentPick, p, req[r].kind # "make")
             c == [req[r] EXCEPT !.phase = "done", !.seen = Null, !.reply = "ok"]
  <1>1. /\ draft \in DraftRow /\ draft.currentPick \in Nat \ {0}
        /\ queues \in [Member -> Queue] /\ req \in [Request -> PickCallState]
    BY DEF TypeInv, TypeOK, DraftRow
  <1>2. s \in Settings /\ p \in Player
    BY DEF CommitPick, TypeInv, CallsHoldTheirSnapshot, Holds, SnapshotRow
  <1>3. row \in Pick
    <2>1. (req[r].kind # "make") \in BOOLEAN
      OBVIOUS
    <2> HIDE DEF s, p
    <2> QED BY <1>1, <1>2, <2>1, TurnIsDefined DEF PickRow, Pick
  <1>4. picks' \subseteq Pick
    BY <1>3 DEF CommitPick, TypeInv, TypeOK
  <1>5. queues' \in [Member -> Queue]
    <2>1. queues' = [m \in Member |-> WithoutPlayer(queues[m], p)]
      BY <1>1 DEF CommitPick, removePlayerFromAllDraftQueues
    <2>2. \A m \in Member : WithoutPlayer(queues[m], p) \in Queue
      BY <1>1, OnlyInType DEF WithoutPlayer
    <2> QED BY <2>1, <2>2
  <1>6. draft' \in DraftRow /\ outbox' \subseteq DraftEvent
    <2>1. NextDraftRow(draft, s) \in DraftRow
      BY <1>2, NextDraftRowType DEF TypeInv
    <2>2. PickEvents(r) \in Seq(EventName)
      <3>1. << IF req[r].kind = "make" THEN "draft:pick-made" ELSE "draft:auto-pick" >> \in Seq(EventName)
        BY DEF EventName, CommandEvent
      <3>2. (IF IsComplete(req[r].seen.settings, draft.currentPick) THEN <<"draft:completed">> ELSE <<>>)
              \in Seq(EventName)
        <4>1. <<"draft:completed">> \in Seq(EventName) /\ <<>> \in Seq(EventName)
          BY DEF EventName, CommandEvent
        <4> QED BY <4>1
      <3> QED BY <3>1, <3>2 DEF PickEvents
    <2>3. transitionDraftClock(NextDraftRow(draft, s), PickEvents(r))
      BY DEF CommitPick
    <2> QED BY <2>1, <2>2, <2>3, TransitionType DEF TypeInv
  <1>7. c \in PickCallState /\ req' = [req EXCEPT ![r] = c]
    BY AnswerType DEF CommitPick, Reply
  <1>8. Holds(c)
    BY <1>1 DEF CommitPick, TypeInv, CallsHoldTheirSnapshot, Holds, PickCallState
  <1> HIDE DEF c
  <1>9. req' \in [Request -> PickCallState] /\ CallsHoldTheirSnapshot'
    BY <1>1, <1>7, <1>8 DEF TypeInv, CallsHoldTheirSnapshot
  <1> QED BY <1>4, <1>5, <1>6, <1>9 DEF TypeInv, TypeOK, CommitPick

LEMMA PickStepKeepsType ==
  ASSUME TypeInv, NEW r \in Request, PickStep(r)
  PROVE  TypeInv'
PROOF
  <1>1. req \in [Request -> PickCallState] /\ req[r] \in PickCallState /\ Holds(req[r])
    BY DEF TypeInv, TypeOK, CallsHoldTheirSnapshot
  <1>2. CASE ReadDraft(r)
    BY <1>2, ReadKeepsType
  <1>3. CASE CommitPick(r)
    BY <1>3, CommitKeepsType
  <1>4. CASE SlotTaken(r)
    <2> DEFINE c == [req[r] EXCEPT !.phase = "reread"]
    <2>1. c \in PickCallState /\ Holds(c) /\ req' = [req EXCEPT ![r] = c]
      BY <1>1, <1>4 DEF SlotTaken, PickCallState, Holds
    <2> HIDE DEF c
    <2> QED BY <1>4, <2>1, CallKeepsType DEF SlotTaken
  <1>5. CASE SerializationFailure(r)
    <2>1. CASE req[r].attempt = MaxAttempts
      <3>1. req' = Answer(r, "error") /\ req[r].phase # "idle"
        BY <1>5, <2>1 DEF SerializationFailure
      <3> QED BY <1>5, <3>1, AnswerKeepsType DEF SerializationFailure, Reply
    <2>2. CASE req[r].attempt # MaxAttempts
      <3> DEFINE c == [req[r] EXCEPT !.phase = "called", !.attempt = @ + 1,
                                     !.seen = Null, !.choice = Null]
      <3>1. req[r].attempt + 1 \in 0..MaxAttempts
        <4>1. req[r].attempt \in 0..MaxAttempts
          BY <1>1 DEF PickCallState
        <4> QED BY <2>2, <4>1, SMT DEF MaxAttempts
      <3>2. c \in PickCallState
        BY <1>1, <3>1 DEF PickCallState, OrNull
      <3>3. Holds(c)
        BY <1>1, <1>5 DEF SerializationFailure, PickCallState, Holds
      <3>4. req' = [req EXCEPT ![r] = c]
        BY <1>1, <1>5, <2>2 DEF SerializationFailure, PickCallState
      <3> HIDE DEF c
      <3> QED BY <1>5, <3>2, <3>3, <3>4, CallKeepsType DEF SerializationFailure
    <2> QED BY <2>1, <2>2
  <1>6. CASE RereadSlot(r)
    <2>1. PICK reply \in {"already picked", "replayed", "slot filled"} : req' = Answer(r, reply)
      BY <1>6 DEF RereadSlot
    <2> QED BY <1>6, <2>1, AnswerKeepsType DEF RereadSlot, Reply
  <1>7. CASE Forget(r)
    <2>1. Holds(Idle)
      BY DEF Idle, Holds
    <2> QED BY <1>7, <2>1, IdleType, CallKeepsType DEF Forget
  <1> QED BY <1>2, <1>3, <1>4, <1>5, <1>6, <1>7 DEF PickStep

LEMMA QueueEditKeepsType ==
  ASSUME TypeOK, QueueEdit
  PROVE  TypeOK'
PROOF
  <1>1. queues \in [Member -> Queue] /\ Queueable \subseteq Player
    BY DEF TypeOK
  <1>2. ASSUME NEW m \in Member, NEW p \in Queueable, addToPreDraftQueue(m, p)
        PROVE  TypeOK'
    <2> DEFINE rest == Renumbered(WithoutPlayer(OnlyAvailable(queues[m]), p))
    <2>1. rest \in Queue
      BY <1>1, RenumberedType, OnlyInType DEF WithoutPlayer, OnlyAvailable
    <2>2. Cardinality(Queued(rest)) \in Nat
      BY FS_Subset, FS_CardinalityType DEF Queued
    <2>3. PICK at \in 1..(Cardinality(Queued(rest)) + 1) : replaceQueueRows(m, InsertedAt(rest, p, at))
      BY <1>2 DEF addToPreDraftQueue
    <2>4. InsertedAt(rest, p, at) \in Queue
      BY <1>1, <2>1, <2>2, InsertedAtType
    <2> HIDE DEF rest
    <2> QED BY <2>3, <2>4, QueueEditType
  <1>3. ASSUME NEW m \in Member, NEW p \in Queueable, removeFromPreDraftQueue(m, p)
        PROVE  TypeOK'
    <2>1. Renumbered(WithoutPlayer(queues[m], p)) \in Queue
      BY <1>1, RenumberedType, OnlyInType DEF WithoutPlayer
    <2> QED BY <1>3, <2>1, QueueEditType DEF removeFromPreDraftQueue
  <1>4. ASSUME NEW m \in Member, NEW p \in Queueable, NEW q \in Queueable,
               replacePreDraftQueue(m, [NoQueue EXCEPT ![p] = 1, ![q] = 2])
        PROVE  TypeOK'
    <2>1. [NoQueue EXCEPT ![p] = 1, ![q] = 2] \in Queue
      BY <1>1 DEF NoQueue, Queue
    <2>2. Renumbered(OnlyAvailable([NoQueue EXCEPT ![p] = 1, ![q] = 2])) \in Queue
      BY <2>1, RenumberedType, OnlyInType DEF OnlyAvailable
    <2> QED BY <1>4, <2>2, QueueEditType DEF replacePreDraftQueue
  <1> QED BY <1>2, <1>3, <1>4 DEF QueueEdit

LEMMA TypeInit == Init => TypeInv
PROOF
  <1> SUFFICES ASSUME Init PROVE TypeInv
    OBVIOUS
  <1>1. draft \in DraftRow
    BY DEF Init, ScheduledDraft, DraftRow, DraftStatus, OrNull
  <1>2. queues \in [Member -> Queue]
    BY DEF Init, NoQueue, Queue
  <1>3. req \in [Request -> PickCallState] /\ \A r \in Request : req[r] = Idle
    BY IdleType DEF Init
  <1>4. Holds(Idle)
    BY DEF Idle, Holds
  <1> QED BY <1>1, <1>2, <1>3, <1>4 DEF Init, TypeInv, TypeOK, CallsHoldTheirSnapshot

LEMMA TypeStep == TypeInv /\ [Next]_vars => TypeInv'
PROOF
  <1> SUFFICES ASSUME TypeInv, [Next]_vars PROVE TypeInv'
    OBVIOUS
  <1>1. CASE Lifecycle
    <2>1. TypeOK'
      <3>1. CASE openScheduledLobby
        BY <3>1 DEF openScheduledLobby, TypeInv, TypeOK, DraftRow
      <3> QED BY <1>1, <3>1, StartKeepsType, PauseKeepsType, ResumeKeepsType DEF Lifecycle, TypeInv
    <2>2. UNCHANGED req
      BY <1>1 DEF Lifecycle, startDraft, openScheduledLobby, pauseDraft, resumeDraft
    <2> QED BY <2>1, <2>2 DEF TypeInv, CallsHoldTheirSnapshot
  <1>2. CASE QueueEdit
    <2>1. UNCHANGED req
      BY <1>2 DEF QueueEdit, addToPreDraftQueue, removeFromPreDraftQueue, replacePreDraftQueue,
                  replaceQueueRows
    <2> QED BY <1>2, <2>1, QueueEditKeepsType DEF TypeInv, CallsHoldTheirSnapshot
  <1>3. CASE \E r \in Request : PickCall(r) \/ PickStep(r)
    BY <1>3, PickCallKeepsType, PickStepKeepsType
  <1>4. CASE \E p \in Retiring : Retire(p)
    BY <1>4 DEF Retire, TypeInv, TypeOK, CallsHoldTheirSnapshot
  <1>5. CASE Tick
    BY <1>5 DEF Tick, TypeInv, TypeOK, CallsHoldTheirSnapshot
  <1>6. CASE UNCHANGED vars
    BY <1>6 DEF vars, TypeInv, TypeOK, CallsHoldTheirSnapshot
  <1> QED BY <1>1, <1>2, <1>3, <1>4, <1>5, <1>6 DEF Next

\* The rows of the draft and the calls in flight keep their shape whatever commands are
\* called, raced, retried or lost: every turn has a member, every clock is a number.
THEOREM TypeCorrect == Spec => []TypeOK
PROOF
  <1>1. TypeInv => TypeOK
    BY DEF TypeInv
  <1> QED BY <1>1, TypeInit, TypeStep, PTL DEF Spec

-------------------------------------------------------------------------------
(* The board *)

\* Only a commit adds a pick or moves the pick number.
LEMMA OnlyCommitsTouchTheBoard ==
  ASSUME TypeOK, [Next]_vars, \A r \in Request : ~CommitPick(r)
  PROVE  picks' = picks /\ draft'.currentPick = draft.currentPick
PROOF
  <1> USE DEF TypeOK
  <1>1. CASE Lifecycle
    <2>1. UNCHANGED picks
      BY <1>1 DEF Lifecycle, startDraft, openScheduledLobby, pauseDraft, resumeDraft
    <2>2. CASE openScheduledLobby
      BY <2>1, <2>2 DEF openScheduledLobby, DraftRow
    <2>4. CASE startDraft
      BY <2>1, <2>4 DEF startDraft, transitionDraftClock, RunClock, DraftRow
    <2>5. CASE pauseDraft
      BY <2>1, <2>5 DEF pauseDraft, transitionDraftClock, StopClock, DraftRow
    <2>6. CASE resumeDraft
      BY <2>1, <2>6 DEF resumeDraft, transitionDraftClock, RunClock, DraftRow
    <2> QED BY <1>1, <2>2, <2>4, <2>5, <2>6 DEF Lifecycle
  <1>2. CASE QueueEdit
    BY <1>2 DEF QueueEdit, addToPreDraftQueue, removeFromPreDraftQueue, replacePreDraftQueue,
                replaceQueueRows
  <1>3. ASSUME NEW r \in Request, PickCall(r) \/ PickStep(r)
        PROVE  picks' = picks /\ draft'.currentPick = draft.currentPick
    BY <1>3 DEF PickCall, makePick, autoPick, expirePick, Call, PickStep, ReadDraft, SlotTaken,
                SerializationFailure, RereadSlot, Forget
  <1>4. CASE \E p \in Retiring : Retire(p)
    BY <1>4 DEF Retire
  <1>5. CASE Tick
    BY <1>5 DEF Tick
  <1>6. CASE UNCHANGED vars
    BY <1>6 DEF vars
  <1> QED BY <1>1, <1>2, <1>3, <1>4, <1>5, <1>6 DEF Next

\* A commit puts one pick at the current number and moves on by one.
LEMMA CommitExtendsTheBoard ==
  ASSUME TypeInv, NEW r \in Request, CommitPick(r)
  PROVE  /\ ~UniqueViolation(draft.currentPick, req[r].choice)
         /\ \E x : /\ picks' = picks \cup {x}
                   /\ x.overall = draft.currentPick /\ x.player = req[r].choice
         /\ draft'.currentPick = draft.currentPick + 1
PROOF
  <1> DEFINE s == req[r].seen.settings
             row == NextDraftRow(draft, s)
  <1>1. draft \in DraftRow
    BY DEF TypeInv, TypeOK
  <1>2. row.currentPick = draft.currentPick + 1
    BY <1>1 DEF NextDraftRow, RunClock, StopClock, DraftRow
  <1>3. s \in Settings
    BY DEF CommitPick, TypeInv, CallsHoldTheirSnapshot, Holds, SnapshotRow
  <1>4. row \in DraftRow
    BY <1>3, NextDraftRowType DEF TypeInv
  <1>5. draft'.currentPick = draft.currentPick + 1
    <2>1. transitionDraftClock(row, PickEvents(r))
      BY DEF CommitPick
    <2> HIDE DEF row
    <2> QED BY <1>2, <1>4, <2>1 DEF transitionDraftClock, DraftRow
  <1>6. \E x : /\ picks' = picks \cup {x}
              /\ x.overall = draft.currentPick /\ x.player = req[r].choice
    <2> WITNESS PickRow(s, draft.currentPick, req[r].choice, req[r].kind # "make")
    <2> QED BY DEF CommitPick, PickRow
  <1> QED BY <1>5, <1>6 DEF CommitPick

LEMMA BoardStep == TypeInv /\ BoardHasNoGap /\ [Next]_vars => BoardHasNoGap'
PROOF
  <1> SUFFICES ASSUME TypeInv, BoardHasNoGap, [Next]_vars PROVE BoardHasNoGap'
    OBVIOUS
  <1>1. CASE \A r \in Request : ~CommitPick(r)
    BY <1>1, OnlyCommitsTouchTheBoard DEF TypeInv, BoardHasNoGap
  <1>2. ASSUME NEW r \in Request, CommitPick(r)
        PROVE  BoardHasNoGap'
    <2>1. PICK x : /\ picks' = picks \cup {x}
                   /\ x.overall = draft.currentPick /\ x.player = req[r].choice
      BY <1>2, CommitExtendsTheBoard
    <2>2. /\ ~UniqueViolation(draft.currentPick, req[r].choice)
          /\ draft'.currentPick = draft.currentPick + 1
      BY <1>2, CommitExtendsTheBoard
    <2>3. draft.currentPick \in Nat \ {0}
      BY DEF TypeInv, TypeOK, DraftRow
    <2>4. { y.overall : y \in picks' } = 1..(draft'.currentPick - 1)
      <3>1. { y.overall : y \in picks' } = { y.overall : y \in picks } \cup {draft.currentPick}
        BY <2>1
      <3>2. 1..(draft'.currentPick - 1) = 1..(draft.currentPick - 1) \cup {draft.currentPick}
        BY <2>2, <2>3
      <3> QED BY <3>1, <3>2 DEF BoardHasNoGap
    <2>5. \A y, z \in picks' : (y.overall = z.overall \/ y.player = z.player) => y = z
      BY <2>1, <2>2 DEF BoardHasNoGap, UniqueViolation
    <2> QED BY <2>4, <2>5 DEF BoardHasNoGap
  <1> QED BY <1>1, <1>2

\* For every league and every race of calls: the picks are numbered from one without a
\* gap, none twice, and no player is drafted twice.
THEOREM BoardCorrect == Spec => []BoardHasNoGap
PROOF
  <1>1. Init => BoardHasNoGap
    BY DEF Init, ScheduledDraft, BoardHasNoGap
  <1> QED BY <1>1, TypeInit, TypeStep, BoardStep, PTL DEF Spec

-------------------------------------------------------------------------------
(* The queues, the calls and the refinement, under all the assumptions      *)

USE TeamsAssumption, PoolAssumption, SettingsAssumption, NullAssumption

-------------------------------------------------------------------------------
(* Which players the queue helpers leave in a list *)

LEMMA OnlyInKeeps ==
  ASSUME NEW queue \in Queue, NEW S
  PROVE  Queued(OnlyIn(queue, S)) = Queued(queue) \cap S
BY DEF OnlyIn, Queued, Queue

\* Numbering a list again brings nobody into it.
LEMMA RenumberedAddsNobody ==
  ASSUME NEW queue \in Queue
  PROVE  Queued(Renumbered(queue)) \subseteq Queued(queue)
PROOF
  <1> SUFFICES ASSUME NEW p \in Player, Renumbered(queue)[p] > 0
               PROVE  queue[p] > 0
    BY DEF Queued
  <1>1. queue[p] \in Nat
    BY DEF Queue
  <1>2. queue[p] = 0 => Renumbered(queue)[p] = 0
    BY DEF Renumbered
  <1> QED BY <1>1, <1>2

LEMMA InsertedAtAddsOne ==
  ASSUME NEW queue \in Queue, NEW p \in Player, NEW at \in Nat \ {0}
  PROVE  Queued(InsertedAt(queue, p, at)) \subseteq Queued(queue) \cup {p}
PROOF
  <1> SUFFICES ASSUME NEW q \in Player, q # p, InsertedAt(queue, p, at)[q] > 0
               PROVE  queue[q] > 0
    BY DEF Queued
  <1>1. queue[q] \in Nat
    BY DEF Queue
  <1>2. InsertedAt(queue, p, at)[q] = IF queue[q] >= at THEN queue[q] + 1 ELSE queue[q]
    BY DEF InsertedAt
  <1> QED BY <1>1, <1>2

-------------------------------------------------------------------------------
(* The invariant, edit by edit and pick by pick *)

\* An edit that writes back a list without picked players keeps the invariant.
LEMMA CleanListIsSafe ==
  ASSUME TypeInv, QueuesHoldNoPickedPlayer, NEW m \in Member, NEW queue,
         Queued(queue) \cap Picked = {}, replaceQueueRows(m, queue)
  PROVE  QueuesHoldNoPickedPlayer'
PROOF
  <1>1. queues \in [Member -> Queue]
    BY DEF TypeInv, TypeOK
  <1>2. queues' = [queues EXCEPT ![m] = queue] /\ Picked' = Picked
    BY DEF replaceQueueRows, Picked
  <1>3. ASSUME NEW n \in Member
        PROVE  Queued(queues[n])' \cap Picked' = {}
    <2>1. CASE n = m
      BY <1>1, <1>2, <2>1 DEF Queued
    <2>2. CASE n # m
      BY <1>1, <1>2, <2>2 DEF Queued, QueuesHoldNoPickedPlayer
    <2> QED BY <2>1, <2>2
  <1> QED BY <1>3 DEF QueuesHoldNoPickedPlayer

LEMMA EditsKeepQueuesClean ==
  ASSUME TypeInv, QueuesHoldNoPickedPlayer, QueueEdit
  PROVE  QueuesHoldNoPickedPlayer'
PROOF
  <1>1. queues \in [Member -> Queue] /\ Queueable \subseteq Player /\ Available \cap Picked = {}
    BY DEF TypeInv, TypeOK, Available
  <1>2. ASSUME NEW m \in Member, NEW p \in Queueable, addToPreDraftQueue(m, p)
        PROVE  QueuesHoldNoPickedPlayer'
    <2> DEFINE kept == OnlyAvailable(queues[m])
               others == WithoutPlayer(kept, p)
               rest == Renumbered(others)
    <2>1. kept \in Queue /\ Queued(kept) \subseteq Available
      BY <1>1, OnlyInType, OnlyInKeeps DEF OnlyAvailable
    <2>2. others \in Queue /\ Queued(others) \subseteq Available
      <3> HIDE DEF kept
      <3> QED BY <2>1, OnlyInType, OnlyInKeeps DEF WithoutPlayer
    <2>3. rest \in Queue /\ Queued(rest) \subseteq Available
      <3> HIDE DEF others
      <3> QED BY <2>2, RenumberedType, RenumberedAddsNobody
    <2>4. PICK at \in 1..(Cardinality(Queued(rest)) + 1) : replaceQueueRows(m, InsertedAt(rest, p, at))
      BY <1>2 DEF addToPreDraftQueue
    <2>5. Queued(InsertedAt(rest, p, at)) \cap Picked = {}
      <3> HIDE DEF rest
      <3>1. Cardinality(Queued(rest)) \in Nat
        BY FS_Subset, FS_CardinalityType DEF Queued
      <3>2. Queued(InsertedAt(rest, p, at)) \subseteq Queued(rest) \cup {p}
        BY <1>1, <2>3, <3>1, InsertedAtAddsOne
      <3>3. p \in Available
        BY <1>2 DEF addToPreDraftQueue
      <3> QED BY <1>1, <2>3, <3>2, <3>3
    <2> HIDE DEF rest
    <2> QED BY <2>4, <2>5, CleanListIsSafe
  <1>3. ASSUME NEW m \in Member, NEW p \in Queueable, removeFromPreDraftQueue(m, p)
        PROVE  QueuesHoldNoPickedPlayer'
    <2> DEFINE others == WithoutPlayer(queues[m], p)
    <2>1. others \in Queue /\ Queued(others) \subseteq Queued(queues[m])
      BY <1>1, OnlyInType, OnlyInKeeps DEF WithoutPlayer
    <2>2. Queued(Renumbered(others)) \subseteq Queued(queues[m])
      <3> HIDE DEF others
      <3> QED BY <2>1, RenumberedAddsNobody
    <2>3. Queued(Renumbered(others)) \cap Picked = {}
      BY <2>2 DEF QueuesHoldNoPickedPlayer
    <2>4. replaceQueueRows(m, Renumbered(others))
      BY <1>3 DEF removeFromPreDraftQueue
    <2> HIDE DEF others
    <2> QED BY <2>3, <2>4, CleanListIsSafe
  <1>4. ASSUME NEW m \in Member, NEW asked \in Queue, replacePreDraftQueue(m, asked)
        PROVE  QueuesHoldNoPickedPlayer'
    <2> DEFINE kept == OnlyAvailable(asked)
    <2>1. kept \in Queue /\ Queued(kept) \subseteq Available
      BY OnlyInType, OnlyInKeeps DEF OnlyAvailable
    <2>2. Queued(Renumbered(kept)) \cap Picked = {}
      <3> HIDE DEF kept
      <3> QED BY <1>1, <2>1, RenumberedAddsNobody
    <2>3. replaceQueueRows(m, Renumbered(kept))
      BY <1>4 DEF replacePreDraftQueue
    <2> HIDE DEF kept
    <2> QED BY <2>2, <2>3, CleanListIsSafe
  <1>5. \A p, q \in Queueable : [NoQueue EXCEPT ![p] = 1, ![q] = 2] \in Queue
    BY <1>1 DEF NoQueue, Queue
  <1> QED BY <1>2, <1>3, <1>4, <1>5 DEF QueueEdit

LEMMA PicksLeaveTheQueues ==
  ASSUME TypeInv, QueuesHoldNoPickedPlayer, NEW r \in Request, CommitPick(r)
  PROVE  QueuesHoldNoPickedPlayer'
PROOF
  <1> DEFINE p == req[r].choice
  <1>1. queues \in [Member -> Queue]
    BY DEF TypeInv, TypeOK
  <1>2. Picked' = Picked \cup {p}
    <2>1. PICK x : picks' = picks \cup {x} /\ x.player = p
      BY CommitExtendsTheBoard
    <2> QED BY <2>1 DEF Picked
  <1>3. queues' = [m \in Member |-> WithoutPlayer(queues[m], p)]
    BY <1>1 DEF CommitPick, removePlayerFromAllDraftQueues
  <1>4. ASSUME NEW m \in Member
        PROVE  Queued(queues[m])' \cap Picked' = {}
    <2>1. Queued(WithoutPlayer(queues[m], p)) = Queued(queues[m]) \cap (Player \ {p})
      BY <1>1, OnlyInKeeps DEF WithoutPlayer
    <2>2. Queued(queues[m])' = Queued(WithoutPlayer(queues[m], p))
      BY <1>3 DEF Queued
    <2> HIDE DEF p
    <2> QED BY <1>2, <2>1, <2>2 DEF QueuesHoldNoPickedPlayer
  <1> QED BY <1>4 DEF QueuesHoldNoPickedPlayer

\* Nothing else writes a queue.
LEMMA OnlyEditsAndCommitsTouchTheQueues ==
  ASSUME [Next]_vars, ~QueueEdit, \A r \in Request : ~CommitPick(r)
  PROVE  UNCHANGED queues
PROOF
  <1>1. CASE Lifecycle
    BY <1>1 DEF Lifecycle, startDraft, openScheduledLobby, pauseDraft, resumeDraft
  <1>2. ASSUME NEW r \in Request, PickCall(r) \/ PickStep(r)
        PROVE  UNCHANGED queues
    BY <1>2 DEF PickCall, makePick, autoPick, expirePick, Call, PickStep, ReadDraft, SlotTaken,
                SerializationFailure, RereadSlot, Forget
  <1>3. CASE \E p \in Retiring : Retire(p)
    BY <1>3 DEF Retire
  <1>4. CASE Tick
    BY <1>4 DEF Tick
  <1>5. CASE UNCHANGED vars
    BY <1>5 DEF vars
  <1> QED BY <1>1, <1>2, <1>3, <1>4, <1>5 DEF Next

LEMMA QueuesStep ==
  TypeInv /\ QueuesHoldNoPickedPlayer /\ [Next]_vars => QueuesHoldNoPickedPlayer'
PROOF
  <1> SUFFICES ASSUME TypeInv, QueuesHoldNoPickedPlayer, [Next]_vars
               PROVE  QueuesHoldNoPickedPlayer'
    OBVIOUS
  <1>1. CASE QueueEdit
    BY <1>1, EditsKeepQueuesClean
  <1>2. CASE \E r \in Request : CommitPick(r)
    BY <1>2, PicksLeaveTheQueues
  <1>3. CASE ~QueueEdit /\ \A r \in Request : ~CommitPick(r)
    <2>1. UNCHANGED queues
      BY <1>3, OnlyEditsAndCommitsTouchTheQueues
    <2>2. UNCHANGED picks
      BY <1>3, OnlyCommitsTouchTheBoard DEF TypeInv
    <2> QED BY <2>1, <2>2 DEF QueuesHoldNoPickedPlayer, Queued, Picked
  <1> QED BY <1>1, <1>2, <1>3

\* For every league, every interleaving of queue edits and racing picks: no member's
\* queue ever holds a player who has been drafted.
THEOREM QueuesCorrect == Spec => []QueuesHoldNoPickedPlayer
PROOF
  <1>1. Init => QueuesHoldNoPickedPlayer
    BY DEF Init, QueuesHoldNoPickedPlayer, Picked
  <1> QED BY <1>1, TypeInit, TypeStep, QueuesStep, PTL DEF Spec

-------------------------------------------------------------------------------
(* What a call relies on *)

\* The best of the member's queue as an automatic pick has read it: nobody who is still
\* available stands before its choice.
BestOfQueue(c) ==
  \A p \in Queued(c.seen.queue) \cap Available :
    c.seen.queue[c.choice] > 0 /\ c.seen.queue[c.choice] <= c.seen.queue[p]

\* What the checks of makePick and autoPick have established about the draft they read.
CheckedOnRead(c) ==
  /\ c.seen.draft.status = "LIVE"
  /\ CurrentPickIsOpen(c.seen.draft, c.seen.settings)
  /\ c.kind = "make" =>
       /\ c.choice = c.player
       /\ c.member = calculateDraftTurn(c.seen.settings, c.seen.draft.currentPick)

\* The version tells a call whether what it read is stale.  While it stands, the
\* choice stays the best of the queue that was read: the pool only shrinks.
ReadOnce(c) ==
  /\ CheckedOnRead(c)
  /\ c.seen.draft.version <= draft.version
  /\ (c.kind # "make" /\ c.seen.draft.version = draft.version) => BestOfQueue(c)
  /\ c.kind = "expire" => /\ c.seen.draft.version = c.expect
                          /\ c.seen.draft.pickDeadlineAt # Null
                          /\ c.seen.draft.pickDeadlineAt <= now

CallInv == \A r \in Request : req[r].phase = "running" => ReadOnce(req[r])

\* The settings a call may still be going by are those of S.
SettingsStay(S) ==
  /\ settings \in S
  /\ \A r \in Request : req[r].phase \in {"running", "reread"} => req[r].seen.settings \in S

\* Settings under which every pick is the turn of the same member; and under which the
\* draft is as long as well.
SameOrder == { s \in Settings : s.draftType = StartSettings.draftType }

SameBoard == { s \in SameOrder : s.rosterLimit = StartSettings.rosterLimit }

-------------------------------------------------------------------------------
(* What a call reads *)

\* An automatic choice is the first of what is left of the queue, if anything is.
LEMMA AutoChoiceIsBest ==
  ASSUME TypeOK, NEW m \in Member, NEW p \in AutoChoice(m),
         NEW q \in Queued(queues[m]) \cap Available
  PROVE  queues[m][p] > 0 /\ queues[m][p] <= queues[m][q]
PROOF
  <1> DEFINE queued == OnlyAvailable(queues[m])
             ranks == { queued[x] : x \in Queued(queued) }
             first == { x \in Queued(queued) : \A y \in Queued(queued) : queued[x] <= queued[y] }
  <1>1. queues[m] \in Queue /\ queued \in Queue
    BY OnlyInType DEF TypeOK, OnlyAvailable
  <1>2. \A x \in Player : queued[x] = IF x \in Available THEN queues[m][x] ELSE 0
    BY DEF OnlyAvailable, OnlyIn
  <1>3. Queued(queued) = Queued(queues[m]) \cap Available
    BY <1>1, <1>2 DEF Queued, Queue
  <1>4. first # {}
    <2> HIDE DEF queued
    <2>1. ranks \in SUBSET Nat
      BY <1>1 DEF Queued, Queue
    <2>2. queued[q] \in ranks
      BY <1>3
    <2>3. PICK least \in ranks : \A n \in ranks : least <= n
      <3> HIDE DEF ranks
      <3> QED BY <2>1, <2>2, LeastOf
    <2> QED BY <2>3
  <1>5. p \in first
    BY <1>4 DEF AutoChoice
  <1>6. p \in Queued(queued) /\ queued[p] <= queued[q]
    <2> HIDE DEF queued
    <2> QED BY <1>3, <1>5
  <1>7. p \in Available /\ p \in Player /\ q \in Player /\ queued[p] = queues[m][p] /\ queued[q] = queues[m][q]
    BY <1>2, <1>3, <1>6 DEF Queued
  <1> HIDE DEF queued
  <1> QED BY <1>6, <1>7 DEF Queued

-------------------------------------------------------------------------------
(* Steps *)

\* Versions only grow, and grow whenever a pick is made; the pool only shrinks.
LEMMA VersionsGrow ==
  ASSUME TypeInv, [Next]_vars
  PROVE  /\ draft'.version \in Nat /\ draft.version \in Nat
         /\ draft.version <= draft'.version
         /\ picks' # picks => draft.version < draft'.version
         /\ active' \subseteq active
         /\ settings' = settings
         /\ now \in Nat /\ now' \in Nat /\ now <= now'
PROOF
  <1>1. draft \in DraftRow /\ draft.version \in Nat /\ now \in Nat
    BY DEF TypeInv, TypeOK, DraftRow
  <1>2. draft' \in DraftRow /\ draft'.version \in Nat /\ now' \in Nat
    BY TypeStep DEF TypeInv, TypeOK, DraftRow
  <1>3. active' \subseteq active /\ settings' = settings /\ now <= now'
    <2> DEFINE Rest == <<settings, active, now>>
    <2>1. CASE Lifecycle
      <3>1. UNCHANGED Rest
        BY <2>1 DEF Lifecycle, startDraft, openScheduledLobby, pauseDraft, resumeDraft
      <3> QED BY <1>1, <3>1
    <2>2. CASE QueueEdit
      <3>1. UNCHANGED Rest
        BY <2>2 DEF QueueEdit, addToPreDraftQueue, removeFromPreDraftQueue, replacePreDraftQueue,
                    replaceQueueRows
      <3> QED BY <1>1, <3>1
    <2>3. CASE \E r \in Request : PickCall(r) \/ PickStep(r)
      <3>1. UNCHANGED Rest
        BY <2>3 DEF PickCall, makePick, autoPick, expirePick, Call, PickStep, ReadDraft, CommitPick,
                    SlotTaken, SerializationFailure, RereadSlot, Forget
      <3> QED BY <1>1, <3>1
    <2>4. CASE \E p \in Retiring : Retire(p)
      BY <1>1, <2>4 DEF Retire
    <2>5. CASE Tick
      BY <1>1, <2>5 DEF Tick
    <2>6. CASE UNCHANGED vars
      BY <1>1, <2>6 DEF vars
    <2> QED BY <2>1, <2>2, <2>3, <2>4, <2>5, <2>6 DEF Next
  <1>4. CASE \A r \in Request : ~CommitPick(r)
    <2>1. picks' = picks
      BY <1>4, OnlyCommitsTouchTheBoard DEF TypeInv
    <2>2. draft'.version >= draft.version
      <3>1. CASE startDraft
        BY <1>1, <3>1 DEF startDraft, transitionDraftClock, RunClock, DraftRow
      <3>2. CASE openScheduledLobby
        BY <1>1, <3>2 DEF openScheduledLobby, DraftRow
      <3>3. CASE pauseDraft
        BY <1>1, <3>3 DEF pauseDraft, transitionDraftClock, StopClock, DraftRow
      <3>4. CASE resumeDraft
        BY <1>1, <3>4 DEF resumeDraft, transitionDraftClock, RunClock, DraftRow
      <3>5. CASE ~Lifecycle
        <4>1. UNCHANGED draft
          BY <1>4, <3>5 DEF Next, vars, QueueEdit, addToPreDraftQueue, removeFromPreDraftQueue,
             replacePreDraftQueue, replaceQueueRows, PickCall, makePick, autoPick, expirePick, Call,
             PickStep, ReadDraft, SlotTaken, SerializationFailure, RereadSlot, Forget, Retire, Tick
        <4> QED BY <1>1, <4>1
      <3> QED BY <3>1, <3>2, <3>3, <3>4, <3>5 DEF Lifecycle
    <2> QED BY <1>1, <1>2, <1>3, <2>1, <2>2
  <1>5. ASSUME NEW r \in Request, CommitPick(r)
        PROVE  draft'.version = draft.version + 1
    <2> DEFINE row == NextDraftRow(draft, req[r].seen.settings)
    <2>1. req[r].seen.settings \in Settings
      BY <1>5 DEF CommitPick, TypeInv, CallsHoldTheirSnapshot, Holds, SnapshotRow
    <2>2. row \in DraftRow
      BY <2>1, NextDraftRowType DEF TypeInv
    <2>3. transitionDraftClock(row, PickEvents(r))
      BY <1>5 DEF CommitPick
    <2> HIDE DEF row
    <2> QED BY <2>2, <2>3 DEF transitionDraftClock, DraftRow
  <1> QED BY <1>1, <1>2, <1>3, <1>4, <1>5

\* Only reading the draft makes a call a running one.
LEMMA OnlyReadsStartRunning ==
  ASSUME TypeInv, [Next]_vars, NEW r \in Request, req'[r].phase = "running", req'[r] # req[r]
  PROVE  /\ UNCHANGED <<draft, settings, picks, queues, outbox, active, now>>
         /\ \E p \in Admitted(req[r]) :
              req'[r] = [req[r] EXCEPT !.phase = "running", !.choice = p,
                                       !.seen = Snapshot(req[r].kind)]
PROOF
  <1>1. req \in [Request -> PickCallState]
    BY DEF TypeInv, TypeOK
  <1>2. CASE \E q \in Request : PickCall(q) \/ PickStep(q)
    <2>1. PICK q \in Request : PickCall(q) \/ PickStep(q)
      BY <1>2
    <2>2. CASE PickCall(q)
      <3>1. \A kind, m, p, v : Called(kind, m, p, v).phase = "called"
        BY DEF Called
      <3>2. PICK c : c.phase = "called" /\ req' = [req EXCEPT ![q] = c]
        BY <2>2, <3>1 DEF PickCall, makePick, autoPick, expirePick, Call
      <3> QED BY <1>1, <3>2
    <2>3. CASE ReadDraft(q)
      <3>1. CASE Admitted(req[q]) = {}
        <4> DEFINE c == [req[q] EXCEPT !.phase = "done", !.seen = Null, !.reply = "refused"]
        <4>1. req' = [req EXCEPT ![q] = c]
          BY <2>3, <3>1, AnswerType DEF ReadDraft, Reply
        <4>2. c.phase = "done"
          BY <1>1 DEF PickCallState
        <4> HIDE DEF c
        <4> QED BY <1>1, <4>1, <4>2
      <3>2. CASE Admitted(req[q]) # {}
        <4>1. PICK p \in Admitted(req[q]) :
                req' = [req EXCEPT ![q].phase = "running", ![q].choice = p,
                                   ![q].seen = Snapshot(req[q].kind)]
          BY <2>3, <3>2 DEF ReadDraft
        <4>2. req' = [req EXCEPT ![q] = [req[q] EXCEPT !.phase = "running", !.choice = p,
                                                       !.seen = Snapshot(req[q].kind)]]
          BY <1>1, <4>1 DEF PickCallState
        <4>3. r = q
          BY <1>1, <4>2
        <4> QED BY <1>1, <2>3, <4>2, <4>3 DEF ReadDraft
      <3> QED BY <3>1, <3>2
    <2>4. CASE CommitPick(q)
      BY <1>1, <2>4 DEF CommitPick, Answer, PickCallState
    <2>5. CASE SlotTaken(q)
      BY <1>1, <2>5 DEF SlotTaken, PickCallState
    <2>6. CASE SerializationFailure(q)
      BY <1>1, <2>6 DEF SerializationFailure, Answer, PickCallState
    <2>7. CASE RereadSlot(q)
      BY <1>1, <2>7 DEF RereadSlot, Answer, PickCallState
    <2>8. CASE Forget(q)
      BY <1>1, <2>8 DEF Forget, Idle
    <2> QED BY <2>1, <2>2, <2>3, <2>4, <2>5, <2>6, <2>7, <2>8 DEF PickStep
  <1>3. CASE ~\E q \in Request : PickCall(q) \/ PickStep(q)
    <2>1. UNCHANGED req
      BY <1>3 DEF Next, vars, Lifecycle, startDraft, openScheduledLobby, pauseDraft, resumeDraft,
         QueueEdit, addToPreDraftQueue, removeFromPreDraftQueue, replacePreDraftQueue,
         replaceQueueRows, Retire, Tick
    <2> QED BY <2>1
  <1> QED BY <1>2, <1>3

LEMMA ReadingEstablishes ==
  ASSUME TypeInv, NEW r \in Request, NEW p \in Admitted(req[r])
  PROVE  ReadOnce([req[r] EXCEPT !.phase = "running", !.choice = p, !.seen = Snapshot(req[r].kind)])
PROOF
  <1> DEFINE c == [req[r] EXCEPT !.phase = "running", !.choice = p, !.seen = Snapshot(req[r].kind)]
             m == calculateDraftTurn(settings, draft.currentPick)
  <1>1. /\ req[r] \in PickCallState /\ draft \in DraftRow
        /\ draft.currentPick \in Nat \ {0} /\ draft.version \in Nat /\ settings \in Settings
    BY DEF TypeInv, TypeOK, DraftRow
  <1>2. /\ c.kind = req[r].kind /\ c.choice = p /\ c.seen = Snapshot(req[r].kind)
        /\ c.player = req[r].player /\ c.member = req[r].member /\ c.expect = req[r].expect
    BY <1>1 DEF PickCallState
  <1>3. /\ c.seen.draft = draft /\ c.seen.settings = settings
        /\ c.kind # "make" => c.seen.queue = queues[m]
    BY <1>2 DEF Snapshot
  <1>4. draft.status = "LIVE" /\ CurrentPickIsOpen(draft, settings)
    BY DEF Admitted
  <1>5. m \in Member
    BY <1>1, TurnIsDefined
  <1>6. c.kind = "make" => p = req[r].player /\ req[r].member = m
    BY <1>2, <1>4 DEF Admitted
  <1>7. c.kind # "make" => p \in AutoChoice(m) /\ (req[r].kind = "expire" => requireExpired(req[r]))
    BY <1>2, <1>4 DEF Admitted
  <1> HIDE DEF c
  <1>8. CheckedOnRead(c)
    BY <1>2, <1>3, <1>4, <1>6 DEF CheckedOnRead
  <1>9. c.kind # "make" => BestOfQueue(c)
    <2> SUFFICES ASSUME c.kind # "make", NEW q \in Queued(queues[m]) \cap Available
                 PROVE  queues[m][p] > 0 /\ queues[m][p] <= queues[m][q]
      BY <1>2, <1>3 DEF BestOfQueue
    <2> HIDE DEF m
    <2> QED BY <1>5, <1>7, AutoChoiceIsBest DEF TypeInv
  <1>10. c.kind = "expire" => /\ c.seen.draft.version = c.expect
                              /\ c.seen.draft.pickDeadlineAt # Null
                              /\ c.seen.draft.pickDeadlineAt <= now
    BY <1>2, <1>3, <1>7 DEF requireExpired
  <1>11. c.seen.draft.version <= draft.version
    BY <1>1, <1>3
  <1>12. ReadOnce(c)
    BY <1>8, <1>9, <1>10, <1>11 DEF ReadOnce
  <1> QED BY <1>12 DEF c

\* What a waiting call has read stays good enough, whatever the others do.
LEMMA WaitingKeeps ==
  ASSUME TypeInv, [Next]_vars, NEW r \in Request, req'[r] = req[r],
         req[r].seen \in SnapshotRow, ReadOnce(req[r])
  PROVE  ReadOnce(req[r])'
PROOF
  <1> DEFINE seen == req[r].seen
  <1>1. /\ draft'.version \in Nat /\ draft.version \in Nat /\ draft.version <= draft'.version
        /\ picks' # picks => draft.version < draft'.version
        /\ active' \subseteq active
        /\ now \in Nat /\ now' \in Nat /\ now <= now'
    BY VersionsGrow
  <1>2. seen.draft.version \in Nat /\ seen.draft.pickDeadlineAt \in Int \cup {Null}
    BY DEF SnapshotRow, DraftRow, OrNull
  <1>3. CheckedOnRead(req[r])'
    BY DEF ReadOnce, CheckedOnRead, CurrentPickIsOpen, getExpectedTotalPicks, calculateDraftTurn
  <1>4. seen.draft.version <= draft'.version
    BY <1>1, <1>2 DEF ReadOnce
  <1>5. ASSUME req[r].kind # "make", seen.draft.version = draft'.version
        PROVE  BestOfQueue(req[r])'
    <2>1. seen.draft.version = draft.version
      BY <1>1, <1>2, <1>5 DEF ReadOnce
    <2>2. picks' = picks
      BY <1>1, <1>2, <1>5, <2>1
    <2>3. Available' \subseteq Available
      BY <1>1, <2>2 DEF Available, Picked
    <2>4. BestOfQueue(req[r])
      BY <1>5, <2>1 DEF ReadOnce
    <2> QED BY <2>3, <2>4 DEF BestOfQueue, Queued
  <1>6. req[r].kind = "expire" => /\ seen.draft.version = req[r].expect
                                  /\ seen.draft.pickDeadlineAt # Null
                                  /\ seen.draft.pickDeadlineAt <= now'
    BY <1>1, <1>2 DEF ReadOnce
  <1> QED BY <1>3, <1>4, <1>5, <1>6 DEF ReadOnce

LEMMA CallStep == TypeInv /\ CallInv /\ [Next]_vars => CallInv'
PROOF
  <1> SUFFICES ASSUME TypeInv, CallInv, [Next]_vars
               PROVE  CallInv'
    OBVIOUS
  <1>1. ASSUME NEW r \in Request, req'[r].phase = "running"
        PROVE  ReadOnce(req[r])'
    <2>1. CASE req'[r] = req[r]
      <3>1. ReadOnce(req[r]) /\ req[r].seen \in SnapshotRow
        BY <1>1, <2>1 DEF CallInv, TypeInv, CallsHoldTheirSnapshot, Holds
      <3> QED BY <2>1, <3>1, WaitingKeeps
    <2>2. CASE req'[r] # req[r]
      <3>1. UNCHANGED <<draft, settings, picks, queues, outbox, active, now>>
        BY <1>1, <2>2, OnlyReadsStartRunning
      <3>2. PICK p \in Admitted(req[r]) :
              req'[r] = [req[r] EXCEPT !.phase = "running", !.choice = p,
                                       !.seen = Snapshot(req[r].kind)]
        BY <1>1, <2>2, OnlyReadsStartRunning
      <3> DEFINE c == [req[r] EXCEPT !.phase = "running", !.choice = p, !.seen = Snapshot(req[r].kind)]
      <3>3. ReadOnce(c)
        BY ReadingEstablishes
      <3>4. req'[r] = c
        BY <3>2
      <3> HIDE DEF c
      <3> QED BY <3>1, <3>3, <3>4
             DEF ReadOnce, CheckedOnRead, BestOfQueue, CurrentPickIsOpen, getExpectedTotalPicks,
                 calculateDraftTurn, Queued, Available, Picked
    <2> QED BY <2>1, <2>2
  <1> QED BY <1>1 DEF CallInv

LEMMA CallInit == Init => CallInv
BY DEF Init, CallInv, Idle

-------------------------------------------------------------------------------
(* What a commit may rely on *)

LEMMA CommitsAsRead ==
  ASSUME TypeInv, CallInv, NEW r \in Request, CommitPick(r)
  PROVE  /\ req[r].seen.draft = draft
         /\ CheckedOnRead(req[r])
         /\ req[r].kind # "make" =>
              /\ BestOfQueue(req[r])
              /\ req[r].seen.queue = queues[calculateDraftTurn(req[r].seen.settings, draft.currentPick)]
         /\ req[r].kind = "expire" => requireExpired(req[r])
PROOF
  <1>1. req[r].phase = "running" /\ SnapshotHolds(r) /\ ReadOnce(req[r])
    BY DEF CommitPick, CallInv
  <1>2. req[r].seen.draft = draft
    BY <1>1 DEF SnapshotHolds
  <1>3. CheckedOnRead(req[r])
    BY <1>1 DEF ReadOnce
  <1>4. req[r].kind # "make" => BestOfQueue(req[r])
    BY <1>1, <1>2 DEF ReadOnce
  <1>5. req[r].kind # "make" =>
          req[r].seen.queue = queues[calculateDraftTurn(req[r].seen.settings, draft.currentPick)]
    BY <1>1 DEF SnapshotHolds
  <1>6. req[r].kind = "expire" => requireExpired(req[r])
    BY <1>1, <1>2 DEF ReadOnce, requireExpired
  <1> QED BY <1>2, <1>3, <1>4, <1>5, <1>6

\* Only a commit tells its caller "ok".
LEMMA OnlyCommitsSayOk ==
  ASSUME TypeInv, [Next]_vars, NEW r \in Request, req[r].reply # "ok", req'[r].reply = "ok"
  PROVE  CommitPick(r)
PROOF
  <1>1. req \in [Request -> PickCallState]
    BY DEF TypeInv, TypeOK
  <1>2. CASE \E q \in Request : PickCall(q) \/ PickStep(q)
    <2>1. PICK q \in Request : PickCall(q) \/ PickStep(q)
      BY <1>2
    <2>2. r = q
      <3>1. \A x \in Request : x # q => req'[x] = req[x]
        BY <1>1, <2>1 DEF PickCall, makePick, autoPick, expirePick, Call, PickStep, ReadDraft,
           CommitPick, SlotTaken, SerializationFailure, RereadSlot, Forget, Answer
      <3> QED BY <3>1
    <2>3. CASE PickCall(q)
      <3>1. \A kind, m, p, v : Called(kind, m, p, v).reply # "ok"
        BY DEF Called, Reply
      <3>2. PICK c : c.reply # "ok" /\ req' = [req EXCEPT ![q] = c]
        BY <2>3, <3>1 DEF PickCall, makePick, autoPick, expirePick, Call
      <3> QED BY <1>1, <2>2, <3>2
    <2>4. \A reply : req' = Answer(q, reply) => req'[q].reply = reply
      BY <1>1 DEF Answer, PickCallState
    <2>5. CASE ReadDraft(q)
      <3>1. CASE Admitted(req[q]) = {}
        BY <2>2, <2>4, <2>5, <3>1 DEF ReadDraft
      <3>2. CASE Admitted(req[q]) # {}
        <4>1. PICK p \in Admitted(req[q]) :
                req' = [req EXCEPT ![q].phase = "running", ![q].choice = p,
                                   ![q].seen = Snapshot(req[q].kind)]
          BY <2>5, <3>2 DEF ReadDraft
        <4>2. req'[q].reply = req[q].reply
          BY <1>1, <4>1 DEF PickCallState
        <4> QED BY <2>2, <4>2
      <3> QED BY <3>1, <3>2
    <2>6. CASE SlotTaken(q)
      BY <1>1, <2>2, <2>6 DEF SlotTaken, PickCallState
    <2>7. CASE SerializationFailure(q)
      BY <1>1, <2>2, <2>4, <2>7 DEF SerializationFailure, PickCallState
    <2>8. CASE RereadSlot(q)
      BY <1>1, <2>2, <2>4, <2>8 DEF RereadSlot
    <2>9. CASE Forget(q)
      BY <1>1, <2>2, <2>9 DEF Forget, Idle, Reply
    <2> QED BY <2>1, <2>2, <2>3, <2>5, <2>6, <2>7, <2>8, <2>9 DEF PickStep
  <1>3. CASE ~\E q \in Request : PickCall(q) \/ PickStep(q)
    <2>1. UNCHANGED req
      BY <1>3 DEF Next, vars, Lifecycle, startDraft, openScheduledLobby, pauseDraft, resumeDraft,
         QueueEdit, addToPreDraftQueue, removeFromPreDraftQueue, replacePreDraftQueue,
         replaceQueueRows, Retire, Tick
    <2> QED BY <2>1
  <1> QED BY <1>2, <1>3

\* For any number of late, repeated and racing expiry jobs: a pick made for one of them
\* is made on the clock version the job was scheduled for, after that clock ran out.
THEOREM ExpiryCorrect == Spec => ExpiryTakesOnlyItsOwnTurn
PROOF
  <1> DEFINE Own == \A r \in Request :
        (req[r].kind = "expire" /\ req[r].reply # "ok" /\ req'[r].reply = "ok") =>
          /\ draft.version = req[r].expect
          /\ draft.pickDeadlineAt # Null /\ draft.pickDeadlineAt <= now
  <1>1. TypeInv /\ CallInv /\ [Next]_vars => Own
    <2> SUFFICES ASSUME TypeInv, CallInv, [Next]_vars, NEW r \in Request,
                        req[r].kind = "expire", req[r].reply # "ok", req'[r].reply = "ok"
                 PROVE  requireExpired(req[r])
      BY DEF requireExpired
    <2>1. CommitPick(r)
      BY OnlyCommitsSayOk
    <2> QED BY <2>1, CommitsAsRead
  <1>2. TypeInv /\ CallInv /\ [Next]_vars => [Own]_vars
    BY <1>1
  <1> HIDE DEF Own
  <1>3. Spec => [][Own]_vars
    BY <1>2, TypeInit, TypeStep, CallInit, CallStep, PTL DEF Spec
  <1> QED BY <1>3 DEF Own, ExpiryTakesOnlyItsOwnTurn

\* The step of an automatic pick.
QueueHonoured ==
  \A x \in picks' \ picks : x.auto =>
    LET queue == queues[x.member]
    IN \A p \in Queued(queue) \cap Available : queue[x.player] > 0 /\ queue[x.player] <= queue[p]

LEMMA AutoPickStep == TypeInv /\ CallInv /\ [Next]_vars => QueueHonoured
PROOF
  <1> DEFINE First(x) == \A p \in Queued(queues[x.member]) \cap Available :
                           queues[x.member][x.player] > 0 /\ queues[x.member][x.player] <= queues[x.member][p]
  <1> SUFFICES ASSUME TypeInv, CallInv, [Next]_vars, NEW x \in picks' \ picks, x.auto
               PROVE  First(x)
    BY DEF QueueHonoured
  <1>1. PICK r \in Request : CommitPick(r)
    BY OnlyCommitsTouchTheBoard DEF TypeInv
  <1>2. x = PickRow(req[r].seen.settings, draft.currentPick, req[r].choice, req[r].kind # "make")
    BY <1>1 DEF CommitPick
  <1>3. /\ x.member = calculateDraftTurn(req[r].seen.settings, draft.currentPick)
        /\ x.player = req[r].choice /\ req[r].kind # "make"
    BY <1>2 DEF PickRow
  <1>4. req[r].seen.queue = queues[x.member] /\ BestOfQueue(req[r])
    BY <1>1, <1>3, CommitsAsRead
  <1> QED BY <1>3, <1>4 DEF BestOfQueue

\* For every interleaving of queue edits, player imports and picks: an automatic pick
\* takes the first player still available in the member's queue as it then stands.
THEOREM AutoPickCorrect == Spec => AutoPickHonoursTheQueue
PROOF
  <1>1. Spec => [][QueueHonoured]_vars
    BY AutoPickStep, TypeInit, TypeStep, CallInit, CallStep, PTL DEF Spec
  <1> QED BY <1>1 DEF QueueHonoured, AutoPickHonoursTheQueue

-------------------------------------------------------------------------------
(* Replies *)

\* Every pick belongs to the member whose turn its number was.
PicksAreOnTurn == \A x \in picks : x.member = calculateDraftTurn(StartSettings, x.overall)

\* A call that looks at its slot again was refused by a key that some pick still holds.
RereadInv ==
  \A r \in Request : req[r].phase = "reread" =>
    /\ CheckedOnRead(req[r])
    /\ UniqueViolation(req[r].seen.draft.currentPick, req[r].choice)

ReplyInv == PicksAreOnTurn /\ RereadInv /\ RepliesAreTrue

LEMMA SameTurns ==
  ASSUME NEW s \in SameOrder
  PROVE  /\ \A k : calculateDraftTurn(s, k) = calculateDraftTurn(StartSettings, k)
         /\ \A k, p, auto : PickRow(s, k, p, auto) = PickRow(StartSettings, k, p, auto)
BY DEF SameOrder, calculateDraftTurn, PickRow

\* Picks stay, and a new one belongs to the member on the clock.
LEMMA PicksOnlyGrow ==
  ASSUME TypeInv, CallInv, SettingsStay(SameOrder), PicksAreOnTurn, [Next]_vars
  PROVE  picks \subseteq picks' /\ PicksAreOnTurn'
PROOF
  <1>1. CASE \A r \in Request : ~CommitPick(r)
    <2>1. picks' = picks
      BY <1>1, OnlyCommitsTouchTheBoard DEF TypeInv
    <2> QED BY <2>1 DEF PicksAreOnTurn, calculateDraftTurn
  <1>2. ASSUME NEW r \in Request, CommitPick(r)
        PROVE  picks \subseteq picks' /\ PicksAreOnTurn'
    <2>1. req[r].seen.settings \in SameOrder
      BY <1>2 DEF CommitPick, SettingsStay
    <2>2. picks' = picks \cup {PickRow(StartSettings, draft.currentPick, req[r].choice, req[r].kind # "make")}
      BY <1>2, <2>1, SameTurns DEF CommitPick
    <2> QED BY <2>2 DEF PicksAreOnTurn, PickRow, calculateDraftTurn
  <1> QED BY <1>1, <1>2

\* How a call comes to look at its slot again, or to be answered.
LEMMA CallMoves ==
  ASSUME TypeInv, [Next]_vars, NEW r \in Request, req'[r] # req[r],
         req'[r].phase \in {"reread", "done"}
  PROVE  \/ SlotTaken(r) \/ CommitPick(r) \/ RereadSlot(r)
         \/ req'[r].phase = "done" /\ req'[r].reply \in {"refused", "error"}
PROOF
  <1>1. req \in [Request -> PickCallState]
    BY DEF TypeInv, TypeOK
  <1>2. CASE \E q \in Request : PickCall(q) \/ PickStep(q)
    <2>1. PICK q \in Request : PickCall(q) \/ PickStep(q)
      BY <1>2
    <2>2. r = q
      <3>1. \A x \in Request : x # q => req'[x] = req[x]
        BY <1>1, <2>1 DEF PickCall, makePick, autoPick, expirePick, Call, PickStep, ReadDraft,
           CommitPick, SlotTaken, SerializationFailure, RereadSlot, Forget, Answer
      <3> QED BY <3>1
    <2>3. CASE PickCall(q)
      <3>1. \A kind, m, p, v : Called(kind, m, p, v).phase = "called"
        BY DEF Called
      <3>2. PICK c : c.phase = "called" /\ req' = [req EXCEPT ![q] = c]
        BY <2>3, <3>1 DEF PickCall, makePick, autoPick, expirePick, Call
      <3> QED BY <1>1, <2>2, <3>2
    <2>4. \A reply : req' = Answer(q, reply) => req'[q].phase = "done" /\ req'[q].reply = reply
      BY <1>1 DEF Answer, PickCallState
    <2>5. CASE ReadDraft(q)
      <3>1. CASE Admitted(req[q]) = {}
        BY <2>2, <2>4, <2>5, <3>1 DEF ReadDraft
      <3>2. CASE Admitted(req[q]) # {}
        <4>1. PICK p \in Admitted(req[q]) :
                req' = [req EXCEPT ![q].phase = "running", ![q].choice = p,
                                   ![q].seen = Snapshot(req[q].kind)]
          BY <2>5, <3>2 DEF ReadDraft
        <4>2. req'[q].phase = "running"
          BY <1>1, <4>1 DEF PickCallState
        <4> QED BY <2>2, <4>2
      <3> QED BY <3>1, <3>2
    <2>6. CASE SerializationFailure(q)
      BY <1>1, <2>2, <2>4, <2>6 DEF SerializationFailure, PickCallState
    <2>7. CASE Forget(q)
      BY <1>1, <2>2, <2>7 DEF Forget, Idle
    <2> QED BY <2>1, <2>2, <2>3, <2>5, <2>6, <2>7 DEF PickStep
  <1>3. CASE ~\E q \in Request : PickCall(q) \/ PickStep(q)
    <2>1. UNCHANGED req
      BY <1>3 DEF Next, vars, Lifecycle, startDraft, openScheduledLobby, pauseDraft, resumeDraft,
         QueueEdit, addToPreDraftQueue, removeFromPreDraftQueue, replacePreDraftQueue,
         replaceQueueRows, Retire, Tick
    <2> QED BY <2>1
  <1> QED BY <1>2, <1>3

\* The commands write no settings, and a call goes by those it has read.
LEMMA SettingsStayStep ==
  ASSUME NEW S, TypeInv, SettingsStay(S), [Next]_vars
  PROVE  SettingsStay(S)'
PROOF
  <1>1. settings' = settings /\ settings \in S
    BY VersionsGrow DEF SettingsStay
  <1>2. req \in [Request -> PickCallState]
    BY DEF TypeInv, TypeOK
  <1>3. ASSUME NEW r \in Request, req'[r].phase \in {"running", "reread"}
        PROVE  req'[r].seen.settings \in S
    <2>1. CASE req'[r] = req[r]
      BY <1>3, <2>1 DEF SettingsStay
    <2>2. CASE req'[r] # req[r] /\ req'[r].phase = "running"
      <3>1. PICK p : req'[r] = [req[r] EXCEPT !.phase = "running", !.choice = p,
                                              !.seen = Snapshot(req[r].kind)]
        BY <2>2, OnlyReadsStartRunning
      <3>2. req'[r].seen = Snapshot(req[r].kind)
        BY <1>2, <3>1 DEF PickCallState
      <3> QED BY <1>1, <3>2 DEF Snapshot
    <2>3. CASE req'[r] # req[r] /\ req'[r].phase = "reread"
      <3>1. \A reply : req' = Answer(r, reply) => req'[r].phase = "done"
        BY <1>2 DEF Answer, PickCallState
      <3>2. ~CommitPick(r) /\ ~RereadSlot(r)
        BY <2>3, <3>1 DEF CommitPick, RereadSlot
      <3>3. SlotTaken(r)
        BY <2>3, <3>2, CallMoves
      <3>4. req'[r].seen = req[r].seen /\ req[r].phase = "running"
        BY <1>2, <3>3 DEF SlotTaken, PickCallState
      <3> QED BY <3>4 DEF SettingsStay
    <2> QED BY <1>3, <2>1, <2>2, <2>3
  <1> QED BY <1>1, <1>3 DEF SettingsStay

LEMMA SettingsStayInit == Init => SettingsStay(SameBoard)
BY DEF Init, SettingsStay, SameBoard, SameOrder, Idle

\* Settings for a board as long are settings for the same turns.
LEMMA BoardKeepsOrder == SettingsStay(SameBoard) => SettingsStay(SameOrder)
BY DEF SettingsStay, SameBoard

LEMMA RereadStep ==
  TypeInv /\ CallInv /\ SettingsStay(SameOrder) /\ ReplyInv /\ [Next]_vars => RereadInv'
PROOF
  <1> SUFFICES ASSUME TypeInv, CallInv, SettingsStay(SameOrder), ReplyInv, [Next]_vars, NEW r \in Request,
                      req'[r].phase = "reread"
               PROVE  /\ CheckedOnRead(req[r])'
                      /\ UniqueViolation(req[r].seen.draft.currentPick, req[r].choice)'
    BY DEF RereadInv
  <1>1. picks \subseteq picks'
    BY PicksOnlyGrow DEF ReplyInv
  <1>2. req \in [Request -> PickCallState]
    BY DEF TypeInv, TypeOK
  <1>3. CASE req'[r] = req[r]
    <2>1. CheckedOnRead(req[r]) /\ UniqueViolation(req[r].seen.draft.currentPick, req[r].choice)
      BY <1>3 DEF ReplyInv, RereadInv
    <2>2. CheckedOnRead(req[r])'
      BY <1>3, <2>1 DEF CheckedOnRead, CurrentPickIsOpen, getExpectedTotalPicks, calculateDraftTurn
    <2> QED BY <1>1, <1>3, <2>1, <2>2 DEF UniqueViolation
  <1>4. CASE SlotTaken(r)
    <2>1. /\ req'[r].seen = req[r].seen /\ req'[r].choice = req[r].choice
          /\ req'[r].kind = req[r].kind /\ req'[r].player = req[r].player
          /\ req'[r].member = req[r].member /\ picks' = picks
      BY <1>2, <1>4 DEF SlotTaken, PickCallState
    <2>2. CheckedOnRead(req[r]) /\ UniqueViolation(req[r].seen.draft.currentPick, req[r].choice)
      BY <1>4 DEF SlotTaken, CallInv, ReadOnce
    <2>3. CheckedOnRead(req[r])'
      BY <2>1, <2>2 DEF CheckedOnRead, CurrentPickIsOpen, getExpectedTotalPicks, calculateDraftTurn
    <2> QED BY <2>1, <2>2, <2>3 DEF UniqueViolation
  <1>5. CASE CommitPick(r) \/ RereadSlot(r)
    <2>1. \A reply : req' = Answer(r, reply) => req'[r].phase = "done"
      BY <1>2 DEF Answer, PickCallState
    <2> QED BY <1>5, <2>1 DEF CommitPick, RereadSlot
  <1> QED BY <1>3, <1>4, <1>5, CallMoves

LEMMA RepliesStep ==
  TypeInv /\ CallInv /\ SettingsStay(SameOrder) /\ ReplyInv /\ [Next]_vars => RepliesAreTrue'
PROOF
  <1> SUFFICES ASSUME TypeInv, CallInv, SettingsStay(SameOrder), ReplyInv, [Next]_vars, NEW r \in Request,
                      req'[r].phase = "done"
               PROVE  /\ req'[r].reply \in {"ok", "replayed"} =>
                           \E x \in picks' :
                              /\ x.player = req'[r].choice
                              /\ req'[r].kind = "make" =>
                                   x.member = req'[r].member /\ x.player = req'[r].player
                      /\ req'[r].reply = "already picked" => req'[r].choice \in Picked'
    BY DEF RepliesAreTrue
  <1>1. picks \subseteq picks'
    BY PicksOnlyGrow DEF ReplyInv
  <1>2. req \in [Request -> PickCallState]
    BY DEF TypeInv, TypeOK
  <1>3. CASE req'[r] = req[r]
    BY <1>1, <1>3 DEF ReplyInv, RepliesAreTrue, Picked
  <1>4. \A reply : req' = Answer(r, reply) =>
          /\ req'[r].reply = reply /\ req'[r].choice = req[r].choice /\ req'[r].kind = req[r].kind
          /\ req'[r].member = req[r].member /\ req'[r].player = req[r].player
    BY <1>2 DEF Answer, PickCallState
  <1>5. CASE CommitPick(r)
    <2> DEFINE x == PickRow(req[r].seen.settings, draft.currentPick, req[r].choice, req[r].kind # "make")
    <2>1. x \in picks' /\ req' = Answer(r, "ok")
      BY <1>5 DEF CommitPick
    <2>2. CheckedOnRead(req[r]) /\ req[r].seen.draft = draft
      BY <1>5, CommitsAsRead
    <2>3. x.player = req[r].choice /\ x.member = calculateDraftTurn(req[r].seen.settings, draft.currentPick)
      BY DEF PickRow
    <2>4. req[r].kind = "make" => x.member = req[r].member /\ x.player = req[r].player
      BY <2>2, <2>3 DEF CheckedOnRead
    <2>5. /\ req'[r].reply = "ok" /\ req'[r].choice = req[r].choice /\ req'[r].kind = req[r].kind
          /\ req'[r].member = req[r].member /\ req'[r].player = req[r].player
      BY <1>4, <2>1
    <2> HIDE DEF x
    <2> QED BY <2>1, <2>3, <2>4, <2>5
  <1>6. CASE RereadSlot(r)
    <2> DEFINE holders == { x \in picks : x.overall = req[r].seen.draft.currentPick }
    <2>1. /\ req[r].phase = "reread" /\ picks' = picks
          /\ req' = Answer(r, IF holders = {} THEN "already picked"
                              ELSE IF \E x \in holders : x.player = req[r].choice THEN "replayed"
                              ELSE "slot filled")
      BY <1>6 DEF RereadSlot
    <2>2. CheckedOnRead(req[r]) /\ UniqueViolation(req[r].seen.draft.currentPick, req[r].choice)
      BY <2>1 DEF ReplyInv, RereadInv
    <2>3. CASE holders = {}
      <3>1. req[r].choice \in Picked
        BY <2>2, <2>3 DEF UniqueViolation, Picked
      <3>2. req' = Answer(r, "already picked")
        BY <2>1, <2>3
      <3>3. req'[r].reply = "already picked" /\ req'[r].choice = req[r].choice
        BY <1>4, <3>2
      <3> QED BY <2>1, <3>1, <3>3 DEF Picked
    <2>4. ASSUME NEW x \in holders, x.player = req[r].choice
          PROVE  \E y \in picks : /\ y.player = req[r].choice
                                  /\ req[r].kind = "make" => y.member = req[r].member /\ y.player = req[r].player
      <3>1. x \in picks /\ x.member = calculateDraftTurn(StartSettings, req[r].seen.draft.currentPick)
        BY DEF ReplyInv, PicksAreOnTurn
      <3>2. req[r].seen.settings \in SameOrder
        BY <2>1 DEF SettingsStay
      <3> QED BY <2>2, <2>4, <3>1, <3>2, SameTurns DEF CheckedOnRead
    <2>5. CASE \E x \in holders : x.player = req[r].choice
      <3>1. req' = Answer(r, "replayed")
        BY <2>1, <2>5
      <3>2. /\ req'[r].reply = "replayed" /\ req'[r].choice = req[r].choice /\ req'[r].kind = req[r].kind
            /\ req'[r].member = req[r].member /\ req'[r].player = req[r].player
        BY <1>4, <3>1
      <3> HIDE DEF holders
      <3> QED BY <2>1, <2>4, <2>5, <3>2
    <2>6. CASE holders # {} /\ ~\E x \in holders : x.player = req[r].choice
      <3>1. req' = Answer(r, "slot filled")
        BY <2>1, <2>6
      <3>2. req'[r].reply = "slot filled"
        BY <1>4, <3>1
      <3> QED BY <3>2
    <2> HIDE DEF holders
    <2> QED BY <2>3, <2>5, <2>6
  <1>7. CASE SlotTaken(r)
    BY <1>2, <1>7 DEF SlotTaken, PickCallState
  <1> QED BY <1>3, <1>5, <1>6, <1>7, CallMoves

LEMMA ReplyStep ==
  TypeInv /\ CallInv /\ SettingsStay(SameOrder) /\ ReplyInv /\ [Next]_vars => ReplyInv'
BY PicksOnlyGrow, RereadStep, RepliesStep DEF ReplyInv

LEMMA NothingIsAnsweredAtFirst ==
  picks = {} /\ req = [r \in Request |-> Idle] => ReplyInv
PROOF
  <1>1. Idle.phase = "idle"
    BY DEF Idle
  <1> QED BY <1>1 DEF ReplyInv, PicksAreOnTurn, RereadInv, RepliesAreTrue

\* For every race of calls: a caller who is told of a success or a replay has that very
\* pick on the board, and one who is told the player is gone has been told the truth.
THEOREM RepliesCorrect == Spec => []RepliesAreTrue
PROOF
  <1> DEFINE Inv == TypeInv /\ CallInv /\ SettingsStay(SameBoard) /\ ReplyInv
  <1>1. Init => Inv
    BY NothingIsAnsweredAtFirst, TypeInit, CallInit, SettingsStayInit DEF Init
  <1>2. Inv /\ [Next]_vars => Inv'
    BY TypeStep, CallStep, SettingsStayStep, BoardKeepsOrder, ReplyStep
  <1>3. Inv => RepliesAreTrue
    BY DEF ReplyInv
  <1> HIDE DEF Inv
  <1> QED BY <1>1, <1>2, <1>3, PTL DEF Spec

-------------------------------------------------------------------------------
(* The abstract draft *)

Total == getExpectedTotalPicks(StartSettings)

\* The board read off the rows.
ShownBoard == [k \in 1..(draft.currentPick - 1) |->
                 [member |-> PickAt(k).member, player |-> PickAt(k).player]]

ShownPick == [member : Member, player : Player]

-------------------------------------------------------------------------------
(* The board as a sequence *)

LEMMA ExtendedTable ==
  ASSUME NEW S, NEW n \in Nat, NEW f \in [1..n -> S], NEW e \in S, NEW g \in [1..(n + 1) -> S],
         \A k \in 1..n : g[k] = f[k], g[n + 1] = e
  PROVE  Len(f) = n /\ g = Append(f, e)
PROOF
  <1>1. f \in Seq(S) /\ Len(f) = n /\ g \in Seq(S) /\ Len(g) = n + 1
    OBVIOUS
  <1>2. Append(f, e) \in Seq(S) /\ Len(Append(f, e)) = n + 1
    BY <1>1, AppendProperties
  <1>3. \A k \in 1..(n + 1) : g[k] = Append(f, e)[k]
    BY <1>1, AppendProperties
  <1> QED BY <1>1, <1>2, <1>3, SeqEqual

\* There is one pick for every number already passed, and PickAt finds it.
LEMMA PickAtFinds ==
  ASSUME TypeOK, BoardHasNoGap, NEW x \in picks
  PROVE  PickAt(x.overall) = x
PROOF
  <1>1. \A y \in picks : y.overall = x.overall => y = x
    BY DEF BoardHasNoGap
  <1> QED BY <1>1, Zenon DEF PickAt

LEMMA ShownBoardType ==
  ASSUME TypeOK, BoardHasNoGap
  PROVE  /\ draft.currentPick - 1 \in Nat
         /\ \A k \in 1..(draft.currentPick - 1) : PickAt(k) \in picks /\ PickAt(k).overall = k
         /\ ShownBoard \in [1..(draft.currentPick - 1) -> ShownPick]
PROOF
  <1>1. draft.currentPick - 1 \in Nat
    BY DEF TypeOK, DraftRow
  <1>2. ASSUME NEW k \in 1..(draft.currentPick - 1)
        PROVE  PickAt(k) \in picks /\ PickAt(k).overall = k
    <2>1. k \in { x.overall : x \in picks }
      BY Zenon DEF BoardHasNoGap
    <2>2. PICK x \in picks : x.overall = k
      BY <2>1
    <2> QED BY <2>2, PickAtFinds
  <1>3. \A k \in 1..(draft.currentPick - 1) :
          [member |-> PickAt(k).member, player |-> PickAt(k).player] \in ShownPick
    BY <1>2 DEF TypeOK, Pick, ShownPick
  <1> QED BY <1>1, <1>2, <1>3 DEF ShownBoard

-------------------------------------------------------------------------------
(* The steps *)

\* What a committing call has read is as long as the draft was at its start.
LEMMA ReadTheSameBoard ==
  ASSUME SettingsStay(SameBoard), NEW r \in Request, CommitPick(r)
  PROVE  /\ req[r].seen.settings \in SameBoard /\ req[r].seen.settings \in SameOrder
         /\ getExpectedTotalPicks(req[r].seen.settings) = Total
BY DEF SettingsStay, SameBoard, CommitPick, Total, getExpectedTotalPicks

LEMMA StatusAfterPick ==
  ASSUME TypeInv, CallInv, SettingsStay(SameBoard), NEW r \in Request, CommitPick(r)
  PROVE  draft'.status = IF draft.currentPick + 1 > Total THEN "COMPLETED" ELSE "LIVE"
PROOF
  <1> DEFINE s == req[r].seen.settings
             row == NextDraftRow(draft, s)
  <1>1. /\ s \in Settings /\ getExpectedTotalPicks(s) = Total
        /\ draft.status = "LIVE" /\ draft \in DraftRow
    BY ReadTheSameBoard, CommitsAsRead DEF CheckedOnRead, TypeInv, TypeOK, SameBoard, SameOrder
  <1>2. row.status = IF draft.currentPick + 1 > Total THEN "COMPLETED" ELSE "LIVE"
    BY <1>1 DEF NextDraftRow, RunClock, StopClock, DraftRow, IsComplete
  <1>3. row \in DraftRow
    BY <1>1, NextDraftRowType DEF TypeInv
  <1>4. transitionDraftClock(row, PickEvents(r))
    BY DEF CommitPick
  <1> HIDE DEF row
  <1> QED BY <1>2, <1>3, <1>4 DEF transitionDraftClock, DraftRow

\* A commit appends the player to the board, for the member who is on the clock.
LEMMA CommitTakes ==
  ASSUME TypeInv, TypeInv', CallInv, SettingsStay(SameBoard), BoardHasNoGap, BoardHasNoGap',
         NEW r \in Request, CommitPick(r)
  PROVE  \E p \in Player : Board!Take(p)
PROOF
  <1>a. PICK k : k = draft.currentPick
    OBVIOUS
  <1>b. PICK p : p = req[r].choice
    OBVIOUS
  <1>c. PICK x : x = PickRow(StartSettings, k, p, req[r].kind # "make")
    OBVIOUS
  <1> DEFINE entry == [member |-> calculateDraftTurn(StartSettings, k), player |-> p]
  <1>1. /\ draft.status = "LIVE" /\ req[r].seen.settings \in SameOrder
        /\ CurrentPickIsOpen(draft, StartSettings)
    BY CommitsAsRead, ReadTheSameBoard DEF CheckedOnRead, CurrentPickIsOpen, Total
  <1>2. k \in Nat \ {0} /\ p \in Player
    BY <1>a, <1>b DEF CommitPick, TypeInv, TypeOK, DraftRow, CallsHoldTheirSnapshot, Holds
  <1>3. Total \in Nat
    <2>1. TeamCount \in Nat /\ StartSettings.rosterLimit \in Nat
      BY DEF Settings
    <2> QED BY <2>1, SMT DEF Total, getExpectedTotalPicks
  <1>4. k <= Total
    BY <1>1, <1>a DEF CurrentPickIsOpen, Total
  <1>5. /\ picks' = picks \cup {x} /\ x.overall = k /\ x.player = p
        /\ x.member = calculateDraftTurn(StartSettings, k)
    <2>1. picks' = picks \cup {x}
      BY <1>1, <1>a, <1>b, <1>c, SameTurns DEF CommitPick
    <2> QED BY <1>c, <2>1 DEF PickRow
  <1>6. ~UniqueViolation(k, p) /\ draft'.currentPick = k + 1
    BY <1>a, <1>b, CommitExtendsTheBoard
  <1>7. \A j \in 1..(k - 1) : PickAt(j)' = PickAt(j)
    <2> SUFFICES ASSUME NEW j \in 1..(k - 1)
                 PROVE  PickAt(j)' = PickAt(j)
      OBVIOUS
    <2>1. PickAt(j) \in picks /\ PickAt(j).overall = j
      BY <1>a, ShownBoardType DEF TypeInv
    <2>2. \A y \in picks' : y.overall = j => y = PickAt(j)
      BY <1>2, <1>5, <2>1 DEF BoardHasNoGap
    <2> QED BY <1>5, <2>1, <2>2 DEF PickAt
  <1>8. PickAt(k)' = x
    <2>1. \A y \in picks' : y.overall = k => y = x
      BY <1>5, <1>6 DEF UniqueViolation
    <2> QED BY <1>5, <2>1 DEF PickAt
  <1>9. ShownBoard \in [1..(k - 1) -> ShownPick] /\ k - 1 \in Nat
    BY <1>a, ShownBoardType DEF TypeInv
  <1>10. entry \in ShownPick /\ calculateDraftTurn(StartSettings, k) \in Member
    BY <1>2, TurnIsDefined DEF ShownPick
  <1>11. ShownBoard' = [j \in 1..k |-> [member |-> PickAt(j)'.member, player |-> PickAt(j)'.player]]
    <2>1. draft'.currentPick - 1 = k
      BY <1>2, <1>6
    <2> QED BY <2>1 DEF ShownBoard
  <1>12. \A j \in 1..(k - 1) : ShownBoard'[j] = ShownBoard[j]
    <2> SUFFICES ASSUME NEW j \in 1..(k - 1)
                 PROVE  ShownBoard'[j] = ShownBoard[j]
      OBVIOUS
    <2>1. j \in 1..k
      BY <1>2
    <2>2. ShownBoard'[j] = [member |-> PickAt(j)'.member, player |-> PickAt(j)'.player]
      BY <1>11, <2>1
    <2>3. ShownBoard[j] = [member |-> PickAt(j).member, player |-> PickAt(j).player]
      BY <1>a DEF ShownBoard
    <2>4. PickAt(j)' = PickAt(j)
      BY <1>7
    <2> QED BY <2>2, <2>3, <2>4
  <1>13. ShownBoard'[k] = entry
    BY <1>2, <1>5, <1>8, <1>11
  <1>14. ShownBoard' \in [1..k -> ShownPick]
    <2>1. \A j \in 1..(k - 1) : ShownBoard'[j] \in ShownPick
      BY <1>9, <1>12
    <2>2. \A j \in 1..k : j \in 1..(k - 1) \/ j = k
      BY <1>2
    <2>3. \A j \in 1..k : ShownBoard'[j] \in ShownPick
      BY <1>10, <1>13, <2>1, <2>2
    <2>4. ShownBoard' = [j \in 1..k |-> ShownBoard'[j]]
      BY <1>11
    <2> QED BY <2>3, <2>4
  <1>15. Len(ShownBoard) = k - 1 /\ ShownBoard' = Append(ShownBoard, entry)
    <2>1. (k - 1) + 1 = k
      BY <1>2
    <2> HIDE DEF entry
    <2> QED BY <1>9, <1>10, <1>12, <1>13, <1>14, <2>1, ExtendedTable
  <1>16. p \notin { ShownBoard[j].player : j \in DOMAIN ShownBoard }
    <2>1. \A j \in 1..(k - 1) : PickAt(j) \in picks /\ ShownBoard[j].player = PickAt(j).player
      BY <1>a, ShownBoardType DEF TypeInv, ShownBoard
    <2>2. DOMAIN ShownBoard = 1..(k - 1)
      BY <1>9
    <2> QED BY <1>6, <2>1, <2>2 DEF UniqueViolation
  <1>17. draft'.status = IF k = Total THEN "COMPLETED" ELSE "LIVE"
    <2>1. draft'.status = IF k + 1 > Total THEN "COMPLETED" ELSE "LIVE"
      BY <1>a, StatusAfterPick
    <2> QED BY <1>2, <1>3, <1>4, <2>1
  <1>18. Len(ShownBoard) + 1 = k
    BY <1>2, <1>15
  <1>19. [j \in 1..Total |-> calculateDraftTurn(StartSettings, j)][k] = calculateDraftTurn(StartSettings, k)
    BY <1>2, <1>3, <1>4
  <1>20. Board!Take(p)
    BY <1>1, <1>4, <1>15, <1>16, <1>17, <1>18, <1>19 DEF Board!Take, Board!Taken, ShownBoard, Total
  <1> QED BY <1>2, <1>20

LEMMA UntouchedBoard ==
  ASSUME picks' = picks, draft'.currentPick = draft.currentPick
  PROVE  ShownBoard' = ShownBoard
BY DEF ShownBoard, PickAt

\* A command of the lifecycle changes the phase, or only the lobby.
LEMMA LifecycleRefines ==
  ASSUME TypeOK, Lifecycle, ShownBoard' = ShownBoard
  PROVE  \/ Board!Begin \/ Board!Suspend \/ Board!Continue
         \/ draft'.status = draft.status
PROOF
  <1> USE DEF TypeOK, DraftRow
  <1>1. CASE startDraft
    <2>1. draft.status = "SCHEDULED" /\ draft'.status = "LIVE"
      BY <1>1 DEF startDraft, transitionDraftClock, RunClock
    <2> QED BY <2>1 DEF Board!Begin, ShownBoard
  <1>2. CASE openScheduledLobby
    BY <1>2 DEF openScheduledLobby
  <1>3. CASE pauseDraft
    <2>1. draft.status = "LIVE" /\ draft'.status = "PAUSED"
      BY <1>3 DEF pauseDraft, transitionDraftClock, StopClock
    <2> QED BY <2>1 DEF Board!Suspend, ShownBoard
  <1>4. CASE resumeDraft
    <2>1. draft.status = "PAUSED" /\ draft'.status = "LIVE"
      BY <1>4 DEF resumeDraft, transitionDraftClock, RunClock
    <2> QED BY <2>1 DEF Board!Continue, ShownBoard
  <1> QED BY <1>1, <1>2, <1>3, <1>4 DEF Lifecycle

LEMMA StepRefines ==
  (/\ TypeInv /\ TypeInv' /\ CallInv /\ SettingsStay(SameBoard)
   /\ BoardHasNoGap /\ BoardHasNoGap' /\ [Next]_vars)
    => [Board!BoardNext]_(Board!boardVars)
PROOF
  <1> SUFFICES ASSUME TypeInv, TypeInv', CallInv, SettingsStay(SameBoard),
                      BoardHasNoGap, BoardHasNoGap', [Next]_vars
               PROVE  Board!BoardNext \/ UNCHANGED Board!boardVars
    OBVIOUS
  <1>1. Board!boardVars = <<ShownBoard, draft.status>>
    BY DEF Board!boardVars, ShownBoard
  <1>2. CASE \E r \in Request : CommitPick(r)
    BY <1>2, CommitTakes DEF Board!BoardNext
  <1>3. CASE \A r \in Request : ~CommitPick(r)
    <2>1. ShownBoard' = ShownBoard
      BY <1>3, OnlyCommitsTouchTheBoard, UntouchedBoard DEF TypeInv
    <2>2. CASE Lifecycle
      BY <1>1, <2>1, <2>2, LifecycleRefines DEF Board!BoardNext, TypeInv, Board!boardVars, ShownBoard
    <2>3. CASE ~Lifecycle
      <3>1. UNCHANGED draft
        BY <1>3, <2>3 DEF Next, vars, QueueEdit, addToPreDraftQueue, removeFromPreDraftQueue,
           replacePreDraftQueue, replaceQueueRows, PickCall, makePick, autoPick, expirePick, Call,
           PickStep, ReadDraft, SlotTaken, SerializationFailure, RereadSlot, Forget, Retire, Tick
      <3> QED BY <2>1, <3>1 DEF Board!boardVars, ShownBoard
    <2> QED BY <2>2, <2>3
  <1> QED BY <1>2, <1>3

LEMMA InitRefines == Init => Board!BoardInit
PROOF
  <1> SUFFICES ASSUME Init PROVE Board!BoardInit
    OBVIOUS
  <1>1. draft.currentPick = 1 /\ draft.status = "SCHEDULED"
    BY DEF Init, ScheduledDraft
  <1>2. 1..(draft.currentPick - 1) = {}
    BY <1>1
  <1>3. [k \in 1..(draft.currentPick - 1) |-> [member |-> PickAt(k).member, player |-> PickAt(k).player]] = <<>>
    BY <1>2
  <1> QED BY <1>1, <1>3 DEF Board!BoardInit

\* For every league and every race of calls the service keeps the promise of DraftBoard:
\* players leave the pool one at a time, each to the member whose turn it is.
THEOREM ServiceImplementsBoard == Spec => RefinesBoard
PROOF
  <1> DEFINE Inv == TypeInv /\ CallInv /\ SettingsStay(SameBoard) /\ BoardHasNoGap
  <1>1. Init => Inv
    BY TypeInit, CallInit, SettingsStayInit DEF Init, ScheduledDraft, BoardHasNoGap
  <1>2. Inv /\ [Next]_vars => Inv'
    BY TypeStep, CallStep, SettingsStayStep, BoardStep
  <1>3. Inv /\ Inv' /\ [Next]_vars => [Board!BoardNext]_(Board!boardVars)
    BY StepRefines
  <1> HIDE DEF Inv
  <1> QED BY <1>1, <1>2, <1>3, InitRefines, PTL DEF Spec, RefinesBoard, Board!BoardSpec
-------------------------------------------------------------------------------
(* Rosters: a member's picks are counted by the rounds they belong to *)

\* Every member has one slot of the persisted order.
OneSlotEach ==
  \A m \in Member : \E i \in 1..TeamCount : \A j \in 1..TeamCount : SlotMember[j] = m <=> j = i

\* Every pick is that of the member on the clock, and a complete draft is at its end.
PicksFollowTheOrder ==
  /\ \A x \in picks : x.member = calculateDraftTurn(StartSettings, x.overall)
  /\ draft.status = "COMPLETED" => draft.currentPick = Total + 1

\* A pick belongs to one of the first r rounds exactly if it is one of their picks.
LEMMA RoundOfPick ==
  ASSUME NEW k \in Nat \ {0}, NEW r \in Nat
  PROVE  k <= r * TeamCount <=> Round(k, TeamCount) <= r
PROOF
  <1> DEFINE q == (k - 1) \div TeamCount
             x == PickIndex(k, TeamCount)
  <1>1. TeamCount \in Nat \ {0}
    OBVIOUS
  <1>2. x \in 0..(TeamCount - 1) /\ Round(k, TeamCount) = q + 1 /\ k - 1 = q * TeamCount + x
    BY <1>1, PickDivision
  <1>3. q \in Int
    BY <1>1, SMT
  <1> HIDE DEF q, x
  <1>4. CASE q + 1 <= r
    <2>1. PICK d \in Nat : r = q + 1 + d
      <3>1. r - (q + 1) \in Nat /\ r = q + 1 + (r - (q + 1))
        BY <1>3, <1>4
      <3> QED BY <3>1
    <2>2. r * TeamCount = q * TeamCount + TeamCount + d * TeamCount
      BY <1>1, <1>3, <2>1, SMT
    <2>3. d * TeamCount >= 0
      BY <1>1, SMT
    <2>4. k <= r * TeamCount
      BY <1>1, <1>2, <1>3, <2>2, <2>3, SMT
    <2> QED BY <1>2, <1>4, <2>4
  <1>5. CASE ~(q + 1 <= r)
    <2>1. PICK d \in Nat : q = r + d
      <3>1. q - r \in Nat /\ q = r + (q - r)
        BY <1>3, <1>5
      <3> QED BY <3>1
    <2>2. q * TeamCount = r * TeamCount + d * TeamCount
      BY <1>1, <1>3, <2>1, SMT
    <2>3. d * TeamCount >= 0
      BY <1>1, SMT
    <2>4. k > r * TeamCount
      BY <1>1, <1>2, <1>3, <2>2, <2>3, SMT
    <2> QED BY <1>2, <1>5, <2>4
  <1> QED BY <1>4, <1>5

\* Every slot comes up in every round, forwards or backwards.
LEMMA SlotInEveryRound ==
  ASSUME NEW type \in DraftType, NEW q \in Nat \ {0}, NEW i \in 1..TeamCount
  PROVE  \E k \in Nat \ {0} : Round(k, TeamCount) = q /\ Slot(type, k, TeamCount) = i
PROOF
  <1>1. TeamCount \in Nat \ {0}
    OBVIOUS
  <1>2. PICK x \in 0..(TeamCount - 1) : x = IF type = "SNAKE" /\ q % 2 = 0 THEN TeamCount - i ELSE i - 1
    <2>1. TeamCount - i \in 0..(TeamCount - 1) /\ i - 1 \in 0..(TeamCount - 1)
      BY <1>1
    <2> QED BY <2>1
  <1>3. PICK k : k = (q - 1) * TeamCount + x + 1
    OBVIOUS
  <1>4. (q - 1) * TeamCount \in Nat
    BY <1>1, SMT
  <1>5. k \in Nat \ {0}
    BY <1>1, <1>3, <1>4
  <1>6. k - 1 = (q - 1) * TeamCount + x
    BY <1>1, <1>3, <1>4
  <1>7. (k - 1) \div TeamCount = q - 1 /\ (k - 1) % TeamCount = x
    BY <1>1, <1>6, SMT
  <1>8. Round(k, TeamCount) = q
    <2>1. Round(k, TeamCount) = (k - 1) \div TeamCount + 1
      BY <1>1, <1>5, PickDivision
    <2>2. Round(k, TeamCount) = (q - 1) + 1
      BY <1>7, <2>1
    <2> QED BY <2>2
  <1>9. PickIndex(k, TeamCount) = x
    BY <1>7 DEF PickIndex
  <1>10. Slot(type, k, TeamCount) = i
    BY <1>1, <1>2, <1>8, <1>9 DEF Slot, IsReverse
  <1> QED BY <1>5, <1>8, <1>10

\* Of the first rounds, all of them played, every member has one pick each.
LEMMA OnePickARound ==
  ASSUME OneSlotEach, TypeOK, BoardHasNoGap, PicksFollowTheOrder, NEW m \in Member, NEW r \in Nat,
         r * TeamCount < draft.currentPick
  PROVE  Cardinality({ x \in picks : x.member = m /\ x.overall <= r * TeamCount }) = r
PROOF
  <1> DEFINE mine == { x \in picks : x.member = m /\ x.overall <= r * TeamCount }
             type == StartSettings.draftType
             Mark(x) == Round(x.overall, TeamCount)
  <1>1. /\ TeamCount \in Nat \ {0} /\ type \in DraftType /\ StartSettings \in Settings
        /\ draft.currentPick \in Nat \ {0} /\ r * TeamCount \in Nat
    <2>1. r * TeamCount \in Nat
      BY SMT
    <2> QED BY <2>1 DEF Settings, TypeOK, DraftRow
  <1>2. PICK i \in 1..TeamCount : \A j \in 1..TeamCount : SlotMember[j] = m <=> j = i
    BY DEF OneSlotEach
  <1>3. \A x \in picks : x.overall \in Nat \ {0}
    BY DEF TypeOK, Pick
  <1>4. \A x \in picks : x.member = m <=> Slot(type, x.overall, TeamCount) = i
    <2> SUFFICES ASSUME NEW x \in picks
                 PROVE  x.member = m <=> Slot(type, x.overall, TeamCount) = i
      OBVIOUS
    <2>1. Slot(type, x.overall, TeamCount) \in 1..TeamCount
      BY <1>1, <1>3, TurnIsDefined
    <2>2. x.member = SlotMember[Slot(type, x.overall, TeamCount)]
      BY DEF PicksFollowTheOrder, calculateDraftTurn
    <2> QED BY <1>2, <2>1, <2>2
  <1> HIDE DEF type
  <1>5. \A x \in mine : x \in picks /\ Mark(x) \in 1..r
    <2> SUFFICES ASSUME NEW x \in mine PROVE Mark(x) \in 1..r
      OBVIOUS
    <2>1. x.overall \in Nat \ {0} /\ x.overall <= r * TeamCount
      BY <1>3
    <2>2. Mark(x) \in Nat \ {0}
      BY <1>1, <2>1, PickDivision
    <2>3. Mark(x) <= r
      BY <2>1, RoundOfPick
    <2> QED BY <2>2, <2>3
  <1>6. \A x, y \in mine : Mark(x) = Mark(y) => x = y
    <2> SUFFICES ASSUME NEW x \in mine, NEW y \in mine, Mark(x) = Mark(y)
                 PROVE  x = y
      OBVIOUS
    <2>1. x.overall \in Nat \ {0} /\ y.overall \in Nat \ {0}
      BY <1>3
    <2>2. Slot(type, x.overall, TeamCount) = Slot(type, y.overall, TeamCount)
      BY <1>4
    <2>3. x.overall = y.overall
      BY <1>1, <2>1, <2>2, SlotOncePerRound
    <2> QED BY <2>3 DEF BoardHasNoGap
  <1>7. \A q \in 1..r : \E x \in mine : Mark(x) = q
    <2> SUFFICES ASSUME NEW q \in 1..r PROVE \E x \in mine : Mark(x) = q
      OBVIOUS
    <2>0. q \in Nat \ {0}
      OBVIOUS
    <2>1. PICK k \in Nat \ {0} : Round(k, TeamCount) = q /\ Slot(type, k, TeamCount) = i
      BY <1>1, <2>0, SlotInEveryRound
    <2>2. k <= r * TeamCount
      BY <2>1, RoundOfPick
    <2>3. k \in 1..(draft.currentPick - 1)
      BY <1>1, <2>2
    <2>4. PICK x \in picks : x.overall = k
      BY <2>3, Zenon DEF BoardHasNoGap
    <2>5. x \in mine
      BY <1>4, <2>1, <2>2, <2>4
    <2> QED BY <2>1, <2>4, <2>5
  <1> DEFINE PickOf == [q \in 1..r |-> CHOOSE x \in mine : Mark(x) = q]
  <1> HIDE DEF Mark, mine
  <1>8. \A q \in 1..r : PickOf[q] \in mine /\ Mark(PickOf[q]) = q
    BY <1>7
  <1>9. \A x \in mine : Mark(x) \in 1..r /\ PickOf[Mark(x)] = x
    BY <1>5, <1>6, <1>8
  <1>10. PickOf \in Bijection(1..r, mine)
    <2>1. PickOf \in [1..r -> mine]
      BY <1>8
    <2> HIDE DEF PickOf
    <2> QED BY <1>8, <1>9, <2>1 DEF Bijection, Injection, Surjection, IsInjective
  <1>11. Cardinality(mine) = r
    <2> HIDE DEF PickOf
    <2> QED BY <1>10, FS_CountingElements DEF ExistsBijection
  <1> QED BY <1>11 DEF mine

LEMMA RostersEven ==
  ASSUME OneSlotEach, TypeOK, SettingsStay(SameBoard), BoardHasNoGap, PicksFollowTheOrder
  PROVE  RostersFillEvenly
PROOF
  <1> SUFFICES ASSUME NEW m \in Member
               PROVE  LET mine == { x \in picks : x.member = m }
                      IN /\ \A r \in 1..draft.round : r * TeamCount < draft.currentPick =>
                              Cardinality({ x \in mine : x.overall <= r * TeamCount }) = r
                         /\ draft.status = "COMPLETED" => Cardinality(mine) = settings.rosterLimit
    BY DEF RostersFillEvenly
  <1> DEFINE mine == { x \in picks : x.member = m }
  <1>1. \A r : { x \in mine : x.overall <= r * TeamCount }
                 = { x \in picks : x.member = m /\ x.overall <= r * TeamCount }
    OBVIOUS
  <1>2. ASSUME NEW r \in 1..draft.round, r * TeamCount < draft.currentPick
        PROVE  Cardinality({ x \in mine : x.overall <= r * TeamCount }) = r
    <2>1. r \in Nat
      BY DEF TypeOK, DraftRow
    <2> QED BY <1>1, <1>2, <2>1, OnePickARound
  <1>3. ASSUME draft.status = "COMPLETED"
        PROVE  Cardinality(mine) = settings.rosterLimit
    <2>1. PICK r \in Nat : r = settings.rosterLimit /\ r = StartSettings.rosterLimit
      BY DEF SettingsStay, SameBoard, SameOrder, Settings
    <2>2. TeamCount * r = r * TeamCount /\ r * TeamCount \in Nat
      BY SMT
    <2>3. draft.currentPick = r * TeamCount + 1
      BY <1>3, <2>1, <2>2 DEF PicksFollowTheOrder, Total, getExpectedTotalPicks
    <2>4. \A x \in picks : x.overall <= r * TeamCount
      <3> SUFFICES ASSUME NEW x \in picks PROVE x.overall <= r * TeamCount
        OBVIOUS
      <3>1. x.overall \in 1..(draft.currentPick - 1)
        BY Zenon DEF BoardHasNoGap
      <3> QED BY <2>2, <2>3, <3>1
    <2>5. mine = { x \in picks : x.member = m /\ x.overall <= r * TeamCount }
      BY <2>4
    <2>6. r * TeamCount < draft.currentPick
      BY <2>2, <2>3
    <2> QED BY <2>1, <2>5, <2>6, OnePickARound
  <1> QED BY <1>2, <1>3

LEMMA OrderIsFollowed ==
  TypeInv /\ CallInv /\ SettingsStay(SameBoard) /\ PicksFollowTheOrder /\ [Next]_vars
    => PicksFollowTheOrder'
PROOF
  <1> SUFFICES ASSUME TypeInv, CallInv, SettingsStay(SameBoard), PicksFollowTheOrder, [Next]_vars
               PROVE  PicksFollowTheOrder'
    OBVIOUS
  <1>1. CASE \E r \in Request : CommitPick(r)
    <2>1. PICK r \in Request : CommitPick(r)
      BY <1>1
    <2>2. req[r].seen.settings \in SameOrder /\ CurrentPickIsOpen(draft, StartSettings)
      BY <2>1, CommitsAsRead, ReadTheSameBoard DEF CheckedOnRead, CurrentPickIsOpen, Total
    <2>3. \A x \in picks' : x.member = calculateDraftTurn(StartSettings, x.overall)
      <3>1. PICK x : /\ x = PickRow(StartSettings, draft.currentPick, req[r].choice, req[r].kind # "make")
                     /\ picks' = picks \cup {x}
        BY <2>1, <2>2, SameTurns DEF CommitPick
      <3>2. x.member = calculateDraftTurn(StartSettings, x.overall)
        BY <3>1 DEF PickRow
      <3> QED BY <3>1, <3>2 DEF PicksFollowTheOrder
    <2>4. draft'.currentPick = draft.currentPick + 1
      BY <2>1, CommitExtendsTheBoard
    <2>5. draft'.status = IF draft.currentPick + 1 > Total THEN "COMPLETED" ELSE "LIVE"
      BY <2>1, StatusAfterPick
    <2>6. draft.currentPick \in Nat /\ Total \in Nat
      <3>1. TeamCount \in Nat /\ StartSettings.rosterLimit \in Nat
        BY DEF Settings
      <3> QED BY <3>1, SMT DEF TypeInv, TypeOK, DraftRow, Total, getExpectedTotalPicks
    <2>7. draft'.status = "COMPLETED" => draft'.currentPick = Total + 1
      BY <2>2, <2>4, <2>5, <2>6 DEF CurrentPickIsOpen, Total
    <2> QED BY <2>3, <2>7 DEF PicksFollowTheOrder
  <1>2. CASE \A r \in Request : ~CommitPick(r)
    <2>1. picks' = picks /\ draft'.currentPick = draft.currentPick
      BY <1>2, OnlyCommitsTouchTheBoard DEF TypeInv
    <2>2. draft'.status = "COMPLETED" => draft.status = "COMPLETED"
      <3>1. CASE Lifecycle
        <4>1. CASE startDraft
          BY <4>1 DEF startDraft, transitionDraftClock, RunClock, TypeInv, TypeOK, DraftRow
        <4>2. CASE openScheduledLobby
          BY <4>2 DEF openScheduledLobby, TypeInv, TypeOK, DraftRow
        <4>3. CASE pauseDraft
          BY <4>3 DEF pauseDraft, transitionDraftClock, StopClock, TypeInv, TypeOK, DraftRow
        <4>4. CASE resumeDraft
          BY <4>4 DEF resumeDraft, transitionDraftClock, RunClock, TypeInv, TypeOK, DraftRow
        <4> QED BY <3>1, <4>1, <4>2, <4>3, <4>4 DEF Lifecycle
      <3>2. CASE ~Lifecycle
        <4>1. UNCHANGED draft
          BY <1>2, <3>2 DEF Next, vars, QueueEdit, addToPreDraftQueue, removeFromPreDraftQueue,
             replacePreDraftQueue, replaceQueueRows, PickCall, makePick, autoPick, expirePick, Call,
             PickStep, ReadDraft, SlotTaken, SerializationFailure, RereadSlot, Forget, Retire, Tick
        <4> QED BY <4>1
      <3> QED BY <3>1, <3>2
    <2> QED BY <2>1, <2>2 DEF PicksFollowTheOrder
  <1> QED BY <1>1, <1>2

\* In every league whose persisted order gives each member one slot: after each
\* round everybody has one pick more, and a complete draft leaves every roster full.
THEOREM RostersCorrect == ASSUME OneSlotEach PROVE Spec => []RostersFillEvenly
PROOF
  <1> DEFINE Inv == TypeInv /\ CallInv /\ SettingsStay(SameBoard) /\ BoardHasNoGap /\ PicksFollowTheOrder
  <1>1. Init => Inv
    BY TypeInit, CallInit, SettingsStayInit DEF Init, ScheduledDraft, BoardHasNoGap, PicksFollowTheOrder
  <1>2. Inv /\ [Next]_vars => Inv'
    BY TypeStep, CallStep, SettingsStayStep, BoardStep, OrderIsFollowed
  <1>3. Inv => RostersFillEvenly
    BY RostersEven DEF TypeInv
  <1> HIDE DEF Inv
  <1> QED BY <1>1, <1>2, <1>3, PTL DEF Spec
===============================================================================
