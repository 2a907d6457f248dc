--------------------------- MODULE DraftClockProofs ---------------------------
(***************************************************************************)
(* The turn clock and the event stream of the durable draft, for every     *)
(* pick time, every resolution of the clock and every number of pauses.    *)
(***************************************************************************)
EXTENDS DraftCommandsProofs, DraftAdmin

USE TeamsAssumption, PoolAssumption, SettingsAssumption, NullAssumption

-------------------------------------------------------------------------------
(* Whole seconds *)

\* Whole seconds never grow while ticks run out.
LEMMA CeilSecondsMonotone ==
  ASSUME NEW a \in Int, NEW b \in Int, a <= b
  PROVE  CeilSeconds(a) <= CeilSeconds(b)
PROOF
  <1> DEFINE T == TicksPerSecond
             x == a + T - 1
             y == b + T - 1
  <1>1. CASE a <= 0
    <2>1. CeilSeconds(b) \in Nat /\ CeilSeconds(a) = 0
      BY <1>1, CeilSecondsType DEF CeilSeconds
    <2> QED BY <2>1
  <1>2. CASE a > 0
    <2>1. T \in Nat \ {0} /\ x \in Nat /\ y \in Nat /\ x <= y
      BY <1>2
    <2>2. CeilSeconds(a) = x \div T /\ CeilSeconds(b) = y \div T
      BY <1>2 DEF CeilSeconds
    <2> HIDE DEF T, x, y
    <2>3. x \div T \in Int /\ y \div T \in Int
      BY <2>1, SMT
    <2>4. T * (x \div T) <= x /\ y < T * (y \div T) + T
      BY <2>1, SMT
    <2>5. T * (x \div T) < T * (y \div T) + T
      BY <2>1, <2>3, <2>4, SMT
    <2>6. x \div T < y \div T + 1
      BY <2>1, <2>3, <2>5, SMT
    <2> QED BY <2>2, <2>3, <2>6
  <1> QED BY <1>1, <1>2

\* A deadline some whole seconds away is that many seconds away.
LEMMA CeilSecondsOfSeconds ==
  ASSUME NEW from \in Nat, NEW seconds \in Nat
  PROVE  CeilSeconds(buildPickDeadline(from, seconds) - from) = seconds
PROOF
  <1> DEFINE T == TicksPerSecond
             ticks == seconds * T
  <1>1. T \in Nat \ {0}
    OBVIOUS
  <1>2. ticks \in Nat
    BY SMT
  <1>3. buildPickDeadline(from, seconds) - from = ticks
    BY <1>2, SMT DEF buildPickDeadline
  <1>4. CASE seconds = 0
    BY <1>1, <1>3, <1>4, SMT DEF CeilSeconds
  <1>5. CASE seconds > 0
    <2>1. ticks > 0
      BY <1>1, <1>5, SMT
    <2>2. (ticks + T - 1) \div T = seconds
      BY <1>1, SMT
    <2> QED BY <1>3, <2>1, <2>2 DEF CeilSeconds
  <1> QED BY <1>4, <1>5

-------------------------------------------------------------------------------
(* What a transition leaves in the row *)

LEMMA TransitionFields ==
  ASSUME NEW row \in DraftRow, NEW names, transitionDraftClock(row, names)
  PROVE  /\ draft'.status = row.status /\ draft'.currentPick = row.currentPick
         /\ draft'.pickStartedAt = row.pickStartedAt /\ draft'.pickDeadlineAt = row.pickDeadlineAt
         /\ draft'.pausedRemaining = row.pausedRemaining /\ draft'.clockDuration = row.clockDuration
BY DEF transitionDraftClock, DraftRow

LEMMA RunClockFields ==
  ASSUME NEW row \in DraftRow, NEW seconds
  PROVE  /\ RunClock(row, seconds).status = row.status
         /\ RunClock(row, seconds).currentPick = row.currentPick
         /\ RunClock(row, seconds).pickStartedAt = now
         /\ RunClock(row, seconds).pickDeadlineAt = buildPickDeadline(now, seconds)
         /\ RunClock(row, seconds).pausedRemaining = Null
         /\ RunClock(row, seconds).clockDuration = seconds
BY DEF RunClock, DraftRow

LEMMA StopClockFields ==
  ASSUME NEW row \in DraftRow, NEW remaining
  PROVE  /\ StopClock(row, remaining).status = row.status
         /\ StopClock(row, remaining).currentPick = row.currentPick
         /\ StopClock(row, remaining).pickStartedAt = Null
         /\ StopClock(row, remaining).pickDeadlineAt = Null
         /\ StopClock(row, remaining).pausedRemaining = remaining
         /\ StopClock(row, remaining).clockDuration = row.clockDuration
BY DEF StopClock, DraftRow

\* A deadline is a number and never lies before its start.
LEMMA DeadlineFollowsStart ==
  ASSUME NEW from \in Nat, NEW seconds \in Nat
  PROVE  /\ buildPickDeadline(from, seconds) \in Nat
         /\ from <= buildPickDeadline(from, seconds)
         /\ from # Null /\ buildPickDeadline(from, seconds) # Null /\ seconds # Null
PROOF
  <1>1. seconds * TicksPerSecond \in Nat
    BY SMT
  <1>2. buildPickDeadline(from, seconds) \in Nat /\ from <= buildPickDeadline(from, seconds)
    BY <1>1 DEF buildPickDeadline
  <1> QED BY <1>2

LEMMA RunningIsValid ==
  ASSUME NEW d, NEW from \in Nat, NEW seconds \in Nat,
         d.pickStartedAt = from, d.pickDeadlineAt = buildPickDeadline(from, seconds),
         d.pausedRemaining = Null, d.clockDuration \in Nat \ {0}
  PROVE  HasValidAnchors(d)
PROOF
  <1>1. /\ d.pickDeadlineAt \in Nat /\ d.pickStartedAt <= d.pickDeadlineAt
        /\ d.pickStartedAt # Null /\ d.pickDeadlineAt # Null
    BY DeadlineFollowsStart
  <1>2. d.clockDuration # Null /\ d.clockDuration > 0
    OBVIOUS
  <1>3. d.pickDeadlineAt >= d.pickStartedAt
    BY <1>1
  <1> QED BY <1>1, <1>2, <1>3 DEF HasValidAnchors

\* The clock of a draft that has just been started.
LEMMA StartedClock ==
  ASSUME TypeOK, startDraft
  PROVE  draft'.status = "LIVE" /\ HasValidAnchors(draft')
PROOF
  <1> DEFINE live == [draft EXCEPT !.status = "LIVE", !.lobby = "LIVE"]
             seconds == settings.pickSeconds
             row == RunClock(live, seconds)
  <1>1. live \in DraftRow /\ live.status = "LIVE" /\ now \in Nat /\ seconds \in Nat \ {0}
    BY DEF TypeOK, DraftRow, DraftStatus, Settings
  <1>2. transitionDraftClock(row, <<"draft:started">>)
    BY DEF startDraft
  <1> HIDE DEF live, seconds
  <1>3. row \in DraftRow
    BY <1>1, RunClockType
  <1> HIDE DEF row
  <1>4. /\ draft'.status = "LIVE" /\ draft'.pickStartedAt = now
        /\ draft'.pickDeadlineAt = buildPickDeadline(now, seconds)
        /\ draft'.pausedRemaining = Null /\ draft'.clockDuration = seconds
    BY <1>1, <1>2, <1>3, TransitionFields, RunClockFields DEF row
  <1> QED BY <1>1, <1>4, RunningIsValid

\* A paused turn keeps the whole seconds it had left.
LEMMA PausedClock ==
  ASSUME TypeOK, ClockAgreesWithStatus, pauseDraft
  PROVE  /\ draft'.status = "PAUSED" /\ draft'.currentPick = draft.currentPick
         /\ draft'.pickStartedAt = Null /\ draft'.pickDeadlineAt = Null
         /\ draft'.pausedRemaining = CeilSeconds(draft.pickDeadlineAt - now)
         /\ draft'.pausedRemaining \in Nat
PROOF
  <1> DEFINE remaining == calculatePausedRemainingSeconds
             stopped == StopClock(draft, remaining)
             row == [stopped EXCEPT !.status = "PAUSED",
                       !.clockDuration = IF @ = Null THEN settings.pickSeconds ELSE @]
  <1>1. /\ draft \in DraftRow /\ now \in Nat /\ settings.pickSeconds \in Nat \ {0}
        /\ draft.pickDeadlineAt \in Int \cup {Null}
        /\ draft.clockDuration \in (Nat \ {0}) \cup {Null}
    BY DEF TypeOK, DraftRow, OrNull, Settings
  <1>2. draft.pickDeadlineAt # Null
    BY DEF pauseDraft, ClockAgreesWithStatus, HasValidAnchors
  <1>3. remaining = CeilSeconds(draft.pickDeadlineAt - now)
    BY <1>2 DEF calculatePausedRemainingSeconds
  <1>4. remaining \in Nat
    <2>1. draft.pickDeadlineAt - now \in Int
      BY <1>1, <1>2
    <2> QED BY <1>3, <2>1, CeilSecondsType
  <1>5. transitionDraftClock(row, <<"draft:paused">>)
    BY DEF pauseDraft
  <1> HIDE DEF remaining
  <1>6. stopped \in DraftRow
    BY <1>1, <1>4, StopClockType
  <1>7. /\ stopped.pickStartedAt = Null /\ stopped.pickDeadlineAt = Null
        /\ stopped.pausedRemaining = remaining /\ stopped.currentPick = draft.currentPick
    BY <1>1, StopClockFields
  <1> HIDE DEF stopped
  <1>8. /\ row \in DraftRow /\ row.status = "PAUSED" /\ row.currentPick = draft.currentPick
        /\ row.pickStartedAt = Null /\ row.pickDeadlineAt = Null /\ row.pausedRemaining = remaining
    BY <1>1, <1>6, <1>7 DEF DraftRow, DraftStatus, OrNull
  <1> HIDE DEF row
  <1> QED BY <1>3, <1>4, <1>5, <1>8, TransitionFields

\* A resumed turn runs for exactly the seconds that were left.
LEMMA ResumedClock ==
  ASSUME TypeOK, ClockAgreesWithStatus, resumeDraft
  PROVE  /\ draft'.status = "LIVE" /\ draft'.currentPick = draft.currentPick
         /\ HasValidAnchors(draft')
         /\ draft'.pickDeadlineAt = buildPickDeadline(now, draft.pausedRemaining)
         /\ draft.pausedRemaining \in Nat
PROOF
  <1> DEFINE remaining == IF draft.pausedRemaining # Null THEN draft.pausedRemaining
                          ELSE IF draft.clockDuration # Null THEN draft.clockDuration
                          ELSE settings.pickSeconds
             duration == IF remaining = 0 THEN 1 ELSE remaining
             live == [draft EXCEPT !.status = "LIVE"]
             run == RunClock(live, remaining)
             row == [run EXCEPT !.clockDuration = duration]
  <1>1. /\ live \in DraftRow /\ now \in Nat /\ live.status = "LIVE"
        /\ live.currentPick = draft.currentPick
    BY DEF TypeOK, DraftRow, DraftStatus
  <1>2. /\ draft.pausedRemaining # Null /\ draft.pausedRemaining \in Nat
        /\ remaining = draft.pausedRemaining
    BY DEF TypeOK, DraftRow, OrNull, resumeDraft, ClockAgreesWithStatus
  <1>3. duration \in Nat \ {0}
    BY <1>2
  <1>4. transitionDraftClock(row, <<"draft:resumed">>)
    BY DEF resumeDraft
  <1> HIDE DEF remaining, duration, live
  <1>5. row \in DraftRow
    BY <1>1, <1>2, <1>3, RunClockType
  <1>6. /\ row.status = run.status /\ row.currentPick = run.currentPick
        /\ row.pickStartedAt = run.pickStartedAt /\ row.pickDeadlineAt = run.pickDeadlineAt
        /\ row.pausedRemaining = run.pausedRemaining /\ row.clockDuration = duration
    BY <1>1 DEF RunClock, DraftRow
  <1>7. /\ run.status = "LIVE" /\ run.currentPick = draft.currentPick
        /\ run.pickStartedAt = now /\ run.pickDeadlineAt = buildPickDeadline(now, remaining)
        /\ run.pausedRemaining = Null
    BY <1>1, RunClockFields
  <1> HIDE DEF row, run
  <1>8. /\ draft'.status = "LIVE" /\ draft'.currentPick = draft.currentPick
        /\ draft'.pickStartedAt = now /\ draft'.pickDeadlineAt = buildPickDeadline(now, remaining)
        /\ draft'.pausedRemaining = Null /\ draft'.clockDuration = duration
    BY <1>4, <1>5, <1>6, <1>7, TransitionFields
  <1>9. HasValidAnchors(draft')
    BY <1>1, <1>2, <1>3, <1>8, RunningIsValid
  <1> QED BY <1>2, <1>8, <1>9

\* What a call has read is a LIVE draft and, for an expiry job, its own turn with no
\* time left.  That stays so, whatever settings are saved meanwhile.
ReadARunningTurn(c) ==
  /\ c.seen.draft.status = "LIVE"
  /\ c.kind = "expire" => /\ c.seen.draft.version = c.expect
                          /\ c.seen.draft.pickDeadlineAt # Null
                          /\ c.seen.draft.pickDeadlineAt <= now

CallsReadARunningTurn == \A r \in Request : req[r].phase = "running" => ReadARunningTurn(req[r])

LEMMA RunningTurnStep == TypeInv /\ CallsReadARunningTurn /\ [Next]_vars => CallsReadARunningTurn'
PROOF
  <1> SUFFICES ASSUME TypeInv, CallsReadARunningTurn, [Next]_vars,
                      NEW r \in Request, req'[r].phase = "running"
               PROVE  ReadARunningTurn(req[r])'
    BY DEF CallsReadARunningTurn
  <1>1. now \in Nat /\ now' \in Nat /\ now <= now'
    BY VersionsGrow
  <1>2. CASE req'[r] = req[r]
    <2>1. ReadARunningTurn(req[r]) /\ req[r].seen \in SnapshotRow
      BY <1>2 DEF CallsReadARunningTurn, TypeInv, CallsHoldTheirSnapshot, Holds
    <2>2. req[r].seen.draft.pickDeadlineAt \in Int \cup {Null}
      BY <2>1 DEF SnapshotRow, DraftRow, OrNull
    <2> QED BY <1>1, <1>2, <2>1, <2>2 DEF ReadARunningTurn
  <1>3. CASE req'[r] # req[r]
    <2>1. now' = now
      BY <1>3, OnlyReadsStartRunning
    <2>2. PICK p \in Admitted(req[r]) :
            req'[r] = [req[r] EXCEPT !.phase = "running", !.choice = p, !.seen = Snapshot(req[r].kind)]
      BY <1>3, OnlyReadsStartRunning
    <2>3. /\ req'[r].seen.draft = draft /\ req'[r].kind = req[r].kind
          /\ req'[r].expect = req[r].expect
      BY <2>2 DEF TypeInv, TypeOK, PickCallState, Snapshot
    <2>4. draft.status = "LIVE" /\ (req[r].kind = "expire" => requireExpired(req[r]))
      BY <2>2 DEF Admitted
    <2> QED BY <2>1, <2>3, <2>4 DEF ReadARunningTurn, requireExpired
  <1> QED BY <1>2, <1>3

LEMMA RunningTurnInit == Init => CallsReadARunningTurn
BY DEF Init, CallsReadARunningTurn, Idle

\* The clock a pick leaves: that of the next turn, or none.
LEMMA ClockAfterPick ==
  ASSUME TypeInv, CallsReadARunningTurn, NEW r \in Request, CommitPick(r)
  PROVE  \/ draft'.status = "LIVE" /\ HasValidAnchors(draft')
         \/ /\ draft'.status = "COMPLETED"
            /\ draft'.pickStartedAt = Null /\ draft'.pickDeadlineAt = Null
            /\ draft'.pausedRemaining = Null
PROOF
  <1> DEFINE s == req[r].seen.settings
             next == [draft EXCEPT !.currentPick = draft.currentPick + 1]
             turn == [next EXCEPT !.round = Round(next.currentPick, TeamCount),
                                  !.direction = Direction(s.draftType, next.currentPick, TeamCount)]
             row == NextDraftRow(draft, s)
  <1>1. s \in Settings /\ draft.status = "LIVE"
    BY DEF CommitPick, TypeInv, CallsHoldTheirSnapshot, Holds, SnapshotRow, SnapshotHolds,
           CallsReadARunningTurn, ReadARunningTurn
  <1>2. row \in DraftRow /\ transitionDraftClock(row, PickEvents(r))
    BY <1>1, NextDraftRowType DEF CommitPick, TypeInv
  <1>3. draft \in DraftRow /\ now \in Nat /\ draft.currentPick + 1 \in Nat \ {0}
        /\ s.pickSeconds \in Nat \ {0}
    BY <1>1 DEF TypeInv, TypeOK, DraftRow, Settings
  <1>4. next \in DraftRow /\ next.status = "LIVE" /\ next.currentPick \in Nat \ {0}
    BY <1>1, <1>3 DEF DraftRow
  <1>5. CASE IsComplete(s, draft.currentPick)
    <2> DEFINE stopped == StopClock(next, Null)
    <2>1. row = [stopped EXCEPT !.status = "COMPLETED",
                                !.clockDuration = IF @ = Null THEN s.pickSeconds ELSE @]
      BY <1>5 DEF NextDraftRow
    <2> HIDE DEF next, row
    <2>2. /\ stopped \in DraftRow /\ stopped.pickStartedAt = Null
          /\ stopped.pickDeadlineAt = Null /\ stopped.pausedRemaining = Null
      BY <1>4, StopClockType, StopClockFields
    <2> HIDE DEF stopped
    <2>3. /\ row.status = "COMPLETED" /\ row.pickStartedAt = Null
          /\ row.pickDeadlineAt = Null /\ row.pausedRemaining = Null
      BY <2>1, <2>2 DEF DraftRow
    <2> QED BY <1>2, <2>3, TransitionFields
  <1>6. CASE ~IsComplete(s, draft.currentPick)
    <2>1. row = RunClock(turn, s.pickSeconds)
      BY <1>6 DEF NextDraftRow
    <2>2. turn \in DraftRow /\ turn.status = "LIVE"
      <3>1. /\ Round(next.currentPick, TeamCount) \in Nat \ {0}
            /\ Direction(s.draftType, next.currentPick, TeamCount) \in {"FORWARD", "REVERSE"}
        BY <1>1, <1>4, TurnIsDefined
      <3> HIDE DEF next, s
      <3> QED BY <1>4, <3>1 DEF DraftRow
    <2> HIDE DEF turn, row, s
    <2>3. /\ row.status = "LIVE" /\ row.pickStartedAt = now
          /\ row.pickDeadlineAt = buildPickDeadline(now, s.pickSeconds)
          /\ row.pausedRemaining = Null /\ row.clockDuration = s.pickSeconds
      BY <2>1, <2>2, RunClockFields
    <2>4. /\ draft'.status = "LIVE" /\ draft'.pickStartedAt = now
          /\ draft'.pickDeadlineAt = buildPickDeadline(now, s.pickSeconds)
          /\ draft'.pausedRemaining = Null /\ draft'.clockDuration = s.pickSeconds
      BY <1>2, <2>3, TransitionFields
    <2> QED BY <1>3, <2>4, RunningIsValid
  <1> QED BY <1>5, <1>6

-------------------------------------------------------------------------------
(* The clock and the status *)

\* Only the clock transitions and the opening of the lobby write the row.
LEMMA RowWriters ==
  ASSUME [Next]_vars
  PROVE  \/ startDraft \/ openScheduledLobby \/ pauseDraft \/ resumeDraft
         \/ \E r \in Request : CommitPick(r)
         \/ UNCHANGED <<draft, outbox>>
PROOF
  <1> SUFFICES ASSUME ~Lifecycle, \A r \in Request : ~CommitPick(r)
               PROVE  UNCHANGED <<draft, outbox>>
    BY DEF Lifecycle
  <1> QED BY DEF Next, vars, QueueEdit, addToPreDraftQueue, removeFromPreDraftQueue,
     replacePreDraftQueue, replaceQueueRows, PickCall, makePick, autoPick, expirePick, Call,
     PickStep, ReadDraft, SlotTaken, SerializationFailure, RereadSlot, Forget, Retire, Tick

LEMMA OpenedLobby ==
  ASSUME TypeOK, openScheduledLobby
  PROVE  /\ draft.status = "SCHEDULED" /\ draft'.status = draft.status
         /\ draft'.pickStartedAt = draft.pickStartedAt /\ draft'.pickDeadlineAt = draft.pickDeadlineAt
         /\ draft'.pausedRemaining = draft.pausedRemaining /\ draft'.clockDuration = draft.clockDuration
         /\ draft'.version = draft.version /\ draft'.eventSequence = draft.eventSequence
         /\ draft'.currentPick = draft.currentPick
BY DEF TypeOK, DraftRow, openScheduledLobby

LEMMA ClockStep ==
  TypeInv /\ CallsReadARunningTurn /\ ClockAgreesWithStatus /\ [Next]_vars => ClockAgreesWithStatus'
PROOF
  <1> SUFFICES ASSUME TypeInv, CallsReadARunningTurn, ClockAgreesWithStatus, [Next]_vars
               PROVE  ClockAgreesWithStatus'
    OBVIOUS
  <1> USE DEF TypeInv
  <1>1. (draft'.status = "LIVE" /\ HasValidAnchors(draft')) => ClockAgreesWithStatus'
    BY DEF ClockAgreesWithStatus, HasValidAnchors
  <1>2. CASE startDraft
    BY <1>1, <1>2, StartedClock
  <1>3. CASE openScheduledLobby
    BY <1>3, OpenedLobby DEF ClockAgreesWithStatus
  <1>4. CASE pauseDraft
    <2>1. draft'.pausedRemaining # Null
      BY <1>4, PausedClock
    <2> QED BY <1>4, <2>1, PausedClock DEF ClockAgreesWithStatus
  <1>5. CASE resumeDraft
    BY <1>1, <1>5, ResumedClock
  <1>6. ASSUME NEW r \in Request, CommitPick(r)
        PROVE  ClockAgreesWithStatus'
    <2>1. \/ draft'.status = "LIVE" /\ HasValidAnchors(draft')
          \/ /\ draft'.status = "COMPLETED"
             /\ draft'.pickStartedAt = Null /\ draft'.pickDeadlineAt = Null
             /\ draft'.pausedRemaining = Null
      BY <1>6, ClockAfterPick
    <2> QED BY <1>1, <2>1 DEF ClockAgreesWithStatus
  <1>7. CASE UNCHANGED draft
    BY <1>7 DEF ClockAgreesWithStatus, HasValidAnchors
  <1> QED BY <1>2, <1>3, <1>4, <1>5, <1>6, <1>7, RowWriters

LEMMA ClockInit == Init => ClockAgreesWithStatus
BY DEF Init, ScheduledDraft, ClockAgreesWithStatus

\* For every pick time and every order of commands and picks: no command leaves a LIVE
\* draft without a valid clock, a paused one without its time, or any other with a clock.
THEOREM ClockCorrect == Spec => []ClockAgreesWithStatus
BY TypeInit, TypeStep, RunningTurnInit, RunningTurnStep, ClockInit, ClockStep, PTL DEF Spec

\* The step TurnIsNeverProlonged asks for.
WholeSecondsOnlyFall ==
  (/\ draft.currentPick = draft'.currentPick
   /\ draft.status \in {"LIVE", "PAUSED"}
   /\ draft'.status \in {"LIVE", "PAUSED"})
    => TimeLeft(draft', now') <= TimeLeft(draft, now)

LEMMA TurnStep == TypeInv /\ ClockAgreesWithStatus /\ [Next]_vars => WholeSecondsOnlyFall
PROOF
  <1> SUFFICES ASSUME TypeInv, ClockAgreesWithStatus, [Next]_vars, draft.currentPick = draft'.currentPick,
                      draft.status \in {"LIVE", "PAUSED"}, draft'.status \in {"LIVE", "PAUSED"}
               PROVE  TimeLeft(draft', now') <= TimeLeft(draft, now)
    BY DEF WholeSecondsOnlyFall
  <1>1. now \in Nat /\ now' \in Nat /\ now <= now'
    BY VersionsGrow
  <1>2. draft.status = "LIVE" => draft.pickDeadlineAt \in Int
    BY DEF TypeInv, TypeOK, DraftRow, OrNull, ClockAgreesWithStatus, HasValidAnchors
  <1>3. draft.status = "PAUSED" => draft.pausedRemaining \in Nat
    BY DEF TypeInv, TypeOK, DraftRow, OrNull, ClockAgreesWithStatus
  <1>4. CASE startDraft \/ openScheduledLobby
    BY <1>4 DEF startDraft, openScheduledLobby
  <1>5. CASE pauseDraft
    <2>1. draft.status = "LIVE" /\ TimeLeft(draft, now) = CeilSeconds(draft.pickDeadlineAt - now)
      BY <1>5 DEF pauseDraft, TimeLeft
    <2>2. TimeLeft(draft', now') = CeilSeconds(draft.pickDeadlineAt - now)
      BY <1>5, PausedClock DEF TimeLeft, TypeInv
    <2>3. CeilSeconds(draft.pickDeadlineAt - now) \in Nat
      <3>1. draft.pickDeadlineAt - now \in Int
        BY <1>1, <1>2, <2>1
      <3> QED BY <3>1, CeilSecondsType
    <2> QED BY <2>1, <2>2, <2>3
  <1>6. CASE resumeDraft
    <2> DEFINE left == draft.pausedRemaining
    <2>1. left \in Nat /\ TimeLeft(draft, now) = left /\ now' = now
      BY <1>3, <1>6 DEF resumeDraft, TimeLeft
    <2>2. TimeLeft(draft', now') = CeilSeconds(buildPickDeadline(now, left) - now)
      BY <1>6, <2>1, ResumedClock DEF TimeLeft, TypeInv
    <2>3. CeilSeconds(buildPickDeadline(now, left) - now) = left
      BY <1>1, <2>1, CeilSecondsOfSeconds
    <2> QED BY <2>1, <2>2, <2>3
  <1>7. ASSUME NEW r \in Request, CommitPick(r)
        PROVE  FALSE
    <2>1. draft'.currentPick = draft.currentPick + 1 /\ draft.currentPick \in Nat
      BY <1>7, CommitExtendsTheBoard DEF TypeInv, TypeOK, DraftRow
    <2> QED BY <2>1
  <1>8. CASE UNCHANGED draft
    <2>1. CASE draft.status = "LIVE"
      <3>1. draft.pickDeadlineAt - now' <= draft.pickDeadlineAt - now
        BY <1>1, <1>2, <2>1
      <3>2. CeilSeconds(draft.pickDeadlineAt - now') <= CeilSeconds(draft.pickDeadlineAt - now)
        BY <1>1, <1>2, <2>1, <3>1, CeilSecondsMonotone
      <3> QED BY <1>8, <2>1, <3>2 DEF TimeLeft
    <2>2. CASE draft.status = "PAUSED"
      BY <1>3, <1>8, <2>2 DEF TimeLeft
    <2> QED BY <2>1, <2>2
  <1> QED BY <1>4, <1>5, <1>6, <1>7, <1>8, RowWriters

\* However often a turn is paused and resumed, its whole seconds only go down.
THEOREM TurnCorrect == Spec => TurnIsNeverProlonged
PROOF
  <1> DEFINE Inv == TypeInv /\ CallsReadARunningTurn /\ ClockAgreesWithStatus
  <1>1. Init => Inv
    BY TypeInit, RunningTurnInit, ClockInit
  <1>2. Inv /\ [Next]_vars => Inv'
    BY TypeStep, RunningTurnStep, ClockStep
  <1>3. Inv /\ [Next]_vars => [WholeSecondsOnlyFall]_vars
    BY TurnStep
  <1> HIDE DEF Inv
  <1>4. Spec => [][WholeSecondsOnlyFall]_vars
    BY <1>1, <1>2, <1>3, PTL DEF Spec
  <1> QED BY <1>4 DEF WholeSecondsOnlyFall, TurnIsNeverProlonged

-------------------------------------------------------------------------------
(* The event stream *)

\* A transition with at least one event extends the stream and its revisions by the
\* next numbers, the last event being the authoritative one.
LEMMA StreamGrows ==
  ASSUME TypeOK, OutboxFollowsTheClock, NEW names \in Seq(EventName), Len(names) \in Nat \ {0},
         draft'.version = draft.version + 1,
         draft'.eventSequence = draft.eventSequence + Len(names),
         outbox' = outbox \cup createDraftEvents(names, draft.version + 1)
  PROVE  OutboxFollowsTheClock'
PROOF
  <1> DEFINE v == draft.version
             last == draft.eventSequence
             n == Len(names)
             new == createDraftEvents(names, v + 1)
             Ev(i) == [sequence |-> last + i, event |-> names[i],
                       revision |-> IF i = n THEN v + 1 ELSE Null]
  <1>1. v \in Nat /\ last \in Nat /\ n \in Nat \ {0}
    BY DEF TypeOK, DraftRow
  <1>2. draft'.version = v + 1 /\ draft'.eventSequence = last + n /\ outbox' = outbox \cup new
    OBVIOUS
  <1>3. new = { Ev(i) : i \in 1..n }
    <2>1. DOMAIN names = 1..n
      OBVIOUS
    <2> QED BY <2>1 DEF createDraftEvents
  <1>4. \A i \in 1..n : /\ Ev(i) \in new /\ Ev(i).sequence = last + i
                        /\ Ev(i).revision = IF i = n THEN v + 1 ELSE Null
    BY <1>3
  <1>5. \A e \in new : \E i \in 1..n : e = Ev(i)
    BY <1>3
  <1>6. \A e \in outbox : e.sequence \in 1..last /\ e.revision \in (1..v) \cup {Null}
    BY DEF OutboxFollowsTheClock
  <1>7. Null \notin Int
    OBVIOUS
  <1>8. { e.sequence : e \in outbox } = 1..last /\ { e.revision : e \in outbox } \ {Null} = 1..v
    BY DEF OutboxFollowsTheClock
  <1>9. \A e, f \in outbox :
          /\ e.sequence = f.sequence => e = f
          /\ (e.revision # Null /\ f.revision # Null) =>
               (e.sequence < f.sequence <=> e.revision < f.revision)
    BY DEF OutboxFollowsTheClock
  <1>10. \A e \in new : /\ e.sequence \in (last + 1)..(last + n)
                        /\ e.revision \in {v + 1, Null}
                        /\ e.revision # Null <=> e.sequence = last + n
                        /\ \A f \in new : e.sequence = f.sequence => e = f
    <2> SUFFICES ASSUME NEW i \in 1..n, NEW j \in 1..n
                 PROVE  /\ Ev(i).sequence \in (last + 1)..(last + n)
                        /\ Ev(i).revision \in {v + 1, Null}
                        /\ Ev(i).revision # Null <=> Ev(i).sequence = last + n
                        /\ Ev(i).sequence = Ev(j).sequence => i = j
      BY <1>5
    <2> HIDE DEF Ev
    <2> QED BY <1>1, <1>4, <1>7
  <1> HIDE DEF v, last, n, new, Ev
  <1>11. { e.sequence : e \in outbox' } = 1..(last + n)
    <2>1. \A k \in 1..(last + n) : \E e \in outbox' : e.sequence = k
      <3> SUFFICES ASSUME NEW k \in 1..(last + n)
                   PROVE  \E e \in outbox' : e.sequence = k
        OBVIOUS
      <3>1. CASE k <= last
        <4>1. k \in 1..last
          BY <1>1, <3>1
        <4>2. k \in { e.sequence : e \in outbox }
          BY <1>8, <4>1, Zenon
        <4> QED BY <1>2, <4>2
      <3>2. CASE k > last
        <4>1. k - last \in 1..n /\ last + (k - last) = k
          BY <1>1, <3>2
        <4>2. Ev(k - last) \in new /\ Ev(k - last).sequence = k
          BY <1>4, <4>1
        <4> QED BY <1>2, <4>2
      <3> QED BY <1>1, <3>1, <3>2
    <2>2. \A e \in outbox' : e.sequence \in 1..(last + n)
      BY <1>1, <1>2, <1>6, <1>10
    <2> QED BY <2>1, <2>2
  <1>12. { e.revision : e \in outbox' } \ {Null} = 1..(v + 1)
    <2>1. \A k \in 1..(v + 1) : \E e \in outbox' : e.revision = k
      <3> SUFFICES ASSUME NEW k \in 1..(v + 1)
                   PROVE  \E e \in outbox' : e.revision = k
        OBVIOUS
      <3>1. CASE k <= v
        <4>1. k \in 1..v
          BY <1>1, <3>1
        <4>2. k \in { e.revision : e \in outbox }
          BY <1>8, <4>1, Zenon
        <4> QED BY <1>2, <4>2
      <3>2. CASE k = v + 1
        <4>1. n \in 1..n
          BY <1>1
        <4>2. Ev(n) \in new /\ Ev(n).revision = v + 1
          BY <1>4, <4>1
        <4> QED BY <1>2, <3>2, <4>2
      <3> QED BY <1>1, <3>1, <3>2
    <2>2. \A e \in outbox' : e.revision # Null => e.revision \in 1..(v + 1)
      BY <1>1, <1>2, <1>6, <1>10
    <2>3. \A k \in 1..(v + 1) : k # Null
      BY <1>1, <1>7
    <2> QED BY <2>1, <2>2, <2>3
  <1>13. ASSUME NEW e \in outbox', NEW f \in outbox'
         PROVE  /\ e.sequence = f.sequence => e = f
                /\ (e.revision # Null /\ f.revision # Null) =>
                     (e.sequence < f.sequence <=> e.revision < f.revision)
    <2>1. CASE e \in outbox /\ f \in outbox
      BY <1>9, <2>1
    <2>2. CASE e \in new /\ f \in new
      <3>1. (e.revision # Null /\ f.revision # Null) => e.sequence = f.sequence /\ e.revision = f.revision
        BY <1>10, <2>2
      <3>2. e.sequence \in Int /\ (e.revision # Null => e.revision \in Int)
        BY <1>1, <1>10, <2>2
      <3> QED BY <1>10, <2>2, <3>1, <3>2
    <2>3. CASE e \in outbox /\ f \in new
      <3>1. e.sequence < f.sequence
        BY <1>1, <1>6, <1>10, <2>3
      <3>2. (e.revision # Null /\ f.revision # Null) => e.revision < f.revision
        BY <1>1, <1>6, <1>10, <2>3
      <3>3. e.sequence # f.sequence
        BY <1>1, <1>6, <1>10, <2>3
      <3> QED BY <3>1, <3>2, <3>3
    <2>4. CASE e \in new /\ f \in outbox
      <3>1. ~(e.sequence < f.sequence) /\ e.sequence # f.sequence
        BY <1>1, <1>6, <1>10, <2>4
      <3>2. (e.revision # Null /\ f.revision # Null) => ~(e.revision < f.revision)
        BY <1>1, <1>6, <1>10, <2>4
      <3> QED BY <3>1, <3>2
    <2> QED BY <1>2, <2>1, <2>2, <2>3, <2>4
  <1>14. ASSUME NEW e \in outbox', e.sequence = last + n
         PROVE  e.revision = v + 1
    <2>1. e \in new
      BY <1>1, <1>2, <1>6, <1>14
    <2> QED BY <1>10, <1>14, <2>1
  <1> QED BY <1>2, <1>11, <1>12, <1>13, <1>14 DEF OutboxFollowsTheClock

LEMMA StreamStep ==
  TypeInv /\ OutboxFollowsTheClock /\ [Next]_vars => OutboxFollowsTheClock'
PROOF
  <1> SUFFICES ASSUME TypeInv, OutboxFollowsTheClock, [Next]_vars
               PROVE  OutboxFollowsTheClock'
    OBVIOUS
  <1>1. TypeOK /\ draft \in DraftRow
    BY DEF TypeInv, TypeOK
  <1>2. CASE startDraft
    <2>1. /\ draft'.version = draft.version + 1
          /\ draft'.eventSequence = draft.eventSequence + Len(<<"draft:started">>)
          /\ outbox' = outbox \cup createDraftEvents(<<"draft:started">>, draft.version + 1)
      BY <1>1, <1>2 DEF startDraft, transitionDraftClock, RunClock, DraftRow
    <2>2. <<"draft:started">> \in Seq(EventName) /\ Len(<<"draft:started">>) \in Nat \ {0}
      BY DEF EventName, CommandEvent
    <2> QED BY <1>1, <2>1, <2>2, StreamGrows
  <1>3. CASE openScheduledLobby
    <2>1. outbox' = outbox /\ draft'.version = draft.version /\ draft'.eventSequence = draft.eventSequence
      BY <1>1, <1>3, OpenedLobby DEF openScheduledLobby
    <2> QED BY <2>1 DEF OutboxFollowsTheClock
  <1>4. CASE pauseDraft
    <2>1. /\ draft'.version = draft.version + 1
          /\ draft'.eventSequence = draft.eventSequence + Len(<<"draft:paused">>)
          /\ outbox' = outbox \cup createDraftEvents(<<"draft:paused">>, draft.version + 1)
      BY <1>1, <1>4 DEF pauseDraft, transitionDraftClock, StopClock, DraftRow
    <2>2. <<"draft:paused">> \in Seq(EventName) /\ Len(<<"draft:paused">>) \in Nat \ {0}
      BY DEF EventName, CommandEvent
    <2> QED BY <1>1, <2>1, <2>2, StreamGrows
  <1>5. CASE resumeDraft
    <2>1. /\ draft'.version = draft.version + 1
          /\ draft'.eventSequence = draft.eventSequence + Len(<<"draft:resumed">>)
          /\ outbox' = outbox \cup createDraftEvents(<<"draft:resumed">>, draft.version + 1)
      BY <1>1, <1>5 DEF resumeDraft, transitionDraftClock, RunClock, DraftRow
    <2>2. <<"draft:resumed">> \in Seq(EventName) /\ Len(<<"draft:resumed">>) \in Nat \ {0}
      BY DEF EventName, CommandEvent
    <2> QED BY <1>1, <2>1, <2>2, StreamGrows
  <1>6. ASSUME NEW r \in Request, CommitPick(r)
        PROVE  OutboxFollowsTheClock'
    <2> DEFINE row == NextDraftRow(draft, req[r].seen.settings)
               pick == << IF req[r].kind = "make" THEN "draft:pick-made" ELSE "draft:auto-pick" >>
               end == IF IsComplete(req[r].seen.settings, draft.currentPick) THEN <<"draft:completed">> ELSE <<>>
               names == PickEvents(r)
    <2>1. row \in DraftRow
      BY <1>6, NextDraftRowType DEF CommitPick, TypeInv, CallsHoldTheirSnapshot, Holds, SnapshotRow
    <2>2. pick \in Seq(EventName) /\ Len(pick) = 1
      BY DEF EventName, CommandEvent
    <2>3. end \in Seq(EventName)
      <3>1. <<"draft:completed">> \in Seq(EventName) /\ <<>> \in Seq(EventName)
        BY DEF EventName, CommandEvent
      <3> QED BY <3>1
    <2>4. names = pick \o end
      BY DEF PickEvents
    <2> HIDE DEF pick, end, names
    <2>5. names \in Seq(EventName) /\ Len(names) = 1 + Len(end) /\ Len(end) \in Nat
      <3>1. names \in Seq(EventName)
        BY <2>2, <2>3, <2>4
      <3>2. Len(end) \in Nat
        BY <2>3
      <3>3. Len(pick \o end) = Len(pick) + Len(end)
        BY <2>2, <2>3, ConcatProperties
      <3>4. Len(names) = Len(pick) + Len(end)
        BY <2>4, <3>3, Zenon
      <3> QED BY <2>2, <3>1, <3>2, <3>4
    <2>6. transitionDraftClock(row, names)
      BY <1>6 DEF CommitPick, names
    <2> HIDE DEF row
    <2>7. /\ draft'.version = draft.version + 1
          /\ draft'.eventSequence = draft.eventSequence + Len(names)
          /\ outbox' = outbox \cup createDraftEvents(names, draft.version + 1)
      BY <2>1, <2>6 DEF transitionDraftClock, DraftRow
    <2>8. Len(names) \in Nat \ {0}
      BY <2>5
    <2> QED BY <1>1, <2>5, <2>7, <2>8, StreamGrows
  <1>7. CASE UNCHANGED <<draft, outbox>>
    BY <1>7 DEF OutboxFollowsTheClock
  <1> QED BY <1>2, <1>3, <1>4, <1>5, <1>6, <1>7, RowWriters

\* For every order of commands and picks: the stream of events has no gap, every clock
\* version has one authoritative event, and they come in the order of the versions.
THEOREM StreamCorrect == Spec => []OutboxFollowsTheClock
PROOF
  <1>1. Init => OutboxFollowsTheClock
    BY DEF Init, ScheduledDraft, OutboxFollowsTheClock
  <1> QED BY <1>1, TypeInit, TypeStep, StreamStep, PTL DEF Spec
-------------------------------------------------------------------------------
(* The administration of a draft *)

USE OtherSettingsAssumption, LegacyAssumption

ScheduleRecord == [verb : {"PUT", "DELETE"}, seconds : Nat \ {0}]

Anchors == [from : Int, deadline : Int, seconds : Nat \ {0}]

RepairRecord == [row : DraftRow, anchors : Anchors]

\* The row has a deadline that its turn could have had.
HasADeadline(row) ==
  /\ row.pickDeadlineAt # Null
  /\ row.pickStartedAt # Null => row.pickStartedAt <= row.pickDeadlineAt

\* A process wants to replace a clock that was malformed by one that is not.
SoundRepair(x) ==
  /\ ~HasValidAnchors(x.row)
  /\ x.anchors.from <= x.anchors.deadline
  /\ HasADeadline(x.row) => x.anchors.deadline = x.row.pickDeadlineAt

AdminInv ==
  /\ TypeInv /\ CallsReadARunningTurn
  /\ schedule \in [ScheduleCall -> ScheduleRecord \cup {Null}]
  /\ repair \in [Repairer -> RepairRecord \cup {Null}]
  /\ \A w \in Repairer : repair[w] # Null => SoundRepair(repair[w])

\* A running clock of at least one tick is at least a second.
LEMMA CeilSecondsPositive ==
  ASSUME NEW ticks \in Nat \ {0}
  PROVE  CeilSeconds(ticks) \in Nat \ {0}
PROOF
  <1>1. TicksPerSecond \in Nat \ {0}
    OBVIOUS
  <1>2. (ticks + TicksPerSecond - 1) \div TicksPerSecond >= 1
    BY <1>1, SMT
  <1>3. CeilSeconds(ticks) = (ticks + TicksPerSecond - 1) \div TicksPerSecond
    BY DEF CeilSeconds
  <1> QED BY <1>2, <1>3, CeilSecondsType

LEMMA DurationType ==
  ASSUME NEW row \in DraftRow, NEW pickSeconds \in Nat \ {0}
  PROVE  resolveClockDurationSeconds(row, pickSeconds) \in Nat \ {0}
PROOF
  <1>1. /\ row.clockDuration \in (Nat \ {0}) \cup {Null}
        /\ row.pickStartedAt \in Int \cup {Null} /\ row.pickDeadlineAt \in Int \cup {Null}
    BY DEF DraftRow, OrNull
  <1>2. CASE row.pickStartedAt # Null /\ row.pickDeadlineAt # Null /\ row.pickDeadlineAt > row.pickStartedAt
    <2>1. row.pickDeadlineAt - row.pickStartedAt \in Nat \ {0}
      BY <1>1, <1>2
    <2>2. CeilSeconds(row.pickDeadlineAt - row.pickStartedAt) \in Nat \ {0}
      BY <2>1, CeilSecondsPositive
    <2> QED BY <1>1, <1>2, <2>2 DEF resolveClockDurationSeconds
  <1>3. CASE ~(row.pickStartedAt # Null /\ row.pickDeadlineAt # Null /\ row.pickDeadlineAt > row.pickStartedAt)
    BY <1>1, <1>3 DEF resolveClockDurationSeconds
  <1> QED BY <1>2, <1>3

\* Whatever a row lacks, the derived clock is whole, and keeps the row's deadline.
LEMMA DerivedAnchors ==
  ASSUME NEW seen, seen.row \in DraftRow, seen.pickSeconds \in Nat \ {0},
         seen.lastPickAt \in Int \cup {Null}, seen.startedAt \in Int \cup {Null}, seen.at \in Int
  PROVE  LET a == deriveLiveDraftClockAnchors(seen)
         IN /\ a \in Anchors /\ a.from <= a.deadline
            /\ HasADeadline(seen.row) => a.deadline = seen.row.pickDeadlineAt
PROOF
  <1>a. PICK start \in Int \cup {Null} : start = seen.row.pickStartedAt
    BY DEF DraftRow, OrNull
  <1>b. PICK deadline \in Int \cup {Null} : deadline = seen.row.pickDeadlineAt
    BY DEF DraftRow, OrNull
  <1>c. PICK seconds \in Nat \ {0} : seconds = resolveClockDurationSeconds(seen.row, seen.pickSeconds)
    BY DurationType
  <1>d. PICK long \in Nat : long = seconds * TicksPerSecond
    <2>1. seconds * TicksPerSecond \in Nat
      BY SMT
    <2> QED BY <2>1
  <1>e. PICK a : a = deriveLiveDraftClockAnchors(seen)
    OBVIOUS
  <1> DEFINE Whole(from, to) == [from |-> from, deadline |-> to, seconds |-> seconds]
             Good(x) == /\ x \in Anchors /\ x.from <= x.deadline
                        /\ HasADeadline(seen.row) => x.deadline = deadline
  <1>1. \A from, to \in Int : from <= to => Whole(from, to) \in Anchors /\ Whole(from, to).from <= Whole(from, to).deadline
    BY DEF Anchors
  <1>2. \A from \in Int : buildPickDeadline(from, seconds) = from + long
    BY <1>d DEF buildPickDeadline
  <1>3. \A from \in Int : from + long \in Int /\ from <= from + long
    OBVIOUS
  <1>4. HasADeadline(seen.row) => deadline # Null /\ (start # Null => start <= deadline)
    BY <1>a, <1>b DEF HasADeadline
  <1>5. CASE start # Null
    <2>1. CASE deadline # Null /\ deadline >= start
      <3>1. a = Whole(start, deadline)
        BY <1>a, <1>b, <1>c, <1>e, <1>5, <2>1 DEF deriveLiveDraftClockAnchors
      <3>2. start <= deadline
        BY <1>5, <2>1
      <3> QED BY <1>b, <1>e, <1>1, <1>5, <2>1, <3>1, <3>2
    <2>2. CASE ~(deadline # Null /\ deadline >= start)
      <3>1. a = Whole(start, start + long)
        BY <1>a, <1>b, <1>c, <1>e, <1>2, <1>5, <2>2 DEF deriveLiveDraftClockAnchors
      <3>2. ~HasADeadline(seen.row)
        BY <1>4, <1>5, <2>2
      <3> QED BY <1>e, <1>1, <1>3, <1>5, <3>1, <3>2
    <2> QED BY <2>1, <2>2
  <1>6. CASE start = Null /\ deadline # Null
    <2>1. CASE seen.lastPickAt # Null /\ seen.lastPickAt <= deadline
      <3>1. a = Whole(seen.lastPickAt, deadline)
        BY <1>a, <1>b, <1>c, <1>e, <1>6, <2>1 DEF deriveLiveDraftClockAnchors
      <3> QED BY <1>b, <1>e, <1>1, <1>6, <2>1, <3>1
    <2>2. CASE ~(seen.lastPickAt # Null /\ seen.lastPickAt <= deadline)
      <3>1. a = Whole(deadline - long, buildPickDeadline(deadline - long, seconds))
        BY <1>a, <1>b, <1>c, <1>d, <1>e, <1>6, <2>2 DEF deriveLiveDraftClockAnchors
      <3>2. deadline - long \in Int /\ buildPickDeadline(deadline - long, seconds) = deadline
            /\ deadline - long <= deadline
        BY <1>2, <1>6
      <3> QED BY <1>b, <1>e, <1>1, <1>6, <3>1, <3>2
    <2> QED BY <2>1, <2>2
  <1>7. CASE start = Null /\ deadline = Null
    <2>1. PICK from \in Int : a = Whole(from, buildPickDeadline(from, seconds))
      BY <1>a, <1>b, <1>c, <1>e, <1>7 DEF deriveLiveDraftClockAnchors
    <2>2. ~HasADeadline(seen.row)
      BY <1>4, <1>7
    <2> QED BY <1>e, <1>1, <1>2, <1>3, <2>1, <2>2
  <1> QED BY <1>5, <1>6, <1>7

-------------------------------------------------------------------------------
(* Its steps *)

LEMMA DraftStepKeepsAdmin ==
  ASSUME AdminInv, Next, UNCHANGED adminVars
  PROVE  AdminInv'
BY TypeStep, RunningTurnStep DEF AdminInv, adminVars

\* What leaves the calls and the clock of the server alone keeps what calls have read.
LEMMA CallsStay ==
  ASSUME AdminInv, UNCHANGED <<picks, queues, active, now, req>>,
         draft' \in DraftRow, settings' \in Settings, outbox' \subseteq DraftEvent
  PROVE  TypeInv' /\ CallsReadARunningTurn'
PROOF
  <1>1. TypeInv'
    BY DEF AdminInv, TypeInv, TypeOK, CallsHoldTheirSnapshot, Holds
  <1>2. CallsReadARunningTurn'
    BY DEF AdminInv, CallsReadARunningTurn, ReadARunningTurn
  <1> QED BY <1>1, <1>2

LEMMA RoutesKeepAdmin ==
  ASSUME AdminInv,
         \/ \E s \in OtherSettings : saveLeagueSettings(s)
         \/ \E c \in ScheduleCall :
              PutReads(c) \/ DeleteReads(c) \/ PutWrites(c) \/ DeleteWrites(c) \/ ScheduleDies(c)
  PROVE  AdminInv' /\ outbox' = outbox
PROOF
  <1>1. /\ draft \in DraftRow /\ settings \in Settings /\ outbox \subseteq DraftEvent
        /\ settings.pickSeconds \in Nat \ {0}
    BY DEF AdminInv, TypeInv, TypeOK, Settings
  <1>2. \A row \in DraftRow : [row EXCEPT !.status = "SCHEDULED"] \in DraftRow
                              /\ [row EXCEPT !.status = "LIVE"] \in DraftRow
    BY DEF DraftRow, DraftStatus
  <1>3. CASE \E s \in OtherSettings : saveLeagueSettings(s)
    <2>1. UNCHANGED <<draft, picks, queues, outbox, active, now, req, schedule, repair>>
          /\ settings' \in Settings
      BY <1>3 DEF saveLeagueSettings, adminVars
    <2> QED BY <1>1, <2>1, CallsStay DEF AdminInv
  <1>4. ASSUME NEW c \in ScheduleCall, PutReads(c)
        PROVE  AdminInv' /\ outbox' = outbox
    <2>1. PICK s \in OtherSettings \cup {settings} :
            schedule' = [schedule EXCEPT ![c] = [verb |-> "PUT", seconds |-> s.pickSeconds]]
      BY <1>4 DEF PutReads
    <2>2. [verb |-> "PUT", seconds |-> s.pickSeconds] \in ScheduleRecord
      BY <1>1 DEF ScheduleRecord, Settings
    <2>3. UNCHANGED <<draft, settings, picks, queues, outbox, active, now, req, repair>>
      BY <1>4 DEF PutReads, vars
    <2> QED BY <1>1, <2>1, <2>2, <2>3, CallsStay DEF AdminInv
  <1>5. ASSUME NEW c \in ScheduleCall, DeleteReads(c)
        PROVE  AdminInv' /\ outbox' = outbox
    <2>1. [verb |-> "DELETE", seconds |-> settings.pickSeconds] \in ScheduleRecord
      BY <1>1 DEF ScheduleRecord
    <2>2. UNCHANGED <<draft, settings, picks, queues, outbox, active, now, req, repair>>
          /\ schedule' = [schedule EXCEPT ![c] = [verb |-> "DELETE", seconds |-> settings.pickSeconds]]
      BY <1>5 DEF DeleteReads, vars
    <2> QED BY <1>1, <2>1, <2>2, CallsStay DEF AdminInv
  <1>6. ASSUME NEW c \in ScheduleCall, PutWrites(c)
        PROVE  AdminInv' /\ outbox' = outbox
    <2>1. schedule[c] \in ScheduleRecord
      BY <1>6 DEF PutWrites, AdminInv
    <2>2. settings' \in Settings /\ draft' \in DraftRow
      BY <1>1, <1>2, <1>6, <2>1 DEF PutWrites, ScheduleRecord, Settings
    <2>3. UNCHANGED <<picks, queues, outbox, active, now, req, repair>>
          /\ schedule' = [schedule EXCEPT ![c] = Null]
      BY <1>6 DEF PutWrites
    <2> QED BY <1>1, <2>2, <2>3, CallsStay DEF AdminInv
  <1>7. ASSUME NEW c \in ScheduleCall, DeleteWrites(c)
        PROVE  AdminInv' /\ outbox' = outbox
    <2>1. settings' \in Settings /\ draft' \in DraftRow
      BY <1>1, <1>2, <1>7 DEF DeleteWrites
    <2>2. UNCHANGED <<picks, queues, outbox, active, now, req, repair>>
          /\ schedule' = [schedule EXCEPT ![c] = Null]
      BY <1>7 DEF DeleteWrites
    <2> QED BY <1>1, <2>1, <2>2, CallsStay DEF AdminInv
  <1>8. ASSUME NEW c \in ScheduleCall, ScheduleDies(c)
        PROVE  AdminInv' /\ outbox' = outbox
    <2>1. UNCHANGED <<draft, settings, picks, queues, outbox, active, now, req, repair>>
          /\ schedule' = [schedule EXCEPT ![c] = Null]
      BY <1>8 DEF ScheduleDies, vars
    <2> QED BY <1>1, <2>1, CallsStay DEF AdminInv
  <1> QED BY <1>3, <1>4, <1>5, <1>6, <1>7, <1>8

LEMMA ObserveKeepsAdmin ==
  ASSUME AdminInv, NEW w \in Repairer, ObserveClock(w)
  PROVE  AdminInv' /\ outbox' = outbox
PROOF
  <1>1. PICK last \in OrNull(0..now), started \in OrNull(0..now) :
          repair' = [repair EXCEPT ![w] =
            [row |-> draft,
             anchors |-> deriveLiveDraftClockAnchors(
               [row |-> draft, pickSeconds |-> settings.pickSeconds, lastPickAt |-> last,
                startedAt |-> started, at |-> now])]]
    BY DEF ObserveClock, OrNull
  <1>2. PICK seen : seen = [row |-> draft, pickSeconds |-> settings.pickSeconds, lastPickAt |-> last,
                            startedAt |-> started, at |-> now]
    OBVIOUS
  <1>3. draft \in DraftRow /\ settings \in Settings /\ settings.pickSeconds \in Nat \ {0} /\ now \in Int
        /\ last \in Int \cup {Null} /\ started \in Int \cup {Null} /\ outbox \subseteq DraftEvent
    BY DEF AdminInv, TypeInv, TypeOK, Settings, OrNull
  <1>4. PICK x : x = [row |-> draft, anchors |-> deriveLiveDraftClockAnchors(seen)]
    OBVIOUS
  <1>5. x.row = draft /\ x.anchors = deriveLiveDraftClockAnchors(seen) /\ seen.row = draft
    BY <1>2, <1>4
  <1>6. /\ deriveLiveDraftClockAnchors(seen) \in Anchors
        /\ deriveLiveDraftClockAnchors(seen).from <= deriveLiveDraftClockAnchors(seen).deadline
        /\ HasADeadline(draft) => deriveLiveDraftClockAnchors(seen).deadline = draft.pickDeadlineAt
    BY <1>2, <1>3, DerivedAnchors
  <1>7. x \in RepairRecord
    BY <1>3, <1>4, <1>6 DEF RepairRecord
  <1>8. SoundRepair(x)
    BY <1>5, <1>6 DEF SoundRepair, ObserveClock
  <1>9. repair' = [repair EXCEPT ![w] = x]
    BY <1>1, <1>2, <1>4
  <1>10. UNCHANGED <<draft, settings, picks, queues, outbox, active, now, req, schedule>>
    BY DEF ObserveClock, vars
  <1>11. TypeInv' /\ CallsReadARunningTurn'
    BY <1>3, <1>10, CallsStay
  <1> QED BY <1>7, <1>8, <1>9, <1>10, <1>11 DEF AdminInv

\* The row a winning repair leaves: the clock derived, which is valid.
LEMMA RepairedClock ==
  ASSUME AdminInv, NEW w \in Repairer, convergeDraft(w), StillAsObserved(repair[w].row)
  PROVE  /\ draft.status = "LIVE" /\ ~HasValidAnchors(draft) /\ HasValidAnchors(draft')
         /\ draft'.status = "LIVE"
         /\ HasADeadline(draft) => draft'.pickDeadlineAt = draft.pickDeadlineAt
         /\ draft' \in DraftRow /\ outbox' \subseteq DraftEvent
         /\ draft'.version = draft.version + 1
         /\ draft'.eventSequence = draft.eventSequence + Len(<<"draft:clock-repaired">>)
         /\ outbox' = outbox \cup createDraftEvents(<<"draft:clock-repaired">>, draft.version + 1)
PROOF
  <1>1. PICK x : x = repair[w]
    OBVIOUS
  <1>2. x \in RepairRecord /\ SoundRepair(x) /\ draft \in DraftRow /\ TypeOK
    BY <1>1 DEF convergeDraft, AdminInv, TypeInv, TypeOK
  <1>3. PICK a \in Anchors : a = x.anchors
    BY <1>2 DEF RepairRecord
  <1>4. PICK row : row = [draft EXCEPT !.pickStartedAt = a.from, !.pickDeadlineAt = a.deadline,
                                       !.pausedRemaining = Null, !.clockDuration = a.seconds]
    OBVIOUS
  <1>5. a.from \in Int /\ a.deadline \in Int /\ a.seconds \in Nat \ {0} /\ a.from <= a.deadline
    BY <1>2, <1>3 DEF Anchors, SoundRepair
  <1>6. row \in DraftRow
    BY <1>2, <1>4, <1>5 DEF DraftRow, OrNull
  <1>7. /\ row.status = draft.status /\ row.pickStartedAt = a.from /\ row.pickDeadlineAt = a.deadline
        /\ row.pausedRemaining = Null /\ row.clockDuration = a.seconds
    BY <1>2, <1>4 DEF DraftRow
  <1>8. transitionDraftClock(row, <<"draft:clock-repaired">>)
    BY <1>1, <1>3, <1>4 DEF convergeDraft
  <1>9. /\ draft.status = "LIVE" /\ ~HasValidAnchors(draft)
        /\ HasADeadline(draft) => a.deadline = draft.pickDeadlineAt
    BY <1>1, <1>2, <1>3 DEF StillAsObserved, SoundRepair, HasADeadline, HasValidAnchors
  <1>10. <<"draft:clock-repaired">> \in Seq(EventName)
    BY DEF EventName
  <1>11. draft' \in DraftRow /\ outbox' \subseteq DraftEvent
    BY <1>2, <1>6, <1>8, <1>10, TransitionType
  <1>12. /\ draft'.status = "LIVE" /\ draft'.pickStartedAt = a.from /\ draft'.pickDeadlineAt = a.deadline
         /\ draft'.pausedRemaining = Null /\ draft'.clockDuration = a.seconds
         /\ draft'.version = draft.version + 1
         /\ draft'.eventSequence = draft.eventSequence + Len(<<"draft:clock-repaired">>)
         /\ outbox' = outbox \cup createDraftEvents(<<"draft:clock-repaired">>, draft.version + 1)
    BY <1>6, <1>7, <1>8, <1>9 DEF transitionDraftClock, DraftRow
  <1>13. HasValidAnchors(draft')
    BY <1>5, <1>12 DEF HasValidAnchors
  <1> QED BY <1>9, <1>11, <1>12, <1>13

LEMMA ConvergeKeepsAdmin ==
  ASSUME AdminInv, NEW w \in Repairer, convergeDraft(w) \/ RepairerDies(w)
  PROVE  AdminInv'
PROOF
  <1>1. /\ repair' = [repair EXCEPT ![w] = Null]
        /\ UNCHANGED <<settings, picks, queues, active, now, req, schedule>>
    BY DEF convergeDraft, RepairerDies, vars
  <1>2. draft \in DraftRow /\ settings \in Settings /\ outbox \subseteq DraftEvent
    BY DEF AdminInv, TypeInv, TypeOK
  <1>3. draft' \in DraftRow /\ outbox' \subseteq DraftEvent
    <2>1. CASE convergeDraft(w) /\ StillAsObserved(repair[w].row)
      BY <2>1, RepairedClock
    <2>2. CASE ~(convergeDraft(w) /\ StillAsObserved(repair[w].row))
      BY <1>2, <2>2 DEF convergeDraft, RepairerDies, vars
    <2> QED BY <2>1, <2>2
  <1> QED BY <1>1, <1>2, <1>3, CallsStay DEF AdminInv

LEMMA AdminStep == AdminInv /\ [AdminNext]_allVars => AdminInv'
PROOF
  <1> SUFFICES ASSUME AdminInv, [AdminNext]_allVars PROVE AdminInv'
    OBVIOUS
  <1>1. CASE Next /\ UNCHANGED adminVars
    BY <1>1, DraftStepKeepsAdmin
  <1>2. CASE \/ \E s \in OtherSettings : saveLeagueSettings(s)
             \/ \E c \in ScheduleCall :
                  PutReads(c) \/ DeleteReads(c) \/ PutWrites(c) \/ DeleteWrites(c) \/ ScheduleDies(c)
    BY <1>2, RoutesKeepAdmin
  <1>3. CASE \E w \in Repairer : ObserveClock(w) \/ convergeDraft(w) \/ RepairerDies(w)
    BY <1>3, ObserveKeepsAdmin, ConvergeKeepsAdmin
  <1>4. CASE UNCHANGED allVars
    <2>1. UNCHANGED vars /\ UNCHANGED adminVars
      BY <1>4 DEF allVars
    <2> QED BY <2>1, TypeStep, RunningTurnStep DEF AdminInv, adminVars
  <1> QED BY <1>1, <1>2, <1>3, <1>4 DEF AdminNext

LEMMA AdminStarts == AdminInit => AdminInv
PROOF
  <1> SUFFICES ASSUME AdminInit PROVE AdminInv
    OBVIOUS
  <1>1. TypeInv /\ CallsReadARunningTurn
    <2>1. CASE Init
      BY <2>1, TypeInit, RunningTurnInit
    <2>2. CASE ~Init
      <3>1. /\ draft \in LegacyRows /\ settings = StartSettings /\ picks = {} /\ outbox = {}
            /\ queues = [m \in Member |-> NoQueue] /\ active = Player /\ now = 0
            /\ req = [r \in Request |-> Idle]
        BY <2>2 DEF AdminInit
      <3>2. NoQueue \in Queue
        BY DEF NoQueue, Queue
      <3>3. TypeOK
        BY <3>1, <3>2, IdleType DEF TypeOK
      <3> QED BY <3>1, <3>3 DEF TypeInv, CallsHoldTheirSnapshot, Holds, CallsReadARunningTurn, Idle
    <2> QED BY <2>1, <2>2
  <1> QED BY <1>1 DEF AdminInit, AdminInv

\* A command that is no repair says so: none of its events is a repair's.
NoRepair == \A e \in outbox' \ outbox : e.event # "draft:clock-repaired"

LEMMA EventsAreNamed ==
  ASSUME NEW names \in Seq(CommandEvent), NEW row, transitionDraftClock(row, names)
  PROVE  NoRepair
PROOF
  <1> SUFFICES ASSUME NEW e \in createDraftEvents(names, draft.version + 1)
               PROVE  e.event # "draft:clock-repaired"
    BY DEF NoRepair, transitionDraftClock
  <1>1. PICK i \in DOMAIN names : e.event = names[i]
    BY DEF createDraftEvents
  <1>2. names[i] \in CommandEvent
    BY <1>1
  <1> QED BY <1>1, <1>2 DEF CommandEvent

LEMMA CommandsRepairNothing ==
  ASSUME [Next]_vars
  PROVE  NoRepair
PROOF
  <1>1. CASE startDraft
    <2>1. <<"draft:started">> \in Seq(CommandEvent)
      BY DEF CommandEvent
    <2> QED BY <1>1, <2>1, EventsAreNamed DEF startDraft
  <1>2. CASE pauseDraft
    <2>1. <<"draft:paused">> \in Seq(CommandEvent)
      BY DEF CommandEvent
    <2> QED BY <1>2, <2>1, EventsAreNamed DEF pauseDraft
  <1>3. CASE resumeDraft
    <2>1. <<"draft:resumed">> \in Seq(CommandEvent)
      BY DEF CommandEvent
    <2> QED BY <1>3, <2>1, EventsAreNamed DEF resumeDraft
  <1>4. ASSUME NEW r \in Request, CommitPick(r)
        PROVE  NoRepair
    <2>1. << IF req[r].kind = "make" THEN "draft:pick-made" ELSE "draft:auto-pick" >> \in Seq(CommandEvent)
      BY DEF CommandEvent
    <2>2. <<"draft:completed">> \in Seq(CommandEvent) /\ <<>> \in Seq(CommandEvent)
      BY DEF CommandEvent
    <2>3. PickEvents(r) \in Seq(CommandEvent)
      BY <2>1, <2>2 DEF PickEvents
    <2> QED BY <1>4, <2>3, EventsAreNamed DEF CommitPick
  <1>5. CASE openScheduledLobby \/ UNCHANGED <<draft, outbox>>
    BY <1>5 DEF openScheduledLobby, NoRepair
  <1> QED BY <1>1, <1>2, <1>3, <1>4, <1>5, RowWriters

\* The step the two properties of a repair ask for.
LEMMA OnlyRepairsRepair ==
  ASSUME AdminInv, [AdminNext]_allVars, ~NoRepair
  PROVE  /\ draft.status = "LIVE" /\ ~HasValidAnchors(draft) /\ HasValidAnchors(draft')
         /\ HasADeadline(draft) => draft'.pickDeadlineAt = draft.pickDeadlineAt
PROOF
  <1>1. CASE \E w \in Repairer : convergeDraft(w) /\ StillAsObserved(repair[w].row)
    BY <1>1, RepairedClock
  <1>2. CASE ~\E w \in Repairer : convergeDraft(w) /\ StillAsObserved(repair[w].row)
    <2>1. [Next]_vars \/ outbox' = outbox
      <3>1. CASE \E w \in Repairer : ObserveClock(w) \/ convergeDraft(w) \/ RepairerDies(w)
        BY <1>2, <3>1 DEF ObserveClock, convergeDraft, RepairerDies, vars
      <3> QED BY <3>1, RoutesKeepAdmin DEF AdminNext, allVars
    <2> QED BY <2>1, CommandsRepairNothing DEF NoRepair
  <1> QED BY <1>1, <1>2

LEMMA AdminInvariant == AdminSpec => []AdminInv
BY AdminStarts, AdminStep, PTL DEF AdminSpec

\* Rows and calls keep their types whatever the settings and schedule routes and the
\* repair write beside the commands.
THEOREM AdminTyped == AdminSpec => []TypeOK
PROOF
  <1>1. AdminInv => TypeOK
    BY DEF AdminInv, TypeInv
  <1> QED BY <1>1, AdminInvariant, PTL

\* For any number of repairers, schedule calls, saves and picks: a repair replaces a
\* malformed LIVE clock by a valid one, and nothing else.
THEOREM RepairsAreOfBrokenClocks == AdminSpec => OnlyABrokenClockIsRepaired
PROOF
  <1> DEFINE Broken == (\E e \in outbox' \ outbox : e.event = "draft:clock-repaired") =>
                         /\ draft.status = "LIVE" /\ ~HasValidAnchors(draft)
                         /\ HasValidAnchors(draft')
  <1>1. AdminInv /\ [AdminNext]_allVars => [Broken]_allVars
    BY OnlyRepairsRepair DEF NoRepair
  <1> HIDE DEF Broken
  <1>2. AdminSpec => [][Broken]_allVars
    BY <1>1, AdminInvariant, PTL DEF AdminSpec
  <1> QED BY <1>2 DEF Broken, OnlyABrokenClockIsRepaired

\* For all of them and every malformed row: a deadline that the turn could have had is kept.
THEOREM RepairsKeepDeadlines == AdminSpec => RepairKeepsADeadline
PROOF
  <1> DEFINE Keeps == (/\ draft.status = "LIVE" /\ draft'.version > draft.version
                       /\ \E e \in outbox' \ outbox : e.event = "draft:clock-repaired"
                       /\ draft.pickDeadlineAt # Null
                       /\ draft.pickStartedAt # Null => draft.pickStartedAt <= draft.pickDeadlineAt)
                        => draft'.pickDeadlineAt = draft.pickDeadlineAt
  <1>1. AdminInv /\ [AdminNext]_allVars => [Keeps]_allVars
    BY OnlyRepairsRepair DEF NoRepair, HasADeadline
  <1> HIDE DEF Keeps
  <1>2. AdminSpec => [][Keeps]_allVars
    BY <1>1, AdminInvariant, PTL DEF AdminSpec
  <1> QED BY <1>2 DEF Keeps, RepairKeepsADeadline

-------------------------------------------------------------------------------
(* What saves of the settings and repairs leave intact *)

\* With no old rows and no call of the schedule route, every clock is the commands'.
LEMMA ClockUnderSaves ==
  ASSUME ScheduleCall = {},
         AdminInv, ClockAgreesWithStatus, [AdminNext]_allVars
  PROVE  /\ ClockAgreesWithStatus'
         /\ [Next]_vars \/ UNCHANGED <<draft, now, outbox>>
PROOF
  <1>1. CASE [Next]_vars
    BY <1>1, ClockStep DEF AdminInv
  <1>2. CASE ~[Next]_vars
    <2>1. \A w \in Repairer : ~(convergeDraft(w) /\ StillAsObserved(repair[w].row))
      <3> SUFFICES ASSUME NEW w \in Repairer, convergeDraft(w), StillAsObserved(repair[w].row)
                   PROVE  FALSE
        OBVIOUS
      <3>1. draft.status = "LIVE" /\ ~HasValidAnchors(draft)
        BY RepairedClock
      <3> QED BY <3>1 DEF ClockAgreesWithStatus
    <2>2. UNCHANGED <<draft, now, outbox>>
      BY <1>2, <2>1 DEF AdminNext, allVars, saveLeagueSettings, ObserveClock, convergeDraft,
         RepairerDies, vars
    <2> QED BY <2>2 DEF ClockAgreesWithStatus, HasValidAnchors
  <1> QED BY <1>1, <1>2

LEMMA SavesKeepTheClock ==
  ASSUME ScheduleCall = {}, LegacyRows = {}
  PROVE  AdminSpec => [](AdminInv /\ ClockAgreesWithStatus)
PROOF
  <1>1. AdminInit => ClockAgreesWithStatus
    BY ClockInit DEF AdminInit
  <1>2. AdminInv /\ ClockAgreesWithStatus /\ [AdminNext]_allVars => ClockAgreesWithStatus'
    BY ClockUnderSaves
  <1> QED BY <1>1, <1>2, AdminStarts, AdminStep, PTL DEF AdminSpec

\* Clock and status agree although settings are saved in mid-draft and repairers look on.
THEOREM ClockCorrectUnderSaves ==
  ASSUME ScheduleCall = {}, LegacyRows = {}
  PROVE  AdminSpec => []ClockAgreesWithStatus
BY SavesKeepTheClock, PTL

\* No save of the settings adds a second to the turn that is running.
THEOREM TurnCorrectUnderSaves ==
  ASSUME ScheduleCall = {}, LegacyRows = {}
  PROVE  AdminSpec => TurnIsNeverProlonged
PROOF
  <1>1. AdminInv /\ ClockAgreesWithStatus /\ [AdminNext]_allVars => [WholeSecondsOnlyFall]_vars
    <2> SUFFICES ASSUME AdminInv, ClockAgreesWithStatus, [AdminNext]_allVars
                 PROVE  WholeSecondsOnlyFall
      OBVIOUS
    <2>1. CASE [Next]_vars
      BY <2>1, TurnStep DEF AdminInv
    <2>2. CASE UNCHANGED <<draft, now>>
      <3> SUFFICES ASSUME draft.status \in {"LIVE", "PAUSED"}
                   PROVE  TimeLeft(draft, now) <= TimeLeft(draft, now)
        BY <2>2 DEF WholeSecondsOnlyFall
      <3>1. TimeLeft(draft, now) \in Int
        <4>1. draft.status = "LIVE" => draft.pickDeadlineAt - now \in Int
          BY DEF AdminInv, TypeInv, TypeOK, DraftRow, OrNull, ClockAgreesWithStatus, HasValidAnchors
        <4>2. draft.status = "PAUSED" => draft.pausedRemaining \in Nat
          BY DEF AdminInv, TypeInv, TypeOK, DraftRow, OrNull, ClockAgreesWithStatus
        <4>3. draft.status = "LIVE" => CeilSeconds(draft.pickDeadlineAt - now) \in Nat
          BY <4>1, CeilSecondsType
        <4> QED BY <4>2, <4>3 DEF TimeLeft
      <3> QED BY <3>1
    <2> QED BY <2>1, <2>2, ClockUnderSaves
  <1>2. AdminSpec => [][WholeSecondsOnlyFall]_vars
    BY <1>1, SavesKeepTheClock, PTL DEF AdminSpec
  <1> QED BY <1>2 DEF WholeSecondsOnlyFall, TurnIsNeverProlonged

\* The stream stays whole beside saves, reschedules and repairs.
THEOREM StreamCorrectUnderAdmin ==
  ASSUME LegacyRows = {}
  PROVE  AdminSpec => []OutboxFollowsTheClock
PROOF
  <1>1. AdminInit => OutboxFollowsTheClock
    BY DEF AdminInit, Init, ScheduledDraft, OutboxFollowsTheClock
  <1>2. AdminInv /\ OutboxFollowsTheClock /\ [AdminNext]_allVars => OutboxFollowsTheClock'
    <2> SUFFICES ASSUME AdminInv, OutboxFollowsTheClock, [AdminNext]_allVars
                 PROVE  OutboxFollowsTheClock'
      OBVIOUS
    <2>1. CASE [Next]_vars
      BY <2>1, StreamStep DEF AdminInv
    <2>2. CASE \E w \in Repairer : convergeDraft(w) /\ StillAsObserved(repair[w].row)
      <3>1. /\ draft'.version = draft.version + 1
            /\ draft'.eventSequence = draft.eventSequence + Len(<<"draft:clock-repaired">>)
            /\ outbox' = outbox \cup createDraftEvents(<<"draft:clock-repaired">>, draft.version + 1)
        BY <2>2, RepairedClock
      <3>2. <<"draft:clock-repaired">> \in Seq(EventName) /\ Len(<<"draft:clock-repaired">>) \in Nat \ {0}
        BY DEF EventName
      <3> QED BY <3>1, <3>2, StreamGrows DEF AdminInv, TypeInv
    <2>3. CASE ~[Next]_vars /\ ~\E w \in Repairer : convergeDraft(w) /\ StillAsObserved(repair[w].row)
      <3>1. outbox' = outbox
        BY <2>3, RoutesKeepAdmin DEF AdminNext, allVars, ObserveClock, convergeDraft, RepairerDies, vars
      <3>2. draft'.version = draft.version /\ draft'.eventSequence = draft.eventSequence
        BY <2>3 DEF AdminInv, TypeInv, TypeOK, DraftRow, AdminNext, allVars, saveLeagueSettings,
           PutReads, DeleteReads, PutWrites, DeleteWrites, ScheduleDies, ObserveClock, convergeDraft,
           RepairerDies, vars
      <3> QED BY <3>1, <3>2 DEF OutboxFollowsTheClock
    <2> QED BY <2>1, <2>2, <2>3
  <1> QED BY <1>1, <1>2, AdminInvariant, PTL DEF AdminSpec

\* An expiry job takes only its own turn beside saves, reschedules and repairs.
THEOREM ExpiryCorrectUnderAdmin == AdminSpec => ExpiryTakesOnlyItsOwnTurn
PROOF
  <1> DEFINE Own == \A r \in Request :
        (req[r].kind = "expire" /\ req[r].reply # "ok" /\ req'[r].reply = "ok") =>
          /\ draft.version = req[r].expect
          /\ draft.pickDeadlineAt # Null /\ draft.pickDeadlineAt <= now
  <1>1. AdminInv /\ [AdminNext]_allVars => [Own]_vars
    <2> SUFFICES ASSUME AdminInv, [AdminNext]_allVars, NEW r \in Request,
                        req[r].kind = "expire", req[r].reply # "ok", req'[r].reply = "ok"
                 PROVE  requireExpired(req[r])
      BY DEF requireExpired
    <2>1. [Next]_vars
      BY DEF AdminNext, allVars, saveLeagueSettings, PutReads, DeleteReads, PutWrites, DeleteWrites,
         ScheduleDies, ObserveClock, convergeDraft, RepairerDies, vars
    <2>2. CommitPick(r)
      BY <2>1, OnlyCommitsSayOk DEF AdminInv
    <2> QED BY <2>2 DEF AdminInv, CallsReadARunningTurn, ReadARunningTurn, CommitPick, SnapshotHolds,
                        requireExpired
  <1> HIDE DEF Own
  <1>2. AdminSpec => [][Own]_vars
    BY <1>1, AdminInvariant, PTL DEF AdminSpec
  <1> QED BY <1>2 DEF Own, ExpiryTakesOnlyItsOwnTurn

-------------------------------------------------------------------------------
(* The board, the queues and the calls beside the other writers *)

\* What saves, the schedule route and repairs leave alone, and how far they go: the row's
\* version never falls, nothing is made COMPLETED, and of the settings either all are saved
\* or the pick time alone.
LEMMA OthersWrite ==
  ASSUME AdminInv, [AdminNext]_allVars, ~[Next]_vars
  PROVE  /\ UNCHANGED <<picks, queues, active, now, req>>
         /\ draft'.currentPick = draft.currentPick
         /\ draft.version \in Nat /\ draft'.version \in Nat /\ draft.version <= draft'.version
         /\ draft'.status = "COMPLETED" => draft.status = "COMPLETED"
         /\ \/ settings' \in OtherSettings \cup {settings}
            \/ \E seconds \in Nat \ {0} : settings' = [settings EXCEPT !.pickSeconds = seconds]
PROOF
  <1>1. draft \in DraftRow
    BY DEF AdminInv, TypeInv, TypeOK
  <1>2. draft.version \in Nat /\ draft.version <= draft.version
    BY <1>1 DEF DraftRow
  <1>3. CASE \E s \in OtherSettings : saveLeagueSettings(s)
    BY <1>2, <1>3 DEF saveLeagueSettings
  <1>4. CASE \E c \in ScheduleCall : PutReads(c) \/ DeleteReads(c) \/ ScheduleDies(c)
    BY <1>2, <1>4 DEF PutReads, DeleteReads, ScheduleDies, vars
  <1>5. ASSUME NEW c \in ScheduleCall, PutWrites(c)
        PROVE  /\ UNCHANGED <<picks, queues, active, now, req>>
               /\ draft'.currentPick = draft.currentPick /\ draft'.version = draft.version
               /\ draft'.status = "SCHEDULED"
               /\ \E seconds \in Nat \ {0} : settings' = [settings EXCEPT !.pickSeconds = seconds]
    <2>1. schedule[c].seconds \in Nat \ {0}
      BY <1>5 DEF PutWrites, AdminInv, ScheduleRecord
    <2> QED BY <1>1, <1>5, <2>1 DEF PutWrites, DraftRow
  <1>6. ASSUME NEW c \in ScheduleCall, DeleteWrites(c)
        PROVE  /\ UNCHANGED <<picks, queues, active, now, req, settings>>
               /\ draft'.currentPick = draft.currentPick /\ draft'.version = draft.version
               /\ draft'.status = "LIVE"
    BY <1>1, <1>6 DEF DeleteWrites, DraftRow
  <1>7. ASSUME NEW w \in Repairer, ObserveClock(w) \/ convergeDraft(w) \/ RepairerDies(w)
        PROVE  /\ UNCHANGED <<picks, queues, active, now, req, settings>>
               /\ draft'.currentPick = draft.currentPick
               /\ draft'.version \in Nat /\ draft.version <= draft'.version
               /\ draft'.status = draft.status
    <2>1. CASE UNCHANGED draft
      BY <1>2, <1>7, <2>1 DEF ObserveClock, convergeDraft, RepairerDies, vars
    <2>2. CASE ~UNCHANGED draft
      <3>1. convergeDraft(w) /\ StillAsObserved(repair[w].row)
        BY <1>7, <2>2 DEF ObserveClock, convergeDraft, RepairerDies, vars
      <3> DEFINE a == repair[w].anchors
                 row == [draft EXCEPT !.pickStartedAt = a.from, !.pickDeadlineAt = a.deadline,
                                      !.pausedRemaining = Null, !.clockDuration = a.seconds]
      <3>2. transitionDraftClock(row, <<"draft:clock-repaired">>)
        BY <3>1 DEF convergeDraft
      <3>3. DOMAIN row = DOMAIN draft /\ row.currentPick = draft.currentPick /\ row.status = draft.status
        BY <1>1 DEF DraftRow
      <3> HIDE DEF row
      <3>4. /\ draft'.version = draft.version + 1 /\ draft'.currentPick = row.currentPick
            /\ draft'.status = row.status
        BY <1>1, <3>2, <3>3 DEF transitionDraftClock, DraftRow
      <3> QED BY <1>2, <3>1, <3>3, <3>4 DEF convergeDraft
    <2> QED BY <2>1, <2>2
  <1>8. ~UNCHANGED allVars
    BY DEF allVars
  <1> QED BY <1>2, <1>3, <1>4, <1>5, <1>6, <1>7, <1>8 DEF AdminNext

\* Old rows, whose earlier picks the model does not keep, have none.
FreshRows == \A row \in LegacyRows : row.currentPick = 1

\* No pick is lost, doubled or left out beside saves, reschedules and repairs: a draft set
\* back to SCHEDULED and started again goes on at the pick it had reached.
THEOREM BoardCorrectUnderAdmin == ASSUME FreshRows PROVE AdminSpec => []BoardHasNoGap
PROOF
  <1>1. AdminInit => BoardHasNoGap
    BY DEF AdminInit, Init, ScheduledDraft, BoardHasNoGap, FreshRows
  <1>2. AdminInv /\ BoardHasNoGap /\ [AdminNext]_allVars => BoardHasNoGap'
    <2> SUFFICES ASSUME AdminInv, BoardHasNoGap, [AdminNext]_allVars PROVE BoardHasNoGap'
      OBVIOUS
    <2>1. CASE [Next]_vars
      BY <2>1, BoardStep DEF AdminInv
    <2>2. CASE ~[Next]_vars
      BY <2>2, OthersWrite DEF BoardHasNoGap
    <2> QED BY <2>1, <2>2
  <1> QED BY <1>1, <1>2, AdminInvariant, PTL DEF AdminSpec

\* No queue holds a drafted player, although drafts are set back and started again.
THEOREM QueuesCorrectUnderAdmin == AdminSpec => []QueuesHoldNoPickedPlayer
PROOF
  <1>1. AdminInit => QueuesHoldNoPickedPlayer
    BY DEF AdminInit, Init, QueuesHoldNoPickedPlayer, Picked
  <1>2. AdminInv /\ QueuesHoldNoPickedPlayer /\ [AdminNext]_allVars => QueuesHoldNoPickedPlayer'
    <2> SUFFICES ASSUME AdminInv, QueuesHoldNoPickedPlayer, [AdminNext]_allVars
                 PROVE  QueuesHoldNoPickedPlayer'
      OBVIOUS
    <2>1. CASE [Next]_vars
      BY <2>1, QueuesStep DEF AdminInv
    <2>2. CASE ~[Next]_vars
      BY <2>2, OthersWrite DEF QueuesHoldNoPickedPlayer, Queued, Picked
    <2> QED BY <2>1, <2>2
  <1> QED BY <1>1, <1>2, AdminInvariant, PTL DEF AdminSpec

\* What a call has read is as good beside the others: they raise the version or leave it.
LEMMA CallsUnderAdmin ==
  AdminInv /\ CallInv /\ [AdminNext]_allVars => CallInv'
PROOF
  <1> SUFFICES ASSUME AdminInv, CallInv, [AdminNext]_allVars PROVE CallInv'
    OBVIOUS
  <1>1. CASE [Next]_vars
    BY <1>1, CallStep DEF AdminInv
  <1>2. CASE ~[Next]_vars
    <2> SUFFICES ASSUME NEW r \in Request, req[r].phase = "running"
                 PROVE  ReadOnce(req[r])'
      BY <1>2, OthersWrite DEF CallInv
    <2>1. ReadOnce(req[r]) /\ req[r].seen \in SnapshotRow
      BY DEF CallInv, AdminInv, TypeInv, CallsHoldTheirSnapshot, Holds
    <2>2. /\ UNCHANGED <<picks, queues, active, now, req>>
          /\ draft.version \in Nat /\ draft'.version \in Nat /\ draft.version <= draft'.version
      BY <1>2, OthersWrite
    <2>3. req[r].seen.draft.version \in Nat
      BY <2>1 DEF SnapshotRow, DraftRow
    <2>4. CheckedOnRead(req[r])' /\ (BestOfQueue(req[r]) => BestOfQueue(req[r])')
      BY <2>1, <2>2 DEF ReadOnce, CheckedOnRead, CurrentPickIsOpen, getExpectedTotalPicks,
         calculateDraftTurn, BestOfQueue, Queued, Available, Picked
    <2>5. /\ req[r].seen.draft.version <= draft'.version
          /\ req[r].seen.draft.version = draft'.version => req[r].seen.draft.version = draft.version
      BY <2>1, <2>2, <2>3 DEF ReadOnce
    <2> QED BY <2>1, <2>2, <2>4, <2>5 DEF ReadOnce
  <1> QED BY <1>1, <1>2

LEMMA CallsStartUnderAdmin == AdminInit => CallInv
BY CallInit DEF AdminInit, CallInv, Idle

\* Neither a save in mid-draft nor a draft set back and started again makes an automatic
\* pick pass over the member's queue, though the save may have changed whose turn it is.
THEOREM AutoPickCorrectUnderAdmin == AdminSpec => AutoPickHonoursTheQueue
PROOF
  <1>1. AdminInv /\ CallInv /\ [AdminNext]_allVars => [QueueHonoured]_vars
    <2> SUFFICES ASSUME AdminInv, CallInv, [AdminNext]_allVars PROVE QueueHonoured
      OBVIOUS
    <2>1. CASE [Next]_vars
      BY <2>1, AutoPickStep DEF AdminInv
    <2>2. CASE ~[Next]_vars
      BY <2>2, OthersWrite DEF QueueHonoured
    <2> QED BY <2>1, <2>2
  <1>2. AdminSpec => [][QueueHonoured]_vars
    BY <1>1, AdminInvariant, CallsStartUnderAdmin, CallsUnderAdmin, PTL DEF AdminSpec
  <1> QED BY <1>2 DEF QueueHonoured, AutoPickHonoursTheQueue

\* Settings for the same turns stay so if only such are saved; the schedule route changes
\* nothing but the pick time.
LEMMA SettingsStayUnderAdmin ==
  ASSUME NEW S \in {SameOrder, SameBoard}, OtherSettings \subseteq S,
         AdminInv, SettingsStay(S), [AdminNext]_allVars
  PROVE  SettingsStay(S)'
PROOF
  <1>1. CASE [Next]_vars
    BY <1>1, SettingsStayStep DEF AdminInv
  <1>2. CASE ~[Next]_vars
    <2>1. \A s \in S, seconds \in Nat \ {0} : [s EXCEPT !.pickSeconds = seconds] \in S
      BY DEF SameOrder, SameBoard, Settings
    <2>2. settings' \in S
      BY <1>2, <2>1, OthersWrite DEF SettingsStay
    <2> QED BY <1>2, <2>2, OthersWrite DEF SettingsStay
  <1> QED BY <1>1, <1>2

LEMMA SettingsStartUnderAdmin == AdminInit => SettingsStay(SameBoard) /\ SettingsStay(SameOrder)
BY DEF AdminInit, Init, SettingsStay, SameBoard, SameOrder, Idle

\* As long as no save changes the draft type, callers are told the truth whatever else is
\* saved, rescheduled or repaired in between.
THEOREM RepliesCorrectUnderAdmin ==
  ASSUME OtherSettings \subseteq SameOrder
  PROVE  AdminSpec => []RepliesAreTrue
PROOF
  <1> DEFINE Inv == CallInv /\ SettingsStay(SameOrder) /\ ReplyInv
  <1>1. AdminInit => Inv
    BY CallsStartUnderAdmin, SettingsStartUnderAdmin, NothingIsAnsweredAtFirst DEF AdminInit, Init
  <1>2. AdminInv /\ Inv /\ [AdminNext]_allVars => Inv'
    <2> SUFFICES ASSUME AdminInv, Inv, [AdminNext]_allVars PROVE ReplyInv'
      BY CallsUnderAdmin, SettingsStayUnderAdmin
    <2>1. CASE [Next]_vars
      BY <2>1, ReplyStep DEF AdminInv
    <2>2. CASE ~[Next]_vars
      <3>1. UNCHANGED <<picks, req>>
        BY <2>2, OthersWrite
      <3> QED BY <3>1 DEF ReplyInv, PicksAreOnTurn, RereadInv, RepliesAreTrue, CheckedOnRead, Picked,
                          CurrentPickIsOpen, getExpectedTotalPicks, calculateDraftTurn, UniqueViolation
    <2> QED BY <2>1, <2>2
  <1>3. Inv => RepliesAreTrue
    BY DEF ReplyInv
  <1> HIDE DEF Inv
  <1> QED BY <1>1, <1>2, <1>3, AdminInvariant, PTL DEF AdminSpec

\* As long as no save changes the draft type or the roster limit: each round gives everybody
\* one pick and a complete draft leaves every roster full, through reschedules and repairs.
THEOREM RostersCorrectUnderAdmin ==
  ASSUME OneSlotEach, FreshRows, OtherSettings \subseteq SameBoard
  PROVE  AdminSpec => []RostersFillEvenly
PROOF
  <1> DEFINE Inv == CallInv /\ SettingsStay(SameBoard) /\ PicksFollowTheOrder
  <1>1. AdminInit => Inv
    <2>1. AdminInit => PicksFollowTheOrder
      BY LegacyAssumption DEF AdminInit, Init, ScheduledDraft, PicksFollowTheOrder
    <2> QED BY <2>1, CallsStartUnderAdmin, SettingsStartUnderAdmin
  <1>2. AdminInv /\ Inv /\ [AdminNext]_allVars => Inv'
    <2> SUFFICES ASSUME AdminInv, Inv, [AdminNext]_allVars PROVE PicksFollowTheOrder'
      BY CallsUnderAdmin, SettingsStayUnderAdmin
    <2>1. CASE [Next]_vars
      BY <2>1, OrderIsFollowed DEF AdminInv
    <2>2. CASE ~[Next]_vars
      BY <2>2, OthersWrite DEF PicksFollowTheOrder, calculateDraftTurn
    <2> QED BY <2>1, <2>2
  <1>3. AdminInv /\ Inv /\ BoardHasNoGap => RostersFillEvenly
    BY RostersEven DEF AdminInv, TypeInv
  <1> HIDE DEF Inv
  <1> QED BY <1>1, <1>2, <1>3, AdminInvariant, BoardCorrectUnderAdmin, PTL DEF AdminSpec

LEMMA RepairsAndSavesKeepTheStatus ==
  ASSUME ScheduleCall = {}, AdminInv, [AdminNext]_allVars, ~[Next]_vars
  PROVE  draft'.status = draft.status
PROOF
  <1>1. CASE \E w \in Repairer : convergeDraft(w) /\ StillAsObserved(repair[w].row)
    <2>1. PICK w \in Repairer : convergeDraft(w) /\ StillAsObserved(repair[w].row)
      BY <1>1
    <2> DEFINE a == repair[w].anchors
               row == [draft EXCEPT !.pickStartedAt = a.from, !.pickDeadlineAt = a.deadline,
                                    !.pausedRemaining = Null, !.clockDuration = a.seconds]
    <2>2. transitionDraftClock(row, <<"draft:clock-repaired">>)
      BY <2>1 DEF convergeDraft
    <2>3. row.status = draft.status /\ DOMAIN row = DOMAIN draft /\ "status" \in DOMAIN draft
      BY DEF AdminInv, TypeInv, TypeOK, DraftRow
    <2> HIDE DEF row
    <2> QED BY <2>2, <2>3 DEF transitionDraftClock
  <1>2. CASE ~\E w \in Repairer : convergeDraft(w) /\ StillAsObserved(repair[w].row)
    BY <1>2 DEF AdminNext, allVars, vars, saveLeagueSettings, ObserveClock, convergeDraft, RepairerDies
  <1> QED BY <1>1, <1>2

\* The service keeps the promise of DraftBoard through saves that leave the draft type and
\* the roster limit as they are.
THEOREM ServiceImplementsBoardUnderSaves ==
  ASSUME ScheduleCall = {}, LegacyRows = {}, OtherSettings \subseteq SameBoard
  PROVE  AdminSpec => RefinesBoard
PROOF
  <1> DEFINE Inv == AdminInv /\ CallInv /\ SettingsStay(SameBoard) /\ BoardHasNoGap
  <1>1. AdminInit => Inv /\ Board!BoardInit
    BY AdminStarts, CallsStartUnderAdmin, SettingsStartUnderAdmin, InitRefines
       DEF AdminInit, Init, ScheduledDraft, BoardHasNoGap
  <1>2. Inv /\ [AdminNext]_allVars => Inv'
    <2> SUFFICES ASSUME Inv, [AdminNext]_allVars PROVE BoardHasNoGap'
      BY AdminStep, CallsUnderAdmin, SettingsStayUnderAdmin
    <2>1. CASE [Next]_vars
      BY <2>1, BoardStep DEF AdminInv
    <2>2. CASE ~[Next]_vars
      BY <2>2, OthersWrite DEF BoardHasNoGap
    <2> QED BY <2>1, <2>2
  <1>3. Inv /\ Inv' /\ [AdminNext]_allVars => [Board!BoardNext]_(Board!boardVars)
    <2> SUFFICES ASSUME Inv, Inv', [AdminNext]_allVars
                 PROVE  Board!BoardNext \/ UNCHANGED Board!boardVars
      OBVIOUS
    <2>1. CASE [Next]_vars
      BY <2>1, StepRefines DEF AdminInv
    <2>2. CASE ~[Next]_vars
      <3>1. picks' = picks /\ draft'.currentPick = draft.currentPick
        BY <2>2, OthersWrite
      <3>2. draft'.status = draft.status
        BY <2>2, RepairsAndSavesKeepTheStatus
      <3>3. ShownBoard' = ShownBoard
        BY <3>1, UntouchedBoard
      <3> QED BY <3>2, <3>3 DEF Board!boardVars, ShownBoard
    <2> QED BY <2>1, <2>2
  <1> HIDE DEF Inv
  <1> QED BY <1>1, <1>2, <1>3, PTL DEF AdminSpec, RefinesBoard, Board!BoardSpec

-------------------------------------------------------------------------------
(* The order arithmetic of every board *)

\* For boards of any size: before a draft starts getDraftPickCoordinate names, for every
\* overall pick, the slot that the board written out round by round has at that place.
THEOREM SlotsCorrect == AdminSpec => []SlotFollowsBoard
PROOF
  <1>1. ASSUME NEW type \in DraftType, NEW teamCount \in 1..BoardTeams,
               NEW overall \in 1..(teamCount * BoardRounds)
        PROVE  Slot(type, overall, teamCount) = BoardOrder(type, teamCount, BoardRounds)[overall]
    <2>1. teamCount \in Nat \ {0} /\ BoardRounds \in Nat
      BY BoardAssumption
    <2>2. BoardOrder(type, teamCount, BoardRounds)
            = [k \in 1..(teamCount * BoardRounds) |-> Slot(type, k, teamCount)]
      BY <2>1, BoardIsFollowed
    <2> QED BY <2>2, Zenon
  <1>2. SlotFollowsBoard
    BY <1>1, Zenon DEF SlotFollowsBoard
  <1> QED BY <1>2, PTL

===============================================================================
