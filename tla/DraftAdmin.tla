------------------------------ MODULE DraftAdmin ------------------------------
(***************************************************************************)
(* What else writes the draft row and the settings a draft reads: the      *)
(* league settings route, the schedule route and the repair of malformed   *)
(* LIVE clocks.                                                            *)
(*                                                                         *)
(* None of the three runs in one transaction from its first read to its    *)
(* last write.  The settings route checks nothing of the draft.  The       *)
(* schedule route reads the status first and writes later, without a       *)
(* condition.  The repair observes a row in one transaction and replaces   *)
(* it by compare-and-swap in another.                                      *)
(***************************************************************************)
EXTENDS DraftCommands

CONSTANTS
  OtherSettings,   \* settings a commissioner may save
  ScheduleCall,    \* calls of the schedule route that may be in flight
  Repairer,        \* processes that run DraftClockConvergenceService
  LegacyRows,      \* LIVE draft rows of before the clock contract
  BoardTeams,      \* bound: the most teams and rounds of a board whose slots are
  BoardRounds      \*        compared with the board written out

ASSUME OtherSettingsAssumption == OtherSettings \subseteq Settings
ASSUME LegacyAssumption == \A row \in LegacyRows : row \in DraftRow /\ row.status = "LIVE"
ASSUME BoardAssumption == BoardTeams \in Nat /\ BoardRounds \in Nat

VARIABLES
  schedule,   \* the call's verb and pickSeconds once its status check has passed
  repair      \* the row a process found malformed and the anchors it derived

adminVars == <<schedule, repair>>
allVars == <<vars, adminVars>>

-------------------------------------------------------------------------------
(* PUT and PATCH of /api/leagues/[id]/settings *)

saveLeagueSettings(s) ==
  /\ settings' = s
  /\ UNCHANGED <<draft, picks, queues, outbox, active, now, req, adminVars>>

-------------------------------------------------------------------------------
(* PUT and DELETE of /api/drafts/[id]/schedule *)

\* Slip: a paused draft may be rescheduled.
Reschedulable_paused == {"SCHEDULED", "LIVE", "PAUSED"}

Reschedulable == {"SCHEDULED", "LIVE"}

\* timePerPick is the body's, or the settings' as they are read here.
PutReads(c) ==
  /\ schedule[c] = Null
  /\ draft.version < MaxVersion
  /\ draft.status \in Reschedulable
  /\ \E s \in OtherSettings \cup {settings} :
       schedule' = [schedule EXCEPT ![c] = [verb |-> "PUT", seconds |-> s.pickSeconds]]
  /\ UNCHANGED <<vars, repair>>

DeleteReads(c) ==
  /\ schedule[c] = Null
  /\ draft.status = "SCHEDULED"
  /\ schedule' = [schedule EXCEPT ![c] = [verb |-> "DELETE", seconds |-> settings.pickSeconds]]
  /\ UNCHANGED <<vars, repair>>

\* The status is written whatever it has become; clock, version and events stay.
PutWrites(c) ==
  /\ schedule[c] # Null /\ schedule[c].verb = "PUT"
  /\ settings' = [settings EXCEPT !.pickSeconds = schedule[c].seconds]
  /\ draft' = [draft EXCEPT !.status = "SCHEDULED"]
  /\ schedule' = [schedule EXCEPT ![c] = Null]
  /\ UNCHANGED <<picks, queues, outbox, active, now, req, repair>>

DeleteWrites(c) ==
  /\ schedule[c] # Null /\ schedule[c].verb = "DELETE"
  /\ draft' = [draft EXCEPT !.status = "LIVE"]
  /\ schedule' = [schedule EXCEPT ![c] = Null]
  /\ UNCHANGED <<settings, picks, queues, outbox, active, now, req, repair>>

ScheduleDies(c) ==
  /\ schedule[c] # Null
  /\ schedule' = [schedule EXCEPT ![c] = Null]
  /\ UNCHANGED <<vars, repair>>

-------------------------------------------------------------------------------
(* DraftClockConvergenceService *)

resolveClockDurationSeconds(row, pickSeconds) ==
  IF row.clockDuration # Null /\ row.clockDuration > 0 THEN row.clockDuration
  ELSE IF row.pickStartedAt # Null /\ row.pickDeadlineAt # Null /\ row.pickDeadlineAt > row.pickStartedAt
    THEN CeilSeconds(row.pickDeadlineAt - row.pickStartedAt)
  ELSE pickSeconds

\* Slip: a turn that has a deadline already is given a new one.
deriveLiveDraftClockAnchors_afresh(seen) ==
  LET seconds == resolveClockDurationSeconds(seen.row, seen.pickSeconds)
  IN [from |-> seen.at, deadline |-> buildPickDeadline(seen.at, seconds), seconds |-> seconds]

\* What the row still says is kept; only what is missing or impossible is made up.
deriveLiveDraftClockAnchors(seen) ==
  LET start == seen.row.pickStartedAt
      deadline == seen.row.pickDeadlineAt
      seconds == resolveClockDurationSeconds(seen.row, seen.pickSeconds)
      Anchors(from, to) == [from |-> from, deadline |-> to, seconds |-> seconds]
      From(from) == Anchors(from, buildPickDeadline(from, seconds))
  IN IF start # Null
       THEN IF deadline # Null /\ deadline >= start THEN Anchors(start, deadline) ELSE From(start)
     ELSE IF deadline # Null
       THEN IF seen.lastPickAt # Null /\ seen.lastPickAt <= deadline
              THEN Anchors(seen.lastPickAt, deadline)
              ELSE From(deadline - seconds * TicksPerSecond)
     ELSE IF seen.lastPickAt # Null THEN From(seen.lastPickAt)
     ELSE IF seen.startedAt # Null THEN From(seen.startedAt)
     ELSE From(seen.at)

\* When the last pick was made and when the draft was started, if at all, is not
\* kept elsewhere in the model: any tick up to now.  Draft.totalPicks is taken to be
\* what the settings ask for, as the settings route leaves it.
ObserveClock(w) ==
  /\ repair[w] = Null
  /\ draft.status = "LIVE"
  /\ CurrentPickIsOpen(draft, settings)
  /\ ~HasValidAnchors(draft)
  /\ \E lastPickAt \in IF picks = {} THEN {Null} ELSE 0..now, startedAt \in OrNull(0..now) :
       LET seen == [row |-> draft, pickSeconds |-> settings.pickSeconds,
                    lastPickAt |-> lastPickAt, startedAt |-> startedAt, at |-> now]
       IN repair' = [repair EXCEPT ![w] = [row |-> draft, anchors |-> deriveLiveDraftClockAnchors(seen)]]
  /\ UNCHANGED <<vars, schedule>>

\* Slip: the draft is still on the same pick, so the repair goes ahead.
StillAsObserved_pick(row) == draft.status = "LIVE" /\ draft.currentPick = row.currentPick

\* Slip: the columns are compared as SQL compares them, and NULL equals nothing.
StillAsObserved_sql(row) ==
  /\ draft.status = "LIVE"
  /\ draft.version = row.version
  /\ draft.pickStartedAt # Null /\ draft.pickStartedAt = row.pickStartedAt
  /\ draft.pickDeadlineAt # Null /\ draft.pickDeadlineAt = row.pickDeadlineAt

\* Every column the observation read is compared when it is replaced.
StillAsObserved(row) ==
  /\ draft.status = "LIVE"
  /\ draft.version = row.version
  /\ draft.currentPick = row.currentPick
  /\ draft.pickStartedAt = row.pickStartedAt
  /\ draft.pickDeadlineAt = row.pickDeadlineAt
  /\ draft.pausedRemaining = row.pausedRemaining
  /\ draft.clockDuration = row.clockDuration

\* The winner replaces the clock; a loser writes nothing and reloads.
convergeDraft(w) ==
  /\ repair[w] # Null
  /\ IF StillAsObserved(repair[w].row)
       THEN LET a == repair[w].anchors
            IN transitionDraftClock(
                 [draft EXCEPT !.pickStartedAt = a.from, !.pickDeadlineAt = a.deadline,
                               !.pausedRemaining = Null, !.clockDuration = a.seconds],
                 <<"draft:clock-repaired">>)
       ELSE UNCHANGED <<draft, outbox>>
  /\ repair' = [repair EXCEPT ![w] = Null]
  /\ UNCHANGED <<settings, picks, queues, active, now, req, schedule>>

RepairerDies(w) ==
  /\ repair[w] # Null
  /\ repair' = [repair EXCEPT ![w] = Null]
  /\ UNCHANGED <<vars, schedule>>

-------------------------------------------------------------------------------
AdminInit ==
  /\ Init \/ (draft \in LegacyRows /\ settings = StartSettings /\ picks = {}
              /\ queues = [m \in Member |-> NoQueue] /\ outbox = {} /\ active = Player
              /\ now = 0 /\ req = [r \in Request |-> Idle])
  /\ schedule = [c \in ScheduleCall |-> Null]
  /\ repair = [w \in Repairer |-> Null]

AdminNext ==
  \/ Next /\ UNCHANGED adminVars
  \/ \E s \in OtherSettings : saveLeagueSettings(s)
  \/ \E c \in ScheduleCall :
       PutReads(c) \/ DeleteReads(c) \/ PutWrites(c) \/ DeleteWrites(c) \/ ScheduleDies(c)
  \/ \E w \in Repairer : ObserveClock(w) \/ convergeDraft(w) \/ RepairerDies(w)

AdminSpec == AdminInit /\ [][AdminNext]_allVars

\* The worker repeats its reconciliation of the LIVE drafts every thirty seconds: a
\* malformed clock is observed again and again, and a process may die, but not always.
RepairFairness ==
  \A w \in Repairer : WF_allVars(ObserveClock(w)) /\ SF_allVars(convergeDraft(w))

FairAdminSpec == AdminSpec /\ RepairFairness

-------------------------------------------------------------------------------
(* Properties *)

\* Before a draft starts, getDraftPickCoordinate names, for every overall pick of every
\* small board, the slot that the board written out round by round has at that place.
SlotFollowsBoard ==
  draft.status = "SCHEDULED" =>
    \A type \in DraftType, teamCount \in 1..BoardTeams :
      LET order == BoardOrder(type, teamCount, BoardRounds)
      IN \A overall \in 1..(teamCount * BoardRounds) : Slot(type, overall, teamCount) = order[overall]

\* A repair replaces a malformed LIVE clock and nothing else: of several processes
\* that found it malformed one wins, and the clock of a pick, a pause or another
\* repair that came in between is left alone (the compare-and-swap of convergeDraft).
OnlyABrokenClockIsRepaired ==
  [][(\E e \in outbox' \ outbox : e.event = "draft:clock-repaired") =>
       /\ draft.status = "LIVE" /\ ~HasValidAnchors(draft)
       /\ HasValidAnchors(draft')]_allVars

\* A repair takes the deadline the row has, if it is one the turn could have had.
RepairKeepsADeadline ==
  [][(/\ draft.status = "LIVE" /\ draft'.version > draft.version
      /\ \E e \in outbox' \ outbox : e.event = "draft:clock-repaired"
      /\ draft.pickDeadlineAt # Null
      /\ draft.pickStartedAt # Null => draft.pickStartedAt <= draft.pickDeadlineAt)
       => draft'.pickDeadlineAt = draft.pickDeadlineAt]_allVars

\* Whatever made the clock of a LIVE draft with picks to make malformed (an old row, the
\* schedule route's DELETE), it is repaired or the draft moves on.
BrokenClockIsRepaired ==
  (draft.status = "LIVE" /\ CurrentPickIsOpen(draft, settings) /\ ~HasValidAnchors(draft))
    ~> (draft.status = "LIVE" /\ CurrentPickIsOpen(draft, settings) => HasValidAnchors(draft))

\* Promised, and not so: only a pending or live draft goes back to SCHEDULED (the
\* refusal of the schedule route).
OnlyPendingOrLiveIsRescheduled ==
  [][draft'.status = "SCHEDULED" => draft.status \in Reschedulable]_allVars
===============================================================================
