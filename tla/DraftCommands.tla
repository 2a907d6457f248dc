---------------------------- MODULE DraftCommands ----------------------------
(***************************************************************************)
(* The durable draft: the row of the draft, its picks, the members' queues *)
(* and the outbox, and the commands of DraftApplicationService and         *)
(* DraftPrivateStateService that change them.                              *)
(*                                                                         *)
(* Every command runs in one Serializable transaction.  The lifecycle      *)
(* commands and the queue edits either commit on the state they read or    *)
(* are retried, so each is one action.  A pick is different: it can also   *)
(* fail on a unique key, and then the slot is read again in a SECOND       *)
(* transaction.  It is therefore a sequence of actions of its request.     *)
(*                                                                         *)
(* A call that is refused by its own checks changes nothing; such calls    *)
(* appear only for picks, whose reply the members see.                     *)
(***************************************************************************)
EXTENDS DraftOrder, FiniteSets, Sequences

CONSTANTS
  Member,           \* the participants of the draft
  Player,           \* every player of the league's pool
  Request,          \* calls of makePick and autoPick that may be in flight
  TeamCount,        \* draft.participants.length
  SlotMember,       \* the persisted draft order: SlotMember[slot]
  Queueable,        \* players that members put in their queues
  Retiring,         \* players the ETL may make inactive during the draft
  StartSettings,    \* the league settings when the draft is created
  TicksPerSecond,   \* the clock's resolution; stands for the 1000 ms
  Null,             \* a NULL column
  MaxTime,          \* bound: the last tick of the model's clock
  MaxVersion        \* bound: no pause (nor PUT) once this scheduling version is reached

\* What a pick call is told in the end.
Reply == {"ok", "replayed", "already picked", "slot filled", "refused", "error"}

Settings ==
  [draftType : DraftType, rosterLimit : Nat \ {0}, pickSeconds : Nat \ {0},
   allowAutoPick : BOOLEAN]

ASSUME TeamsAssumption == TeamCount \in Nat \ {0} /\ SlotMember \in [1..TeamCount -> Member]
ASSUME PoolAssumption ==
  /\ Queueable \subseteq Player /\ Retiring \subseteq Player
  /\ IsFiniteSet(Player)
ASSUME SettingsAssumption == StartSettings \in Settings /\ TicksPerSecond \in Nat \ {0}
ASSUME NullAssumption == Null \notin Int /\ Null \notin Player /\ Null \notin Reply

VARIABLES
  draft,      \* the Draft row
  settings,   \* the LeagueSettings row the draft reads
  picks,      \* the Pick rows
  queues,     \* the PreDraftQueue rows: queues[member][player] is a rank, 0 for no row
  outbox,     \* the DraftEvent rows
  active,     \* the players with active = true
  now,        \* the server clock
  req         \* the pick calls in flight

vars == <<draft, settings, picks, queues, outbox, active, now, req>>

-------------------------------------------------------------------------------
(* Draft rules *)

getExpectedTotalPicks(s) == TeamCount * s.rosterLimit

calculateDraftTurn(s, overall) == SlotMember[Slot(s.draftType, overall, TeamCount)]

Picked == { x.player : x \in picks }

CurrentPickIsOpen(d, s) == d.currentPick <= getExpectedTotalPicks(s)

\* Slip: a pause after the deadline stores less than nothing.
CeilSeconds_unfloored(ticks) == (ticks + TicksPerSecond - 1) \div TicksPerSecond

\* The whole seconds left on a running clock, as a pause stores them.
CeilSeconds(ticks) ==
  IF ticks <= 0 THEN 0 ELSE (ticks + TicksPerSecond - 1) \div TicksPerSecond

buildPickDeadline(from, seconds) == from + seconds * TicksPerSecond

-------------------------------------------------------------------------------
(* transitionDraftClock: the row moves to a new scheduling version and the *)
(* events of the transition join the outbox in the same transaction.  Only *)
(* the last event is authoritative and carries the clock revision.         *)

\* Slip: the first event of a transition is the authoritative one.
createDraftEvents_first(names, version) ==
  { [sequence |-> draft.eventSequence + i, event |-> names[i],
     revision |-> IF i = 1 THEN version ELSE Null] : i \in DOMAIN names }

createDraftEvents(names, version) ==
  { [sequence |-> draft.eventSequence + i, event |-> names[i],
     revision |-> IF i = Len(names) THEN version ELSE Null] : i \in DOMAIN names }

transitionDraftClock(row, names) ==
  LET version == draft.version + 1
  IN /\ draft' = [row EXCEPT !.version = version,
                             !.eventSequence = draft.eventSequence + Len(names)]
     /\ outbox' = outbox \cup createDraftEvents(names, version)

RunClock(row, seconds) ==
  [row EXCEPT !.pickStartedAt = now, !.pickDeadlineAt = buildPickDeadline(now, seconds),
              !.pausedRemaining = Null, !.clockDuration = seconds]

\* Slip: the anchors of the stopped clock stay.
StopClock_anchored(row, remaining) == [row EXCEPT !.pausedRemaining = remaining]

StopClock(row, remaining) ==
  [row EXCEPT !.pickStartedAt = Null, !.pickDeadlineAt = Null, !.pausedRemaining = remaining]

-------------------------------------------------------------------------------
(* Lifecycle commands *)

startDraft ==
  /\ draft.status = "SCHEDULED"
  /\ transitionDraftClock(
       RunClock([draft EXCEPT !.status = "LIVE", !.lobby = "LIVE"], settings.pickSeconds),
       <<"draft:started">>)
  /\ UNCHANGED <<settings, picks, queues, active, now, req>>

\* Opening the lobby moves neither the clock nor the event stream.
openScheduledLobby ==
  /\ draft.status = "SCHEDULED"
  /\ draft.lobby \notin {"COUNTDOWN", "LIVE"}
  /\ draft' = [draft EXCEPT !.lobby = "COUNTDOWN"]
  /\ UNCHANGED <<settings, picks, queues, outbox, active, now, req>>

calculatePausedRemainingSeconds ==
  IF draft.pickDeadlineAt = Null
    THEN IF draft.clockDuration = Null THEN settings.pickSeconds ELSE draft.clockDuration
    ELSE CeilSeconds(draft.pickDeadlineAt - now)

pauseDraft ==
  /\ draft.status = "LIVE"
  /\ draft.version < MaxVersion
  /\ transitionDraftClock(
       [StopClock(draft, calculatePausedRemainingSeconds) EXCEPT
          !.status = "PAUSED",
          !.clockDuration = IF @ = Null THEN settings.pickSeconds ELSE @],
       <<"draft:paused">>)
  /\ UNCHANGED <<settings, picks, queues, active, now, req>>

\* Slip: a resumed turn runs as long as the league's settings now say.
resumeDraft_settings ==
  /\ draft.status = "PAUSED"
  /\ transitionDraftClock(
       RunClock([draft EXCEPT !.status = "LIVE"], settings.pickSeconds), <<"draft:resumed">>)
  /\ UNCHANGED <<settings, picks, queues, active, now, req>>

resumeDraft ==
  /\ draft.status = "PAUSED"
  /\ LET remaining == IF draft.pausedRemaining # Null THEN draft.pausedRemaining
                      ELSE IF draft.clockDuration # Null THEN draft.clockDuration
                      ELSE settings.pickSeconds
     IN transitionDraftClock(
          [RunClock([draft EXCEPT !.status = "LIVE"], remaining) EXCEPT
             !.clockDuration = IF remaining = 0 THEN 1 ELSE remaining],
          <<"draft:resumed">>)
  /\ UNCHANGED <<settings, picks, queues, active, now, req>>

-------------------------------------------------------------------------------
(* Queue edits of DraftPrivateStateService.  A member whose queue is edited  *)
(* is a participant; a completed draft refuses every edit.                   *)

NoQueue == [p \in Player |-> 0]

Queued(queue) == { p \in Player : queue[p] > 0 }

Available == active \ Picked

OnlyIn(queue, S) == [p \in Player |-> IF p \in S THEN queue[p] ELSE 0]

WithoutPlayer(queue, p) == OnlyIn(queue, Player \ {p})

OnlyAvailable(queue) == OnlyIn(queue, Available)

\* A list written back is numbered from one without a gap.
Renumbered(queue) ==
  [p \in Player |-> IF queue[p] = 0 THEN 0
                    ELSE Cardinality({ q \in Queued(queue) : queue[q] <= queue[p] })]

InsertedAt(queue, p, at) ==
  [q \in Player |-> IF q = p THEN at
                    ELSE IF queue[q] >= at THEN queue[q] + 1 ELSE queue[q]]

replaceQueueRows(m, queue) ==
  /\ draft.status # "COMPLETED"
  /\ queues' = [queues EXCEPT ![m] = queue]
  /\ UNCHANGED <<draft, settings, picks, outbox, active, now, req>>

\* Adding a player at a rank also drops what has become unavailable.
addToPreDraftQueue(m, p) ==
  /\ p \in Available
  /\ LET rest == Renumbered(WithoutPlayer(OnlyAvailable(queues[m]), p))
     IN \E at \in 1..(Cardinality(Queued(rest)) + 1) : replaceQueueRows(m, InsertedAt(rest, p, at))

removeFromPreDraftQueue(m, p) ==
  /\ p \in Queued(queues[m])
  /\ replaceQueueRows(m, Renumbered(WithoutPlayer(queues[m], p)))

\* The list a member submits, its duplicates gone, loses its unavailable players.
replacePreDraftQueue(m, asked) == replaceQueueRows(m, Renumbered(OnlyAvailable(asked)))

-------------------------------------------------------------------------------
(* Pick calls *)

Idle ==
  [phase |-> "idle", kind |-> Null, member |-> Null, player |-> Null, expect |-> Null,
   attempt |-> 0, seen |-> Null, choice |-> Null, reply |-> Null]

Called(kind, m, p, v) ==
  [phase |-> "called", kind |-> kind, member |-> m, player |-> p, expect |-> v,
   attempt |-> 1, seen |-> Null, choice |-> Null, reply |-> Null]

Call(r, call) ==
  /\ req[r] = Idle
  /\ req' = [req EXCEPT ![r] = call]
  /\ UNCHANGED <<draft, settings, picks, queues, outbox, active, now>>

\* A member asks for a player, a commissioner asks for an automatic pick, the
\* worker asks for one on behalf of an expiry job of some scheduling version.
makePick(r, m, p) == Call(r, Called("make", m, p, Null))
autoPick(r) == Call(r, Called("auto", Null, Null, Null))
expirePick(r, v) == Call(r, Called("expire", Null, Null, v))

Answer(r, reply) ==
  [req EXCEPT ![r].phase = "done", ![r].seen = Null, ![r].reply = reply]

\* findQueuedPlayer, else the best available player.  Which one that is follows from
\* the Statly Z scores of the remaining pool; here any available player may be it.
AutoChoice(m) ==
  LET queued == OnlyAvailable(queues[m])
      first == { p \in Queued(queued) : \A q \in Queued(queued) : queued[p] <= queued[q] }
  IN IF first # {} THEN first ELSE Available

\* Slip: any expired clock will do.
requireExpired_any(call) == draft.pickDeadlineAt # Null /\ draft.pickDeadlineAt <= now

requireExpired(call) ==
  /\ draft.version = call.expect
  /\ draft.pickDeadlineAt # Null
  /\ draft.pickDeadlineAt <= now

\* The players a call may pick in the state its transaction reads; none if one
\* of the checks of makePick or autoPick refuses the call.
Admitted(call) ==
  IF ~(draft.status = "LIVE" /\ CurrentPickIsOpen(draft, settings)) THEN {}
  ELSE LET m == calculateDraftTurn(settings, draft.currentPick)
       IN IF call.kind = "make"
            THEN { p \in {call.player} \cap active :
                     /\ call.member = m
                     /\ Cardinality({ x \in picks : x.member = m }) < settings.rosterLimit }
            ELSE { p \in AutoChoice(m) :
                     /\ settings.allowAutoPick
                     /\ call.kind = "expire" => requireExpired(call) }

\* What a pick's transaction goes on to use; makePick reads no queue.
Snapshot(kind) ==
  [draft |-> draft, settings |-> settings,
   queue |-> IF kind = "make" THEN NoQueue ELSE queues[calculateDraftTurn(settings, draft.currentPick)]]

\* The transaction takes its snapshot and passes, or fails, every check.
ReadDraft(r) ==
  /\ req[r].phase = "called"
  /\ IF Admitted(req[r]) = {}
       THEN req' = Answer(r, "refused")
       ELSE \E p \in Admitted(req[r]) :
              req' = [req EXCEPT ![r].phase = "running", ![r].choice = p,
                                 ![r].seen = Snapshot(req[r].kind)]
  /\ UNCHANGED <<draft, settings, picks, queues, outbox, active, now>>

\* Slip: the key on the player is missing.
UniqueViolation_overall(overall, p) == \E x \in picks : x.overall = overall

\* The unique keys of Pick: one row per overall number, one per player.
UniqueViolation(overall, p) == \E x \in picks : x.overall = overall \/ x.player = p

\* Slip: the transaction runs at a weaker isolation and only the version is compared.
SnapshotHolds_weak(r) == draft = req[r].seen.draft

\* Serializable isolation: what the transaction read of the draft and of the queue
\* is still what is there.  The settings and the players are written outside it.
SnapshotHolds(r) ==
  LET seen == req[r].seen
  IN /\ draft = seen.draft
     /\ req[r].kind # "make" =>
          queues[calculateDraftTurn(seen.settings, draft.currentPick)] = seen.queue

PickRow(s, overall, p, auto) ==
  [overall |-> overall, round |-> Round(overall, TeamCount),
   slot |-> Slot(s.draftType, overall, TeamCount),
   member |-> calculateDraftTurn(s, overall), player |-> p, auto |-> auto]

\* Slip: the draft ends one pick early.
IsComplete_early(s, overall) == overall + 1 >= getExpectedTotalPicks(s)

IsComplete(s, overall) == overall + 1 > getExpectedTotalPicks(s)

\* buildNextDraftState and the clock of the next turn, under the settings read.
NextDraftRow(d, s) ==
  LET next == [d EXCEPT !.currentPick = d.currentPick + 1]
  IN IF IsComplete(s, d.currentPick)
       THEN [StopClock(next, Null) EXCEPT
               !.status = "COMPLETED",
               !.clockDuration = IF @ = Null THEN s.pickSeconds ELSE @]
       ELSE RunClock([next EXCEPT !.round = Round(next.currentPick, TeamCount),
                                  !.direction = Direction(s.draftType, next.currentPick, TeamCount)],
                     s.pickSeconds)

PickEvents(r) ==
  << IF req[r].kind = "make" THEN "draft:pick-made" ELSE "draft:auto-pick" >>
    \o (IF IsComplete(req[r].seen.settings, draft.currentPick) THEN <<"draft:completed">> ELSE <<>>)

\* Slip: only the queue of the member on the clock loses the player.
removePlayerFromAllDraftQueues_own(p) ==
  [queues EXCEPT ![calculateDraftTurn(settings, draft.currentPick)] = WithoutPlayer(@, p)]

removePlayerFromAllDraftQueues(p) == [m \in DOMAIN queues |-> WithoutPlayer(queues[m], p)]

\* The pick, the queues, the next turn, its clock and its events commit together.
CommitPick(r) ==
  /\ req[r].phase = "running"
  /\ SnapshotHolds(r)
  /\ ~UniqueViolation(draft.currentPick, req[r].choice)
  /\ LET s == req[r].seen.settings
         p == req[r].choice
     IN /\ picks' = picks \cup {PickRow(s, draft.currentPick, p, req[r].kind # "make")}
        /\ queues' = removePlayerFromAllDraftQueues(p)
        /\ transitionDraftClock(NextDraftRow(draft, s), PickEvents(r))
  /\ req' = Answer(r, "ok")
  /\ UNCHANGED <<settings, active, now>>

\* P2002: the slot or the player was taken.  The transaction is gone.
SlotTaken(r) ==
  /\ req[r].phase = "running"
  /\ UniqueViolation(req[r].seen.draft.currentPick, req[r].choice)
  /\ req' = [req EXCEPT ![r].phase = "reread"]
  /\ UNCHANGED <<draft, settings, picks, queues, outbox, active, now>>

\* P2034: a serialization failure.  The work runs again, three times at most.
MaxAttempts == 3

SerializationFailure(r) ==
  /\ req[r].phase = "running"
  /\ req' = IF req[r].attempt = MaxAttempts
              THEN Answer(r, "error")
              ELSE [req EXCEPT ![r].phase = "called", ![r].attempt = @ + 1,
                               ![r].seen = Null, ![r].choice = Null]
  /\ UNCHANGED <<draft, settings, picks, queues, outbox, active, now>>

\* Slip: a filled slot is always taken for one's own.
RereadSlot_own(r) ==
  /\ req[r].phase = "reread"
  /\ LET filled == \E x \in picks : x.overall = req[r].seen.draft.currentPick
     IN req' = Answer(r, IF filled THEN "replayed" ELSE "already picked")
  /\ UNCHANGED <<draft, settings, picks, queues, outbox, active, now>>

\* The second transaction: what the slot holds now decides the reply.
RereadSlot(r) ==
  /\ req[r].phase = "reread"
  /\ LET holders == { x \in picks : x.overall = req[r].seen.draft.currentPick }
     IN req' = Answer(r, IF holders = {} THEN "already picked"
                         ELSE IF \E x \in holders : x.player = req[r].choice THEN "replayed"
                         ELSE "slot filled")
  /\ UNCHANGED <<draft, settings, picks, queues, outbox, active, now>>

\* The caller has its reply, or the process running the call died: a
\* transaction that had not committed leaves nothing behind.
Forget(r) ==
  /\ req[r] # Idle
  /\ req' = [req EXCEPT ![r] = Idle]
  /\ UNCHANGED <<draft, settings, picks, queues, outbox, active, now>>

-------------------------------------------------------------------------------
(* The surroundings *)

\* The player import marks a player inactive.
Retire(p) ==
  /\ p \in active \cap Retiring
  /\ active' = active \ {p}
  /\ UNCHANGED <<draft, settings, picks, queues, outbox, now, req>>

Tick ==
  /\ now < MaxTime
  /\ now' = now + 1
  /\ UNCHANGED <<draft, settings, picks, queues, outbox, active, req>>

-------------------------------------------------------------------------------
ScheduledDraft(lobby) ==
  [status |-> "SCHEDULED", lobby |-> lobby, currentPick |-> 1, round |-> 1,
   direction |-> "FORWARD", version |-> 0, eventSequence |-> 0, pickStartedAt |-> Null,
   pickDeadlineAt |-> Null, pausedRemaining |-> Null, clockDuration |-> Null]

Init ==
  /\ \E lobby \in {"CLOSED", "COUNTDOWN"} : draft = ScheduledDraft(lobby)
  /\ settings = StartSettings
  /\ picks = {}
  /\ queues = [m \in Member |-> NoQueue]
  /\ outbox = {}
  /\ active = Player
  /\ now = 0
  /\ req = [r \in Request |-> Idle]

Lifecycle == startDraft \/ openScheduledLobby \/ pauseDraft \/ resumeDraft

QueueEdit ==
  \E m \in Member :
    \/ \E p \in Queueable : addToPreDraftQueue(m, p) \/ removeFromPreDraftQueue(m, p)
    \/ \E p, q \in Queueable : p # q /\ replacePreDraftQueue(m, [NoQueue EXCEPT ![p] = 1, ![q] = 2])

PickCall(r) ==
  \/ \E m \in Member, p \in Player : makePick(r, m, p)
  \/ autoPick(r)
  \/ \E v \in 0..draft.version : expirePick(r, v)

PickStep(r) ==
  \/ ReadDraft(r) \/ CommitPick(r) \/ SlotTaken(r)
  \/ SerializationFailure(r) \/ RereadSlot(r) \/ Forget(r)

Next ==
  \/ Lifecycle
  \/ QueueEdit
  \/ \E r \in Request : PickCall(r) \/ PickStep(r)
  \/ \E p \in Retiring : Retire(p)
  \/ Tick

Spec == Init /\ [][Next]_vars

-------------------------------------------------------------------------------
(* Types *)

DraftStatus == {"SCHEDULED", "LIVE", "PAUSED", "COMPLETED"}

OrNull(S) == S \cup {Null}

Queue == [Player -> Nat]

DraftRow ==
  [status : DraftStatus, lobby : {"CLOSED", "COUNTDOWN", "LIVE"},
   currentPick : Nat \ {0}, round : Nat \ {0}, direction : {"FORWARD", "REVERSE"},
   version : Nat, eventSequence : Nat, pickStartedAt : OrNull(Int),
   pickDeadlineAt : OrNull(Int), pausedRemaining : OrNull(Nat),
   clockDuration : OrNull(Nat \ {0})]

Pick ==
  [overall : Nat \ {0}, round : Nat \ {0}, slot : 1..TeamCount, member : Member,
   player : Player, auto : BOOLEAN]

DraftEvent ==
  [sequence : Nat \ {0}, revision : OrNull(Nat \ {0}),
   event : {"draft:started", "draft:paused", "draft:resumed", "draft:pick-made",
            "draft:auto-pick", "draft:completed", "draft:clock-repaired"}]

SnapshotRow == [draft : DraftRow, settings : Settings, queue : Queue]

PickCallState ==
  [phase : {"idle", "called", "running", "reread", "done"},
   kind : OrNull({"make", "auto", "expire"}), member : OrNull(Member),
   player : OrNull(Player), expect : OrNull(Nat), attempt : 0..MaxAttempts,
   seen : OrNull(SnapshotRow), choice : OrNull(Player),
   reply : OrNull(Reply)]

\* The rows and the calls in flight always have the shape the code gives them.
TypeOK ==
  /\ draft \in DraftRow
  /\ settings \in Settings
  /\ picks \subseteq Pick
  /\ queues \in [Member -> Queue]
  /\ outbox \subseteq DraftEvent
  /\ active \subseteq Player
  /\ now \in Nat
  /\ req \in [Request -> PickCallState]

-------------------------------------------------------------------------------
(* Properties *)

\* The picks fill the board from the first slot without a gap, none twice and no
\* player twice, whatever calls race, are retried or die: transactPick, the
\* unique keys and the transition commit as one.
BoardHasNoGap ==
  /\ { x.overall : x \in picks } = 1..(draft.currentPick - 1)
  /\ \A x, y \in picks : (x.overall = y.overall \/ x.player = y.player) => x = y

\* When a round is over every member has had exactly one pick of it, and when the
\* draft is complete every roster is exactly full: the turn order, the stop
\* condition of buildNextDraftState and the roster limit of makePick agree.
RostersFillEvenly ==
  \A m \in Member :
    LET mine == { x \in picks : x.member = m }
    IN /\ \A r \in 1..draft.round : r * TeamCount < draft.currentPick =>
            Cardinality({ x \in mine : x.overall <= r * TeamCount }) = r
       /\ draft.status = "COMPLETED" => Cardinality(mine) = settings.rosterLimit

\* A pick leaves the queues of all members, however the edits of the queues and
\* the picks interleave: no member is shown, or given, a drafted player.
QueuesHoldNoPickedPlayer ==
  \A m \in Member : Queued(queues[m]) \cap Picked = {}

\* An automatic pick takes the first player still available in the member's queue as
\* it stands when the pick commits, although the queue was read earlier in the
\* transaction and the member may be editing it meanwhile.
AutoPickHonoursTheQueue ==
  [][\A x \in picks' \ picks : x.auto =>
       LET queue == queues[x.member]
       IN \A p \in Queued(queue) \cap Available :
            queue[x.player] > 0 /\ queue[x.player] <= queue[p]]_vars

\* The event stream of a draft has no gap and no repetition, every scheduling
\* version has exactly one authoritative event, they come in order, and the last
\* event of the stream is the one of the current version (transitionDraftClock).
OutboxFollowsTheClock ==
  /\ { e.sequence : e \in outbox } = 1..draft.eventSequence
  /\ { e.revision : e \in outbox } \ {Null} = 1..draft.version
  /\ \A e, f \in outbox :
       /\ e.sequence = f.sequence => e = f
       /\ (e.revision # Null /\ f.revision # Null) =>
            (e.sequence < f.sequence <=> e.revision < f.revision)
  /\ \A e \in outbox : e.sequence = draft.eventSequence => e.revision = draft.version

\* hasValidLiveDraftClockAnchors.
HasValidAnchors(d) ==
  /\ d.clockDuration # Null /\ d.clockDuration > 0
  /\ d.pickStartedAt # Null
  /\ d.pickDeadlineAt # Null
  /\ d.pausedRemaining = Null
  /\ d.pickDeadlineAt >= d.pickStartedAt

\* The commands alone never leave a LIVE draft with a clock the convergence
\* service would have to repair, a paused draft always knows how much time is
\* left, and no other draft has a running clock.
ClockAgreesWithStatus ==
  /\ draft.status = "LIVE" => HasValidAnchors(draft)
  /\ draft.status # "LIVE" => draft.pickStartedAt = Null /\ draft.pickDeadlineAt = Null
  /\ draft.status = "PAUSED" <=> draft.pausedRemaining # Null

TimeLeft(d, at) ==
  IF d.status = "LIVE" THEN CeilSeconds(d.pickDeadlineAt - at) ELSE d.pausedRemaining

\* Pausing and resuming never gives the member on the clock another second: the
\* whole seconds left in a turn only ever go down.
TurnIsNeverProlonged ==
  [][(/\ draft.currentPick = draft'.currentPick
      /\ draft.status \in {"LIVE", "PAUSED"}
      /\ draft'.status \in {"LIVE", "PAUSED"})
       => TimeLeft(draft', now') <= TimeLeft(draft, now)]_vars

\* A pick made for an expiry job is made on the very clock the job was scheduled
\* for, and only once that clock has run out: a late or repeated job never takes
\* the turn of the next member, nor of the same member on a later clock.
ExpiryTakesOnlyItsOwnTurn ==
  [][\A r \in Request :
       (req[r].kind = "expire" /\ req[r].reply # "ok" /\ req'[r].reply = "ok") =>
         /\ draft.version = req[r].expect
         /\ draft.pickDeadlineAt # Null /\ draft.pickDeadlineAt <= now]_vars

\* What a caller is told is so: a success or a replay names a pick on the board
\* that is the caller's own, and "already picked" names a player who is gone.
RepliesAreTrue ==
  \A r \in Request : req[r].phase = "done" =>
    /\ req[r].reply \in {"ok", "replayed"} =>
         \E x \in picks : /\ x.player = req[r].choice
                          /\ req[r].kind = "make" =>
                               x.member = req[r].member /\ x.player = req[r].player
    /\ req[r].reply = "already picked" => req[r].choice \in Picked

-------------------------------------------------------------------------------
(* The promise of DraftBoard, kept: the board is read off the pick rows. *)

PickAt(k) == CHOOSE x \in picks : x.overall = k

Board == INSTANCE DraftBoard WITH
  Total <- getExpectedTotalPicks(StartSettings),
  Owner <- [k \in 1..getExpectedTotalPicks(StartSettings) |-> calculateDraftTurn(StartSettings, k)],
  board <- [k \in 1..(draft.currentPick - 1) |->
              [member |-> PickAt(k).member, player |-> PickAt(k).player]],
  phase <- draft.status

\* Every step of the service is a step of the abstract draft, or none at all.
RefinesBoard == Board!BoardSpec
===============================================================================
