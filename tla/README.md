# Statly in TLA+

Statly is a fantasy football platform for the AFL: leagues of fantasy teams draft
players, play weekly match-ups, trade, claim free agents and finish in a finals
series. This directory holds TLA+ models of its server, the TLC runs that check
them on small instances and the proofs TLAPS checks for all instances.

The code under study is the TypeScript server in `src/src/server`, the API routes
in `src/src/app/api` and the database schema in `src/prisma/schema.prisma`. All
state that matters is in PostgreSQL, written through Prisma transactions that are
Serializable in the draft and READ COMMITTED elsewhere. Redis holds BullMQ jobs,
most of which can be rebuilt from the rows.

Paths below are relative to `src/src` unless they start with `prisma` or `docs`.

## 1. Inventory

### The draft

| Component | State | Operations | What is hard, and what must hold |
|---|---|---|---|
| Order arithmetic, `lib/draftOrder.ts` | none | round, index, direction and slot of an overall pick | off-by-one at the turn of a round. Server and browser must agree on whose turn it is |
| Commands, `server/draft/services/DraftApplicationService.ts`, `domain/draftRules.ts` | rows Draft, Pick, DraftEvent | start, open lobby, pick, automatic pick, pause, resume | racing picks, unique keys, serialization retries, the re-read of a taken slot, rounding of time. A gapless board, true replies, a turn that is never stretched |
| Private strategy, `DraftPrivateStateService.ts` | rows PreDraftQueue, watchlist | add, remove, replace | edits racing picks. No drafted player in a queue, automatic picks follow the queue |
| Settings and schedule routes, `app/api/leagues/[id]/settings`, `app/api/drafts/[id]/schedule` | rows LeagueSettings, Draft | PUT/PATCH settings, PUT/DELETE schedule | checks and writes in different transactions, settings that change in mid-draft |
| Clock convergence, `DraftClockConvergenceService.ts` | Draft | observe, derive, compare-and-swap | several repairers, a clock that moves while it is being repaired |
| Outbox, `DraftRealtimePublisher.ts`, `DraftRepository.ts` | rows DraftEvent | claim, publish, mark, fail | several flushes and processes, deaths, claims that run out. Order, no loss, repeats only after a fault |
| Clock jobs, `DraftClockCoordinator.ts`, `DraftExpiryReconciler.ts`, `queue/draftQueue.ts`, `workers/enhancedDraftWorker.ts` | BullMQ jobs | ensureReady, reconcile, run an expiry job | lost, early, failed and stalled jobs. Every turn ends |
| Start jobs, same queue and worker, `lib/draftSchedule.ts` | BullMQ jobs, LeagueSettings.startAt | schedule, lobby job, start job | a reschedule racing a running job, removal before refusal, ids that exist already. A scheduled draft starts, at the time last stored |
| Setup and league formation, `DraftSetupConvergenceService.ts`, `server/leagues/memberCommands.ts` | rows League, LeagueMember, DraftOrder | join, remove, leave, create the draft, converge the order | READ COMMITTED, checks without locks. The order is exactly the members, never changes after the start |
| Roster projection, `server/rosters/RosterProjectionService.ts` | rows LeagueRosterPlayer | project the finished board | runs after the pick's commit, statement by statement; may be overtaken |
| Realtime replay, `DraftRealtimeReplayService.ts`, `server/realtime/DraftSocketV2Session.ts` | socket sessions | snapshot, replay, live suffix | gap or repeat where snapshot, replay and stream meet |
| Read models, browser room, socket transport | none durable | reads, presence | stale snapshots in the page |

### After the draft

| Component | State | Operations | What is hard, and what must hold |
|---|---|---|---|
| Free agency and drops, `app/api/leagues/[id]/roster/add`, `actions/[userId]` | rows LeagueRosterPlayer, DROP_PLAYER actions (holds) | sign, drop | separate statements without a lock, beside waivers and trades. One owner per player |
| Waivers, `server/waivers` | WAIVER_CLAIM actions, budgets, priorities, a lease | submit, cancel, process | a lease that runs out, priorities kept in memory during a run, bids reserved and charged by writers that do not know of each other. A bid charged once, the best claim first, an award that stays |
| Trades, `server/leagues/trades` | threads with versions, votes, roster rows | offer, counter, accept, review, veto, sweep | decisions on what was loaded before the claim of the thread; rows changed by others. Only the standing offer moves, whole; every vote counts; overdue threads are resolved |
| Lineups, autosubs | lineups, locks | set, substitute | locks at the start of a match |
| Fixtures, finals, standings | fixtures | generate, advance, score | pure algorithms with byes and ties |
| Season state | none | derive from stored facts | read by trades and waivers |
| Social, identity, injuries, AFL trade intelligence, user interface | own tables | | independent of the rules of a league |

### How they interact

A draft command commits the pick, the next turn, the queues and the DraftEvent
rows in one transaction, with `schedulingVersion` raised by one. Then, outside of
it, it flushes the outbox. The publisher makes the clock ready (`ensureReady`:
converge the anchors, put an expiry job for this version into BullMQ, read the row
again) before it broadcasts the state of an authoritative event. When the deadline
is over the worker takes the job, compares its version with the row and calls
`autoPick`, which compares it once more inside its transaction. Every thirty
seconds the worker reconciles all LIVE drafts, so that a lost job or a dead
process costs time and nothing else. Before the start it is different: the lobby
job opens the lobby and adds the start job, and nothing rebuilds either.

The schedule and settings routes write the same draft row and the settings a draft
reads, without the version. Joins, departures, saves of the settings and the
creation of the draft all write the members' slots and the order a draft will
read. The last pick is followed by the roster projection. From then on three
writers share the roster rows: free agency and drops, waiver runs, and trades, each
READ COMMITTED and each checking in one statement what it writes in another.

## 2. Modules

    DraftOrder -- DraftCommands -- DraftAdmin          DraftOutbox
                       |                               DraftClock
                  DraftBoard                           DraftStart
                                                       LeagueFormation
    LeagueRosters --+-- WaiverProcessing
                    +-- LeagueTrades

    DraftCommandsProofs -- DraftClockProofs        (the latter on DraftAdmin, too)
    DraftOutboxProofs    DraftJobsProofs       DraftStartProofs
    WaiverProofs         LeagueTradesProofs    LeagueFormationProofs

`DraftBoard` is the abstract specification of `DraftCommands`. `DraftAdmin`,
`WaiverProcessing` and `LeagueTrades` extend the module whose rows they share, so
that both sets of actions interleave. Each checked module has an MC module with
the values of its constants (`DraftOrder` is checked within `DraftAdmin`), and
each run a `.cfg`. A definition whose comment starts with "Slip:" is a plausible
mistake in the code, named like the definition it would replace plus a suffix.
`PROJECT.json` says for each property which slip makes TLC find it violated, so
that no property holds merely because the model has no room for the error.

Where a transaction is Serializable and retried it is one action, or, if others
may commit between its snapshot and its commit, a read and a commit whose guard is
what isolation guarantees. Where it is READ COMMITTED it is as many actions as it
has reads that later writes rely on; row locks are guards of the other writers.

### DraftOrder

`Round`, `Slot` and `Direction` are `getDraftPickCoordinate`. No state.
`BoardOrder` is the reference: the board written out round by round.

### DraftCommands, and its promise DraftBoard

| TLA+ | Code |
|---|---|
| `draft` | the Draft row: status, lobby, currentPick, round, direction, schedulingVersion, eventSequence, the clock's four columns |
| `settings` | draftType, rosterLimit (the sum of the roster slots), pickSeconds, allowAutoPick |
| `picks`, `queues`, `outbox` | Pick, PreDraftQueue and DraftEvent rows |
| `active` | Player.active, written by the player import |
| `now` | the server's clock in ticks, `TicksPerSecond` of which make a second |
| `req` | calls of makePick and autoPick in flight |
| `startDraft`, `openScheduledLobby`, `pauseDraft`, `resumeDraft` | the methods of those names |
| `addToPreDraftQueue`, `removeFromPreDraftQueue`, `replacePreDraftQueue` | `DraftPrivateStateService` |
| `makePick`, `autoPick`, `expirePick` | the calls of a member, a commissioner and an expiry job |
| `ReadDraft`, `CommitPick` | first read and commit of the pick's transaction |
| `SlotTaken`, `RereadSlot` | P2002 and the second transaction that decides between success, replay and refusal |
| `SerializationFailure` | P2034 and the three attempts of `DraftRepository.transaction` |
| `Forget` | the reply is gone, or the process is |

Lifecycle commands and queue edits run in one Serializable transaction each, or
again from the start, so each is one action. A pick is a sequence of actions,
because other transactions may commit between its snapshot and its commit:
`SnapshotHolds` is what Serializable isolation guarantees of the rows it read.
Which of the available players an automatic pick falls back on follows from the
statistics of the pool; the model allows any.

`DraftBoard` is the abstract draft: a sequence of picks that grows by one, each by
the member who is on the clock, in three phases and a last one. `RefinesBoard`
maps the rows to it.

### DraftAdmin

Extends DraftCommands with the other writers of the same rows. `PutReads` and
`PutWrites` (`DeleteReads`, `DeleteWrites`) are the status check and the later
unconditional write of the schedule route; `saveLeagueSettings` is the settings
route; `ObserveClock` and `convergeDraft` are the two transactions of the
convergence service. LIVE rows of before the clock contract are initial states.
The settings route also asks for a setup convergence: that is in LeagueFormation.

### DraftOutbox

The outbox of one draft. `rows[sequence]` are the DraftEvent rows with
`publishedAt`, `lockedBy` and, instead of `lockedAt`, whether the claim is older
than its time to live. `flush[f]` is a run of `flushPendingDraftEvents`: `Claim`
is one transaction; `PrepareState`, `EmitEvent` and `PublishState` happen outside
of any; `MarkPublished` or `MarkFailed` is the last transaction. A process has
one `lockerId`, shared by the flushes it runs at once. Emission is modelled by
histories (`delivered`, `shown`), not by receivers. The state of the draft can
always be prepared: the case in which it cannot is under hazards.

### DraftClock

The clock seen as revisions, with a deadline that is over or not. `jobs[v]` is
the BullMQ job whose id names revision v. `ObserveClock`, `AddJob` and `Recheck`
are `ensureReady`; `WakeJob`, `CheckJob`, `AutoPick`, `PublishResult` and
`RefusedPick` are the worker's pick-expiry job. `FailedJob`, `WorkerDies`,
`LoseJob` and an early `WakeJob` are what Redis, BullMQ and two hosts' clocks can
do. Assumed: automatic picks are on, and the LIVE clock is well formed, which is
what `admin_repair` shows to come about.

### DraftStart

| TLA+ | Code |
|---|---|
| `startAt`, `distance` | LeagueSettings.startAt, and how far each time is: far, within the lobby's five minutes, over |
| `lobbyJob`, `startJob` | the jobs with the league's two ids: delayed, active (and at which step) or failed, with the attempts left |
| `PutReads`, `PutWrites`, `RemoveJobs`, `AddLobbyJob` | PUT of the schedule route: its check, its transaction, the removal of both jobs and the addition of one in `scheduleDraftStart` |
| `DeleteReads`, `DeleteWrites`, `saveLeagueSettings` | the other writers of startAt, which touch no job |
| `WakeLobby`, `openScheduledLobby`, `RemoveStart`, `AddStart`, `CompleteLobby` | the worker's draft:start-lobby job |
| `WakeStart`, `CheckStart`, `StartByJob`, `PublishStart` | the worker's draft:start job |
| `JobFails`, `WorkerDies`, `LoseJob` | what the jobs may meet at any step |

`Removed` and `Added` are BullMQ's: an active job cannot be removed, and an id
that exists is not added again. The history `clean` says that the stored time was
scheduled while no job was running or being handed out and no other PUT was at
work, and that no fault has taken its jobs: only then does the code promise
anything. Composed with DraftClock it is beyond TLC; the two share only the status.

### LeagueRosters

The LeagueRosterPlayer rows as a function from players (the unique key is league
and player), with the manager and how the player was acquired. A signing and a
drop are two statements each: `AddReads`, `AddCreates`, `DropReads`,
`processDropPlayerAction`; a request may die or fail in between. `holds` are the
pending DROP_PLAYER actions, which keep a dropped player from being signed.

### WaiverProcessing

| TLA+ | Code |
|---|---|
| `claims`, `dueCount` | the WAIVER_CLAIM actions in creation order, and how many are past their processingAt |
| `priority`, `faab`, `reserved` | the columns of WaiverPriority |
| `lease` | League.waiverRunStartedAt and its token |
| `run[r]` | a process in `processLeague`: the claims it has loaded, its own order in memory, the claim it is settling |
| `ensureLeaguePriorityRows`, `creating` | a submission's first reads: the members and the priority rows there are. The numbers it then means to give are kept in `creating` |
| `submitClaim`, `submitFails` | the rest of that transaction and its commit, which creates the rows nobody else has created meanwhile (`createMany` with `skipDuplicates`), or its end without one |
| `cancelPendingClaim` | the method and route of that name |
| `acquireProcessingLease`, `RunFinishes` | the lease is taken when free or fifteen minutes old, and released by token |
| `claimPending`, `debitFaabInTransaction`, `completeClaim`, `rejectClaim` | `settleClaim`: the claim's row is locked and the roster read; the debit, the roster rows, and the stored priorities are read; these are advanced and all commits |
| `RunFails`, `RunDies`, `LeaseIsOutlived` | a statement throws, the process ends, a run is slower than its lease |

What a settling transaction has written is locked for the others until it commits
(`LockedRows`); what it has only read is not, which is the point. `overran` tells
that two runs have shared the league. Both kinds of league are modelled, with bids
and by priority alone (`Budget = Null`); the run has the former.

Claims may be submitted before and during a draft, while people join and the order
of the members changes from one claim to the next. So a submission may find any of
the members without a row missing, its own among them, in any order. Between its
reads and its commit other submissions read and commit, and runs advance what
there is. `disagreed` tells that two submissions at once have found different
members missing. A submission that finds none missing uses nothing of what it has
read, and is one action.

### LeagueTrades

`thread[t]` is a trade thread with its current offer, version, votes and whether
its time is over. `Load` is what `executeActionInTransaction` and the sweep read
and decide, in the order of the code: if a member of the thread has left, it is
going to be invalidated, whatever the command and whatever the thread's status, a
completed or an invalidated one included; an open offer past its time expires; only
then must the action be allowed. `Commit` claims the thread by version and status and writes; a
completion is `Move`, which claims the thread and moves the rows that still are
the giver's, and `Complete`, which invalidates the threads found in conflict by
their ids and commits. `Refused` and `Abort` roll back. Moved rows and claimed
threads are locked until the commit. A repeated command of one idempotency key is
the replay of a stored answer; here each offer is created once.

### LeagueFormation

`JoinReads` and `JoinWrites` are `joinLeague`, whose row lock only other joins
wait for; `RemoveReads` and `RemoveWrites` are `removeLeagueMember`, for removals
and departures; `ConvergeReads` and `ConvergeWrites` the setup convergence after a
save of the settings; `CreateReads` and `CreateWrites` POST /api/drafts; and
`startDraft` what the draft commands do meanwhile. `assignDraftSlots` is the
function of that name. The history `raced` tells that a command has written after
another it did not see, with none having put the membership in order since.

## 3. Runs

| Run | Question | Bounds |
|---|---|---|
| `draft_races` | do racing picks leave a gapless board, even rosters and true replies, do queues lose drafted players and automatic picks follow the queue, and is all of it a DraftBoard? | 2 members, 2 rounds, 4 players, all of them queueable and retiring, 2 calls of any kind, 1 tick, 1 pause; the constraint below |
| `draft_clock` | do status, clock and event stream agree, is a turn ever stretched, does a stale job take a turn, while settings are saved? does the arithmetic follow the board? | 2 members, snake of 1 or linear of 2 rounds, 1 or 2 seconds, 3 players, 1 call, 8 half-second ticks, pauses up to version 5; boards of up to 6 teams and 5 rounds |
| `admin_repair` | is a malformed clock, and only that, repaired, is its deadline kept, and does it happen? | 2 repairers, 1 schedule call, 1 pick call, 3 kinds of old rows, 1 tick, 1 version |
| `draft_outbox` | order, no loss, repeats only after a fault, newest state shown | 3 flushes in 2 processes, 3 rows, 2 faults, drain batches of 1 |
| `clock_turns` | does every turn end although nobody comes back to the room, and does whoever gets a receipt find its job? | 2 coordinators, 1 worker, 1 pick, 1 pause, 3 faults |
| `draft_start` | does a scheduled draft start, and not before the time last stored? | 2 calls of the schedule route, 2 times, 1 save or pause, 3 faults |
| `waivers` | are bids charged once, are the priorities 1 to n, is the best claim first, is an award kept, is every due claim settled? | 2 members, 4 players, 4 claims, a budget of 2, rosters of 2, 2 runs, 1 signing, 1 fault; three starts, with both priorities, with one and with none, the latter two under the constraint below |
| `trades` | does only the standing offer move, does every veto count, do resolved threads stay and overdue ones get resolved? | 4 members, 4 players, 2 threads on one player (one with a counter and vetoes, one with the commissioner), 2 servers, 1 drop, 1 departure or abort, commands on a resolved thread up to version 3 |
| `formation` | is the order the league, does it stay after the start, is a seat given once? | 4 persons, 3 seats, 2 servers, any number of commands |
| `reschedule_race`, `clock_capped`, `waiver_signing` | promises the code does not keep, see section 6 | the smallest league that shows it |

### Why the bounds are enough

- Two members and two rounds of a snake have every kind of neighbouring picks:
  of different members, of the same member twice at the turn, and the last one.
- Two calls at once are what a unique key, a re-read or a lost serialization race
  needs; a third call would meet the same row versions. `RacesOrQueues` keeps two
  questions of `draft_races` apart: two calls race while nobody has a queue,
  nobody has retired and the clock stands still; with one of these there is one
  call at a time, which meets two such events between its read and its commit, over
  the first two turns. For two calls together with queues and clocks there are the
  proofs, which have no such bound.
- Half seconds make the rounding of a pause visible: a turn of one second has a
  middle. Five versions allow two pauses in one turn.
- Three rows are the least in which one flush holds the first and another could
  take a later one, with a third still to come; a transition appends one row or
  two, as the code does. Two faults let a retry fail as well.
- One pick, one pause and three faults let the jobs of an older revision, of a
  paused clock and of the current one be in the queue together, and let every one
  of the three attempts of a job fail.
- Two start times are an old and a new one, in either order; two calls are a PUT
  and a DELETE, or a PUT that overlaps another. Three faults take all the attempts
  of a lobby job. Two overlapping PUTs with a third time were checked once, too.
- In `waivers` both members want one player, one of them with a drop and with a
  second wish that the first one's success puts last, and the other bids for the
  dropped player more than is left: so order, debits, rosters and reservations
  each decide a claim. Two runs are what an outlived lease needs. The three starts
  are a season after its draft, one whose projection died after the first priority,
  and one before its draft. `FewFirstClaims` is the bound on the latter two: at most
  two claims, submitted or under way, and no fault. Two are what it takes to create
  rows from different reads (without `~disagreed` TLC finds the shared number within
  five states), and to be settled in the order of numbers so given. More claims, with faults and two
  runs, meet rows that are all there, in the first start. No action that is fair
  leaves the constraint, so that it hides no behaviour from the liveness property.
- In `trades` the two threads share a player, so that each can invalidate the
  other; a counter offer, the drop and the other thread each come between a load
  and its claim. A threshold of two makes the last vote different from the first.
  `MaxCommands` ends the commands on a thread that is resolved already, each of
  which would raise its version once more. Only the second thread has a member who
  leaves. It is resolved at version 2 at the latest (accepted, then approved), so that
  a completed, declined or rejected one is commanded again in every case, and one
  that has been invalidated so in most.
- In `formation` there is one person more than seats. Three seats are one fewer
  than the code lets a league have at least; the arithmetic does not look at the
  number, and three members have a first, a middle and a last to leave.
- `MaxVersion` limits pauses and reschedules only, `MaxTime` the clock, `MaxRows`
  appends, `MaxFaults` and `MaxIncidents` failures, `MaxCommands` saves and pauses
  (in DraftStart) and commands on resolved threads (in LeagueTrades), `MaxTimes`
  reschedules, `MaxCounters` counter offers: none of them stops a
  repair, a flush, a job, a run or a sweep. Each request, claim and thread is made
  once at most.

`CHECK_DEADLOCK FALSE` is set where the system may really stop: an outbox that is
published, a draft that is complete, started or without jobs, managers who ask
nothing more of the waivers or the trades, a LIVE draft without commands in flight.

### Fairness

- `RepairFairness`: the worker repeats its reconciliation every thirty seconds, so
  a malformed clock is observed again (WF); the process may die between its two
  transactions, but not every time (SF on the compare-and-swap).
- `OutboxFairness`: every socket server drains on a timer (WF on the claims of the
  drain loop), a flush that has begun goes on, a claim's time to live passes. A
  command's own flush need never come.
- `ClockFairness`: time passes, the reconciliation is periodic, and BullMQ hands
  out the jobs that are due. Members and commissioners are never assumed to act:
  neither `makePick` nor `resumeDraft` is fair.
- `StartFairness`: time passes and a worker runs the jobs that are due. No route
  and no command is fair; a PUT may stop between any two of its steps.
- `WaiverFairness`: the daily cron (`waiverSchedule.ts`) comes again, a run that
  has begun goes on, a lease gets old. Managers are not fair.
- `TradeFairness`: a transaction that has begun ends (WF), and the cron's sweep is
  run again and again (SF, since in the model it shares two servers with the
  commands of the managers, who could otherwise keep both busy for ever).

Faults are bounded in number, and so are all runs' failures; nothing else stands
between a fair action and its occurrence.

## 4. Proofs

Each theorem is about the specification its run checks, for all values of the
constants: any number of members, players, processes, jobs, claims and threads,
and no bound but those the specification itself names. Where TLC starts from one
roster, the theorems about trades and waivers are about every start: `TradeSpec`
takes the first roster, `WaiverSpec` the first roster and how many priorities a
projection that died has left.

| Module | Theorem | Shows |
|---|---|---|
| `DraftCommandsProofs` | `SlotInRange`, `SlotOncePerRound` | a slot is in the order, and comes up once a round, for any number of teams |
| | `BoardIsFollowed` | the arithmetic is the board written out, for any number of teams and rounds |
| | `TypeCorrect` | `TypeOK` |
| | `BoardCorrect` | `BoardHasNoGap` |
| | `QueuesCorrect` | `QueuesHoldNoPickedPlayer` |
| | `AutoPickCorrect` | `AutoPickHonoursTheQueue` |
| | `ExpiryCorrect` | `ExpiryTakesOnlyItsOwnTurn` |
| | `RepliesCorrect` | `RepliesAreTrue` |
| | `ServiceImplementsBoard` | `RefinesBoard` |
| | `RostersCorrect` | `RostersFillEvenly` |
| `DraftClockProofs` | `ClockCorrect` | `ClockAgreesWithStatus` |
| | `TurnCorrect` | `TurnIsNeverProlonged` |
| | `StreamCorrect` | `OutboxFollowsTheClock` |
| `DraftClockProofs`, of `AdminSpec` | `AdminTyped` | `TypeOK` |
| | `SlotsCorrect` | `SlotFollowsBoard` |
| | `BoardCorrectUnderAdmin` | `BoardHasNoGap`, with legacy rows at their first pick |
| | `QueuesCorrectUnderAdmin` | `QueuesHoldNoPickedPlayer` |
| | `AutoPickCorrectUnderAdmin` | `AutoPickHonoursTheQueue` |
| | `RepliesCorrectUnderAdmin` | `RepliesAreTrue`, if no save changes the draft type |
| | `RostersCorrectUnderAdmin` | `RostersFillEvenly`, if no save changes the board, with legacy rows at their first pick |
| | `ServiceImplementsBoardUnderSaves` | `RefinesBoard`, without legacy rows and schedule calls, if no save changes the board |
| | `RepairsAreOfBrokenClocks` | `OnlyABrokenClockIsRepaired` |
| | `RepairsKeepDeadlines` | `RepairKeepsADeadline` |
| | `ExpiryCorrectUnderAdmin` | `ExpiryTakesOnlyItsOwnTurn` |
| | `StreamCorrectUnderAdmin` | `OutboxFollowsTheClock`, without legacy rows |
| | `ClockCorrectUnderSaves` | `ClockAgreesWithStatus`, without legacy rows and schedule calls |
| | `TurnCorrectUnderSaves` | `TurnIsNeverProlonged`, likewise |
| `DraftOutboxProofs` | `OutboxInvariant`, `OutboxTyped` | `OutboxInv`, `OutboxTypeOK` |
| | `NothingIsMarkedUnsent` | `PublishedMeansDelivered` |
| | `NothingIsSentTwiceInPeace` | `TwiceOnlyIfDisturbed` |
| | `EventsGoOutInOrder` | `FirstDeliveryInOrder` |
| `DraftJobsProofs` | `JobsInvariant`, `ClockTyped` | `JobsInv`, `ClockTypeOK` |
| | `ReceiptsAreKept` | `ReceiptMeansJob` |
| | `FullBoardsAreComplete` | `FullBoardIsComplete`, if the pool is as large as the board |
| `DraftStartProofs` | `StartInvariant` | `StartInv` |
| | `StartsInTime` | `StartsAtTheStoredTime` |
| `WaiverProofs` | `WaiversInvariant`, `WaiversTyped` | `WaiverInv`, `WaiverTypeOK` |
| | `PrioritiesArePermuted` | `PrioritiesStayAPermutation` |
| | `BestClaimIsFirst` | `BestClaimFirst` |
| | `AwardsAreKept` | `AwardIsKept` |
| | `BidsAreCovered` | `EveryPendingBidIsCovered` |
| | `AwardsTakeOnlyTheSigned` | an award takes a player from nobody but a manager who has signed him meanwhile |
| | `AwardsTakeFromNobody` | `AwardTakesFromNobody`, without signings and overruns |
| `LeagueTradesProofs` | `TradesInvariant`, `TradesTyped` | `TradeInv`, `TradeTypeOK` |
| | `VetoesCount` | `EveryVetoCounts` |
| | `StandingOfferMoves` | `OnlyTheStandingOfferMoves` |
| | `ResolvedIsFinal` | `ResolvedStaysResolved` |
| `LeagueFormationProofs` | `FormationInvariant`, `FormationTyped` | `FormationInv`, `FormationTypeOK` |
| | `OrderCorrect` | `OrderIsTheLeague` |
| | `OrderStays` | `StartedOrderStays` |

Each inductive invariant has been an INVARIANT of its module's run under TLC, too.

The hypotheses under `AdminSpec` are not there for convenience. A legacy row may
have a clock that disagrees with its status until it is repaired, and a revision
whose events are gone; and the schedule route writes the status without keeping the
clock in step (section 6). `draft_clock` checks the same cases. The model does not
keep the earlier picks of a legacy row, so where the board is counted such a row is
at its first pick. The commands never look at the settings they read before: a
save that changes the draft type in mid-draft gives the turns to other members than
the picks before it were made by, and makes `RepliesAreTrue` and `RostersFillEvenly`
false (section 6); the abstract board has one order. Saves of the pick time and of
`allowAutoPick` are within every hypothesis.

The arguments about the draft:

- *Order.* From a division lemma, `PickDivision`: a pick number is a round and a
  place in it, uniquely. For `BoardIsFollowed` the slots of the first r rounds as a
  function of r satisfy the equation `BoardOrder` is defined by (`OneRoundMore`), and
  only one function does, by induction written with sets (`NatSetInduction`, where
  the library's induction theorems take an operator).
- *Types.* `TypeOK` is not inductive: a commit uses the snapshot and the choice its
  call carries. `TypeInv` adds `CallsHoldTheirSnapshot`, that a call which runs or
  reads again has both. One lemma per action, on lemmas about the clock helpers
  and the edits of a queue.
- *Board.* Given `TypeInv` the board is inductive: all actions but a commit leave
  `picks` and `currentPick` alone (`OnlyCommitsTouchTheBoard`), and a commit puts
  one row at `currentPick`, with a player the unique keys have found free, and
  moves on (`CommitExtendsTheBoard`). Serializable isolation is used where the
  snapshot's `currentPick` must be that of the row.
- *Queues.* A commit deletes the player from every queue; an edit that puts a
  player in has seen that nobody has drafted him, in the same transaction.
- *Calls.* The inductive invariant is `CallInv`: the version a call has read is
  never ahead of the row's; while it still is the row's, the choice of an automatic
  pick is the best of the queue it has read; and a call of an expiry job has read
  a clock that had run out. A commit happens at the version that was read, so what
  the call carries is true then. The best of a queue exists by well-founded
  induction on positions (`WFMin` of the library). Replies have an invariant of
  their own, `ReplyInv`: each answer is implied by the board as it stands, which
  only grows.
- *Rosters.* `PicksFollowTheOrder`: each pick is by the member the order names. If
  each member has one slot (`OneSlotEach`), his picks and the rounds played are in
  a bijection, since a slot comes up once a round; so after r rounds everybody has
  r picks, and a complete draft is at its last one.
- *Clock.* `ClockAgreesWithStatus` is inductive given the types. For the turn,
  lemmas about `CeilSeconds` show that storing the rest in whole seconds and adding
  it to the clock again keeps the whole seconds left. For the stream, an append
  puts its rows behind the last and only the last of them carries the revision.
  The first two rest on `CallsReadARunningTurn`: a call that is going to commit has
  read a LIVE row, and a call of an expiry job one whose time was over.
- *Administration.* `AdminInv` adds to these that what a repairer carries is sound
  (`SoundRepair`): the row it has observed was malformed, the anchors it derived
  make a clock, and a deadline that the turn could have had is among them. The
  compare-and-swap then writes them over that very row. The settings change only
  the lengths of turns to come, which no property of the clock depends on.
- *Beside the other writers.* `OthersWrite` says what saves, the schedule route and
  repairs leave alone (picks, queues, the calls, the pick the row is at) and that no
  version falls. So what a call carries with its version (`CallInv`) stays true, and
  the step lemmas of the commands serve again: none of them mentions the settings
  except through `SettingsStay(S)`, that the settings in force and those any call has
  read are in S. `RepliesAreTrue` needs S to have one order (`SameOrder`), rosters and
  the refinement one board (`SameBoard`).
- *Refinement.* `InitRefines` maps initial states to initial states, and
  `StepRefines` every action to a step of `DraftBoard` or a stutter: a commit to a
  pick, the lifecycle commands to changes of phase, all else to stutters.

The arguments about what runs beside it:

- *Outbox.* A flush works from the rows it has claimed in an earlier transaction.
  `Believes` says what still holds of them: a row whose lock nobody has broken is
  locked by the flush's process and not published, and what was emitted or marked
  is so in the histories. `OneHolder` lets two flushes share a row only if it was
  disturbed, `OutIsHeld` that a row which is out and not yet marked is in the hands
  of a flush or was disturbed. A claim takes a prefix of what is pending
  (`LowestIsAPrefix`), so what a flush emits first is next in order (`NextIsFirst`).
- *Jobs.* `Observed(v)` says a coordinator or a job may know the revision v: it is
  older than the row's, or the row's own, with a turn running. `PromisesHold` then
  says that without a fault a worker has the job of the row's revision only when
  the deadline is over, and that the job is in the queue if a coordinator is about
  to look at the row again for this revision, or a receipt for it has been given
  and the draft is LIVE. A late removal names an older revision; and a worker that
  has this one's job ends it by a pick, which makes a new revision.
- *Start.* `CleanSchedule` is what the history `clean` is worth: a PUT not yet done
  with the jobs is alone and finds none active; a start job that waits is for the
  stored time, unless that time is over or the PUT is about to remove it; and one
  that is active has been handed out after it. So a start job that starts the
  draft is never one of an earlier time.
- *Trades.* A transaction decides on what it has loaded. `Loaded` says that as long
  as its thread's version is the one loaded, the status, the offer and the votes it
  decided by are as it loaded them, so that a commit which passes the comparison
  has decided on the truth; and once it has moved players, the version is that one
  until the end. A resolved thread is loaded only to be invalidated, and only after a
  member of it has left; nobody comes back (section 8), so that is still so at the
  commit. `LocksExclude` says that two transactions which have moved players
  have different threads and no player in common. `VotesCounted` says that a thread
  without a veto review has no votes; with `EveryVetoCounts` the invariant is
  inductive.
- *Waivers.* `RunsApart`: two runs never settle one claim, nor write one member's
  rows. `Alone`: while `overran` is false at most one run is at work, the one that
  holds the lease. `RowsFit` says that no number is beyond the number of members who
  have one, or will have one when the rows a submission is about to create are there.
  As long as `disagreed` is false too (`Orderly`), these rows have all been created
  meanwhile, or none has and they go behind those there are, each with a number of its
  own (`NewRowsFit`); so a commit creates all of its rows or none, and no two members
  have one number (`OneEach`). Distinct numbers that reach no further than there are
  members are all of them, by counting. `InStep`: a run's order in memory orders the
  claimants as the stored priorities do; rows that are created while it runs are
  not its claimants', and go behind those it has read. `AdvanceTogether` shows that
  moving the winner to the end on either side, over the claimants alone or over all members, keeps that
  agreement; `FirstIsFirst` that the first of the finitely many claims is so by the
  stored priorities too.
- *Bids.* `BidInv` adds to these that whoever has a balance has a row.
  `BidsOf` is the running sum of the bids over the list of claims. That it is typed,
  is the same where the summands are, and changes by as much as one summand does
  (`SumChanges`) is again induction written with sets (`SetInduction`). A submission
  adds one summand and reserves it; a claim that ends without an award releases
  exactly its own (`ReleaseIsExact`: the floor at zero is never reached, since the bid
  is part of the sum reserved); an award moves it from the pending sum to the sum
  won, which the balance pays (`BidIsCharged`). `RunsApart` keeps two runs from
  doing so for one claim.
- *Signings.* `FreeOrSigned`: the player of a claim whose plan is READY is free still,
  or his row is the one a signing has made, as long as no run has outlived its lease.
  A drop leaves no row, and no other run makes an award, since the run is alone.
- *Formation.* `FreshIsCurrent`: what a transaction has read is still so as long as
  no other has written since (`fresh`). `Transactions` includes that one join runs
  at a time and has a seat left, which is what the row lock is for and why the
  league never overflows: a removal only makes room. `SlotsFit`: before there is a
  draft the explicit slots are within the number of members, because a join takes the
  next slot and a removal renumbers those who stay. Then `assignDraftSlots` is a
  bijection from the list to 1..n (`AssignedSlots`, `AssignedSlotsFit`): the kept
  slots are distinct and within 1..n, the free ones have ranks 1, 2, ...
  (`RankFacts`, by finite injections being surjections), and the members without a
  slot take those of their own ranks.

Assumptions: the ASSUMEs of the modules, which TLC evaluates in the runs. In the
draft, there is at least one team and the persisted order maps every slot to a
member; the pool is finite, the queueable and retiring players are in it; settings
have positive sizes, a second has at least one tick; NULL is neither a number nor a
player nor a reply; old rows are LIVE rows of the schema's types
(`LegacyAssumption`). `RostersCorrect` has the hypothesis that the order gives each
member one slot: `OrderCorrect` says when a league's formation sees to that. In the
outbox, the jobs and the start, limits are numbers and the capped total of picks
exceeds neither the settings' nor the pool (`PickAssumption`). In the league, its
creator is a person and it has at least one seat (`FormationAssumption`); a thread
is between two different members and each of its offers between these two
(`TradeAssumption`); what may be bid for is finite and well typed
(`WaiverAssumption`).

Only model-checked: liveness, which is out of the prover's reach
(`BrokenClockIsRepaired`, `EveryTurnEnds`, `ScheduledDraftStarts`, `NoEventIsLost`,
`EveryRevisionIsShown`, `EveryDueClaimIsSettled`, `EveryDueTradeIsResolved`). Every
invariant and every action property of a passing run, and its refinement, is a
theorem. What the violation runs refute is of course not, but for two of the three
the proofs say what is in the way, and that nothing else is:
`AwardTakesFromNobody` fails by the signing of a free agent or an outlived lease, and
`FullBoardIsComplete` by a pool smaller than the board.

## 5. Properties worth a second look

- `TurnIsNeverProlonged` holds although a pause rounds up: the rest is stored in
  whole seconds, and the resumed deadline is that many seconds away, so the whole
  seconds left never grow. The fraction may.
- `RepliesAreTrue`: after a unique-key failure the second transaction may find the
  slot filled by the caller's own choice, by another, or empty.
- `TwiceOnlyIfDisturbed` covers two flushes of one process, which the lock column
  cannot tell apart: it is the pending list that must hide claimed drafts.
- `ReceiptMeansJob`: a late `ensureReady` for an older revision must not remove
  the newer revision's job.
- `BrokenClockIsRepaired` says nothing of a draft with no pick left to make: see
  the second finding below.
- `BestClaimFirst` compares a run's order, which it advances in memory over the
  claimants alone, with the stored one, advanced over all members. They agree
  because the order of two claimants never depends on a third member.
- `AwardIsKept` needs `~overran`: two runs in one league can both find a player free.
- `PrioritiesStayAPermutation` and `BestClaimFirst` need `~overran` too, since two runs
  can advance from the same numbers and give two members one priority, which no
  later award repairs. And they need `~disagreed`: two first claims at once can leave
  two members with one number. The domain document says so and that it is accepted
  (section 6). The theorem says how narrow that case is: the two must have found
  *different* members without a row, because somebody has joined or left between
  their reads. Two claims that find the same members missing, in whatever
  orders, leave no number shared: each creates all of its rows or, after the other,
  none.
- `ResolvedStaysResolved` allows a resolved or completed thread to become
  INVALIDATED in two ways, and in no other. A command of any active member on it
  does so once a member of the thread has left, because that is checked before the
  status is (`tradeService.ts:306-323`). And the end of a completing transaction
  invalidates the conflicting threads it has found by their ids, whatever they have
  become since. The offer, the proposer and the votes stay in either case.
- `OrderIsTheLeague` needs `~raced`. Two commands that overlap can leave the order
  one member short, with a gap, or with somebody who has left, and a save of the
  settings heals it only if its length is wrong. A turn whose slot nobody holds
  throws (`draftRules.ts:20`). The same race may rewrite an order after the start,
  which is the case `StartedOrderStays` excepts.
- `ScheduledDraftStarts` and `StartsAtTheStoredTime` need `clean`: see below.

## 6. Where code and documents disagree

- `reschedule_race`. The schedule route refuses any draft but a pending or a LIVE
  one ("Can only reschedule pending or live drafts"), on a status it has read
  outside the transaction that writes SCHEDULED. A PUT that overlaps a pause or
  the last pick turns a PAUSED or COMPLETED draft into a scheduled one. DELETE has
  the same shape: one that overlaps a whole draft makes a COMPLETED draft LIVE,
  with a full board and no clock, and no repair ever applies to it.
- `clock_capped`. Draft.totalPicks is capped by the player pool, while a draft
  completes after teams times roster spots picks. If the pool is smaller the draft
  stays LIVE after its last pick, without a schedule, and its last event cannot be
  published.
- `waiver_signing`. A settling claim checks that nobody owns the player and later
  upserts his row (`WaiverProcessingService.ts:442`). Whoever signs him in between
  has had a confirmation and loses him: the update branch overwrites the row. The
  domain document (`docs/domain/draft-and-waivers.md:142-143`) has availability
  validated and failures assign no player to more than one team.

Met while reading, and not runs of their own:

- The domain document (`docs/domain/draft-and-waivers.md:26`) says a pick command
  validates roster capacity. `autoPick` does not. With the draft's order fixed it
  need not; but the settings route can change the draft type in mid-draft, after
  which the turn can come to a member whose roster is full. A save in mid-draft may
  also make a reply untrue: of two calls that read the settings before and after it,
  each may find its own member on the clock for one pick; if both want the same
  player, the one that loses is told that its pick is there already.
- PUT and DELETE of the schedule route write the status with neither an event
  sequence nor an outbox row, though the document asks for both in every shared
  mutation of a draft.
- The document (`docs/domain/draft-and-waivers.md:27`) has the rosters written in
  the last pick's transaction. The projection runs after it, statement by
  statement and without a retry; a repeat of the last pick projects again, and
  would take back what a waiver or a trade has changed meanwhile.
- A PUT for a time less than five minutes away stores it, removes both jobs and
  then throws, and the draft has no job. POST /api/drafts swallows the same error.
  Nothing looks for SCHEDULED drafts whose time is over.
- A start job added by the lobby job has one attempt, others have three.
- The settings route changes or clears startAt and leaves the jobs alone, though a
  test is named "removes both queued start phases when a draft schedule is
  cleared" (`src/tests/unit/draftQueue.test.ts:17`): nobody calls
  `cancelDraftStart`.
- BullMQ neither removes an active job nor adds an id that exists, so a reschedule
  that overlaps a running lobby or start job keeps the old time, or none.
- A trade limit and a roster's capacity are checked by what a transaction has read:
  two trades that complete together may exceed either. Signing a free agent looks
  at no roster size at all.
- The document accepts that "two members can end up sharing a priority number" after
  two first claims (`docs/domain/draft-and-waivers.md:165-167`), and the comment in
  the code (`WaiverProcessingService.ts:1117`) has the second writer keep the first
  one's rows. Both are true, but it takes more than two first claims: see section 5.
  What neither says is that the numbers stay shared for the rest of the season,
  because advancing keeps equal numbers equal; the claims' own priorities and their age
  decide then.
- A trade that has been COMPLETED, and whose players have changed hands, is
  relabelled INVALIDATED by any active member's next command on it (a veto, say,
  that would be refused otherwise) once one of its members has left
  (`tradeService.ts:311`). The players stay where they are, but `validateTradeLimits`
  no longer counts the trade. The same is true of declined, withdrawn and vetoed
  threads, of invalidated ones, whose version is raised each time, and of a season
  that has been closed (`SEASON_CLOSED`).
- A claim whose settlement always throws ends the run, so that the claims behind
  it wait for ever.

## 7. Plan

Done: DraftOrder, DraftBoard, DraftCommands, DraftAdmin, DraftOutbox, DraftClock,
DraftStart, LeagueRosters, WaiverProcessing, LeagueTrades, LeagueFormation, their
runs, and the fifty-six theorems of section 4.

Left, in this order:

1. RosterProjection: the projection after the last commit, statement by statement,
   under the waivers and trades that change the same rows.
2. DraftRealtimeV2 on DraftOutbox: snapshot, replay window and live suffix of a
   session. Promise: a client sees each sequence once and in order.
3. Fixtures, finals, autosubs: algorithms against reference definitions.

## 8. Not modelled, and why

- Authorization, rate limits, validation of input, logging, metrics and wording:
  no property here is about them.
- The watchlist, caches, read models and pages: nothing reads them back.
- Scoring and projections of statistics: decimal arithmetic without concurrency.
- The roster projection and realtime replay: planned (section 7). The waivers start
  from rosters the projection has written, with all the priorities or, if it died,
  a first part of them. A projection that comes after claims have been submitted
  before or during the draft (`RosterProjectionService.ts:72-96` writes the number of each
  member over the row there is) is left out: it gives all members the numbers 1 to n
  again, but if it dies half way it may leave some shared.
- Several drafts in one outbox batch or one reconciliation, where one failing
  draft stops the others (`PROJECT.json`, hazards): DraftOutbox and DraftClock are
  each about one draft. The lease that keeps two workers from reconciling at once
  is left out, so the model has more interleavings than the system.
- Reminders, the resolution of local start times and clocks of hosts that disagree
  about whether a start time is over.
- Of trades: the outbox of trade events and stored answers, and lineup rows of traded
  players. The end of a season (`SEASON_CLOSED`) takes the path of a member who leaves,
  for all threads at once, and nothing in the server ends one. Members
  who have left do not come back in LeagueTrades, though a league that is
  still forming lets them: one who rejoins between a command's load and its commit has
  his resolved thread invalidated as a member. That the actor is
  active is read before the transaction, and here in it. Of waivers: the Firestore copies, the
  availability projection, the feed. Of leagues: names, roles, transfer of
  ownership, a maximum size that changes while members join.
- AFL trade intelligence and the data imports, which make up most of the lines of
  the repository: other products on the same database, which share no rows with a
  league but Player.active.
