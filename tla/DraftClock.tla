------------------------------- MODULE DraftClock -------------------------------
(***************************************************************************)
(* How the turns of a LIVE draft end on time: the persisted clock, the     *)
(* expiry jobs in BullMQ, the coordinator that puts a job there for every  *)
(* clock revision, and the worker that runs the jobs.                      *)
(*                                                                         *)
(* The commands are those of DraftCommands, seen only as revisions of the  *)
(* clock; the deadline is seen only as passed or not.  The queue may lose  *)
(* jobs, workers and coordinators die, clocks of two hosts differ and jobs *)
(* fail, a bounded number of times.                                        *)
(***************************************************************************)
EXTENDS Integers, FiniteSets

CONSTANTS
  Coordinator,    \* callers of ensureReady: flushes, the worker's reconciliation
  Worker,         \* jobs the workers may run at once
  TotalPicks,     \* Draft.totalPicks: the picks asked for, at most the players there are
  ExpectedPicks,  \* getExpectedTotalPicks: teams times roster spots
  PlayerCount,    \* active players
  Null,
  MaxPauses,      \* bound: pauses
  MaxFaults       \* bound: losses, deaths, early wake-ups and failed jobs

ASSUME PickAssumption ==
  /\ TotalPicks \in Nat \ {0} /\ ExpectedPicks \in Nat /\ PlayerCount \in Nat
  /\ TotalPicks <= ExpectedPicks /\ TotalPicks <= PlayerCount
ASSUME BoundAssumption == MaxPauses \in Nat /\ MaxFaults \in Nat /\ Null \notin Int

VARIABLES
  draft,       \* status, currentPick, schedulingVersion and whether the deadline is over
  jobs,        \* jobs[v]: the expiry job of revision v
  attempts,    \* attempts[v]: failed attempts of that job
  coord,       \* the calls of ensureReady
  worker,      \* the jobs being processed
  receipts,    \* history: revisions a receipt was returned for
  pauses, faults

clockVars == <<draft, jobs, attempts, coord, worker, receipts, pauses, faults>>

Version == 1..(1 + ExpectedPicks + 2 * MaxPauses)

Fault == faults < MaxFaults /\ faults' = faults + 1

-------------------------------------------------------------------------------
(* Commands *)

NewRevision(status, pick) ==
  draft' = [status |-> status, pick |-> pick, version |-> draft.version + 1, expired |-> FALSE]

startDraft ==
  /\ draft.status = "SCHEDULED"
  /\ NewRevision("LIVE", draft.pick)
  /\ UNCHANGED <<jobs, attempts, coord, worker, receipts, pauses, faults>>

pauseDraft ==
  /\ draft.status = "LIVE"
  /\ pauses < MaxPauses
  /\ NewRevision("PAUSED", draft.pick)
  /\ pauses' = pauses + 1
  /\ UNCHANGED <<jobs, attempts, coord, worker, receipts, faults>>

resumeDraft ==
  /\ draft.status = "PAUSED"
  /\ NewRevision("LIVE", draft.pick)
  /\ UNCHANGED <<jobs, attempts, coord, worker, receipts, pauses, faults>>

\* A pick: refused once the board is full or nobody is left to pick.
PickIsPossible == draft.status = "LIVE" /\ draft.pick <= ExpectedPicks /\ draft.pick <= PlayerCount

NextTurn == NewRevision(IF draft.pick + 1 > ExpectedPicks THEN "COMPLETED" ELSE "LIVE", draft.pick + 1)

makePick ==
  /\ PickIsPossible
  /\ NextTurn
  /\ UNCHANGED <<jobs, attempts, coord, worker, receipts, pauses, faults>>

DeadlinePasses ==
  /\ draft.status = "LIVE"
  /\ ~draft.expired
  /\ draft' = [draft EXCEPT !.expired = TRUE]
  /\ UNCHANGED <<jobs, attempts, coord, worker, receipts, pauses, faults>>

-------------------------------------------------------------------------------
(* DraftClockCoordinator.ensureReady *)

MAX_COORDINATION_ATTEMPTS == 3

NoCall == [phase |-> "idle", token |-> Null, attempt |-> 0]

\* getLiveDraftPickExpirySchedule finds nothing beyond Draft.totalPicks.
Schedulable == draft.status = "LIVE" /\ draft.pick <= TotalPicks

ObserveClock(c) ==
  /\ coord[c].phase = "idle"
  /\ Schedulable
  /\ coord' = [coord EXCEPT ![c] = [phase |-> "add", token |-> draft.version, attempt |-> @.attempt + 1]]
  /\ UNCHANGED <<draft, jobs, attempts, worker, receipts, pauses, faults>>

\* Slip: the job of a revision takes the place of the draft's other jobs.
scheduleDraftPickExpiry_replacing(v) ==
  /\ jobs' = [u \in Version |-> IF u = v THEN "waiting" ELSE "none"]
  /\ attempts' = [attempts EXCEPT ![v] = 0]

\* The job's id names its revision: adding it again changes nothing while it is there.
scheduleDraftPickExpiry(v) ==
  IF jobs[v] = "none"
    THEN jobs' = [jobs EXCEPT ![v] = "waiting"] /\ attempts' = [attempts EXCEPT ![v] = 0]
    ELSE UNCHANGED <<jobs, attempts>>

AddJob(c) ==
  /\ coord[c].phase = "add"
  /\ scheduleDraftPickExpiry(coord[c].token)
  /\ coord' = [coord EXCEPT ![c].phase = "recheck"]
  /\ UNCHANGED <<draft, worker, receipts, pauses, faults>>

\* The row is read again.  A receipt is returned if it is still the same clock; else
\* the call starts over, three times at most.
Recheck(c) ==
  /\ coord[c].phase = "recheck"
  /\ LET same == Schedulable /\ draft.version = coord[c].token
         again == Schedulable /\ ~same /\ coord[c].attempt < MAX_COORDINATION_ATTEMPTS
     IN /\ receipts' = IF same THEN receipts \cup {coord[c].token} ELSE receipts
        /\ coord' = [coord EXCEPT ![c] = IF again THEN [NoCall EXCEPT !.attempt = coord[c].attempt]
                                         ELSE NoCall]
  /\ UNCHANGED <<draft, jobs, attempts, worker, pauses, faults>>

CoordinatorDies(c) ==
  /\ coord[c].phase # "idle"
  /\ Fault
  /\ coord' = [coord EXCEPT ![c] = NoCall]
  /\ UNCHANGED <<draft, jobs, attempts, worker, receipts, pauses>>

-------------------------------------------------------------------------------
(* BullMQ and the worker *)

IdleWorker == [job |-> Null, phase |-> "idle"]

\* The job of the running turn is due at its deadline; the deadline of an older
\* revision may be over at any time.
WakeJob(w, v) ==
  /\ worker[w] = IdleWorker
  /\ jobs[v] = "waiting"
  /\ IF v < draft.version \/ draft.expired \/ draft.status # "LIVE" THEN UNCHANGED faults ELSE Fault
  /\ jobs' = [jobs EXCEPT ![v] = "active"]
  /\ worker' = [worker EXCEPT ![w] = [job |-> v, phase |-> "check"]]
  /\ UNCHANGED <<draft, attempts, coord, receipts, pauses>>

\* Slip: a completed job stays in the queue, and with it its id.
CompleteJob_kept(w) ==
  /\ jobs' = [jobs EXCEPT ![worker[w].job] = "kept"]
  /\ worker' = [worker EXCEPT ![w] = IdleWorker]

\* removeOnComplete.
CompleteJob(w) ==
  /\ jobs' = [jobs EXCEPT ![worker[w].job] = "none"]
  /\ worker' = [worker EXCEPT ![w] = IdleWorker]

\* The worker's own look at the row: a job that is stale or early is done.
CheckJob(w) ==
  /\ worker[w].phase = "check"
  /\ IF draft.status = "LIVE" /\ draft.version = worker[w].job /\ draft.expired
       THEN worker' = [worker EXCEPT ![w].phase = "pick"] /\ UNCHANGED jobs
       ELSE CompleteJob(w)
  /\ UNCHANGED <<draft, attempts, coord, receipts, pauses, faults>>

\* autoPick with the job's revision and requireExpired, in one transaction.  A clock
\* that has changed meanwhile is no failure.
AutoPick(w) ==
  /\ worker[w].phase = "pick"
  /\ IF draft.status = "LIVE" /\ draft.version = worker[w].job /\ draft.expired
       THEN /\ PickIsPossible
            /\ NextTurn
            /\ worker' = [worker EXCEPT ![w].phase = "publish"]
            /\ UNCHANGED jobs
       ELSE draft.status = "LIVE" /\ CompleteJob(w) /\ UNCHANGED draft
  /\ UNCHANGED <<attempts, coord, receipts, pauses, faults>>

PublishResult(w) ==
  /\ worker[w].phase = "publish"
  /\ CompleteJob(w)
  /\ UNCHANGED <<draft, attempts, coord, receipts, pauses, faults>>

JobAttempts == 3

\* A failed job waits for its next attempt; after the last it is removed.
FailedJob(v) ==
  IF attempts[v] + 1 < JobAttempts
    THEN jobs' = [jobs EXCEPT ![v] = "waiting"] /\ attempts' = [attempts EXCEPT ![v] = @ + 1]
    ELSE jobs' = [jobs EXCEPT ![v] = "none"] /\ UNCHANGED attempts

\* A draft that is no longer LIVE or has nobody left to pick makes autoPick throw.
RefusedPick(w) ==
  /\ worker[w].phase = "pick"
  /\ draft.status # "LIVE" \/ (draft.version = worker[w].job /\ ~PickIsPossible)
  /\ FailedJob(worker[w].job)
  /\ worker' = [worker EXCEPT ![w] = IdleWorker]
  /\ UNCHANGED <<draft, coord, receipts, pauses, faults>>

\* A database or Redis error, before or after the pick has committed.
JobFails(w) ==
  /\ worker[w] # IdleWorker
  /\ Fault
  /\ FailedJob(worker[w].job)
  /\ worker' = [worker EXCEPT ![w] = IdleWorker]
  /\ UNCHANGED <<draft, coord, receipts, pauses>>

\* A job whose worker died stalls and is handed out again.
WorkerDies(w) ==
  /\ worker[w] # IdleWorker
  /\ Fault
  /\ jobs' = [jobs EXCEPT ![worker[w].job] = "waiting"]
  /\ worker' = [worker EXCEPT ![w] = IdleWorker]
  /\ UNCHANGED <<draft, attempts, coord, receipts, pauses>>

LoseJob(v) ==
  /\ jobs[v] = "waiting"
  /\ Fault
  /\ jobs' = [jobs EXCEPT ![v] = "none"]
  /\ UNCHANGED <<draft, attempts, coord, worker, receipts, pauses>>

-------------------------------------------------------------------------------
ClockInit ==
  /\ draft = [status |-> "SCHEDULED", pick |-> 1, version |-> 0, expired |-> FALSE]
  /\ jobs = [v \in Version |-> "none"]
  /\ attempts = [v \in Version |-> 0]
  /\ coord = [c \in Coordinator |-> NoCall]
  /\ worker = [w \in Worker |-> IdleWorker]
  /\ receipts = {}
  /\ pauses = 0
  /\ faults = 0

CoordinatorStep(c) == ObserveClock(c) \/ AddJob(c) \/ Recheck(c)

WorkerStep(w) ==
  \/ \E v \in Version : WakeJob(w, v)
  \/ CheckJob(w) \/ AutoPick(w) \/ RefusedPick(w) \/ PublishResult(w)

ClockNext ==
  \/ startDraft \/ pauseDraft \/ resumeDraft \/ makePick \/ DeadlinePasses
  \/ \E c \in Coordinator : CoordinatorStep(c) \/ CoordinatorDies(c)
  \/ \E w \in Worker : WorkerStep(w) \/ JobFails(w) \/ WorkerDies(w)
  \/ \E v \in Version : LoseJob(v)

\* Time passes; the worker reconciles the LIVE drafts when it starts and then every
\* thirty seconds; and a queue with a worker runs the jobs that are due.  The members
\* and the commissioner need not do anything.
ClockFairness ==
  /\ WF_clockVars(DeadlinePasses)
  /\ \A c \in Coordinator : WF_clockVars(CoordinatorStep(c))
  /\ \A w \in Worker : WF_clockVars(WorkerStep(w))

ClockSpec == ClockInit /\ [][ClockNext]_clockVars /\ ClockFairness

-------------------------------------------------------------------------------
(* Properties *)

\* Rows, jobs and processes have their shape; a job is active exactly while a worker has it.
ClockTypeOK ==
  /\ draft.status \in {"SCHEDULED", "LIVE", "PAUSED", "COMPLETED"}
  /\ draft.version \in {0} \cup Version
  /\ jobs \in [Version -> {"none", "waiting", "active"}]
  /\ attempts \in [Version -> 0..(JobAttempts - 1)]
  /\ \A v \in Version : jobs[v] = "active" <=> \E w \in Worker : worker[w].job = v

\* Nobody has to come back to the room: every turn of a LIVE draft that still has picks
\* to make ends, by a pick, a pause or its expiry job, however often jobs are lost,
\* wake early, fail or are added late.
EveryTurnEnds ==
  \A v \in Version :
    (draft.status = "LIVE" /\ draft.version = v /\ draft.pick <= TotalPicks) ~> (draft.version > v)

\* A receipt is a promise: while the clock it names is the draft's, its job is in the
\* queue, unless a fault took it.  No late call of ensureReady for an older revision
\* takes a newer job away.
ReceiptMeansJob ==
  (faults = 0 /\ draft.status = "LIVE" /\ draft.version \in receipts) => jobs[draft.version] # "none"

\* Promised, and not so: a draft has Draft.totalPicks picks, and is complete after them.
FullBoardIsComplete == draft.pick > TotalPicks => draft.status = "COMPLETED"
===============================================================================
