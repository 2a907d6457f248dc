----------------------------- MODULE DraftJobsProofs -----------------------------
(***************************************************************************)
(* What the expiry jobs of a draft keep to for every number of picks,      *)
(* coordinators, workers, pauses and faults.                               *)
(***************************************************************************)
EXTENDS DraftClock, TLAPS

USE PickAssumption, BoundAssumption

DraftRow == [status : {"SCHEDULED", "LIVE", "PAUSED", "COMPLETED"}, pick : 1..(ExpectedPicks + 1),
             version : {0} \cup Version, expired : BOOLEAN]

CoordRecord == [phase : {"idle", "add", "recheck"}, token : Version \cup {Null}, attempt : Nat]

WorkerRecord == [job : Version \cup {Null}, phase : {"idle", "check", "pick", "publish"}]

Shape ==
  /\ draft \in DraftRow
  /\ jobs \in [Version -> {"none", "waiting", "active"}]
  /\ attempts \in [Version -> 0..(JobAttempts - 1)]
  /\ coord \in [Coordinator -> CoordRecord]
  /\ worker \in [Worker -> WorkerRecord]
  /\ pauses \in 0..MaxPauses /\ faults \in Nat

\* A revision of the clock is a start, a pick, a pause or a resumption.
RevisionsCount ==
  /\ draft.status = "SCHEDULED" => draft.version = 0 /\ draft.pick = 1 /\ pauses = 0
  /\ draft.status \in {"LIVE", "COMPLETED"} => draft.version = draft.pick + 2 * pauses
  /\ draft.status = "PAUSED" => draft.version = draft.pick + 2 * pauses - 1
  /\ draft.status \in {"LIVE", "PAUSED"} => draft.pick <= ExpectedPicks

\* A job is active exactly while a worker has it, and one worker alone.
JobsHaveWorkers ==
  /\ \A w \in Worker : /\ worker[w].job = Null <=> worker[w].phase = "idle"
                       /\ worker[w].job # Null => jobs[worker[w].job] = "active"
                       /\ \A x \in Worker : worker[w].job = worker[x].job /\ worker[w].job # Null => w = x
  /\ \A v \in Version : jobs[v] = "active" => \E w \in Worker : worker[w].job = v

\* A revision somebody made or makes a job for was that of a turn with a pick to make:
\* it is the draft's still, or the clock has moved on.
Observed(v) == v < draft.version \/ (v = draft.version /\ Schedulable)

OnlyTurnsHaveJobs ==
  /\ \A v \in Version : jobs[v] # "none" => Observed(v)
  /\ \A c \in Coordinator : coord[c].phase # "idle" => coord[c].token \in Version /\ Observed(coord[c].token)
  /\ \A w \in Worker : worker[w].phase = "publish" => worker[w].job < draft.version
  /\ \A v \in receipts : v \in Version /\ Observed(v)

\* While nothing has failed, the job of the running turn wakes no earlier than its
\* deadline, and stays in the queue for whoever counts on it.
PromisesHold ==
  faults = 0 =>
    /\ \A w \in Worker : worker[w].job # Null /\ worker[w].job = draft.version => draft.expired
    /\ \A c \in Coordinator :
         coord[c].phase = "recheck" /\ coord[c].token = draft.version => jobs[draft.version] # "none"
    /\ draft.status = "LIVE" /\ draft.version \in receipts => jobs[draft.version] # "none"

JobsInv == Shape /\ RevisionsCount /\ JobsHaveWorkers /\ OnlyTurnsHaveJobs /\ PromisesHold
-------------------------------------------------------------------------------
(* Steps that make a revision *)

LEMMA VersionsAreNumbers ==
  /\ \A v \in Version : v \in Nat /\ v > 0
  /\ Version \subseteq Nat \ {0} /\ Null \notin Version
BY DEF Version

LEMMA VersionIsNumber == Shape => draft.version \in Nat
PROOF
  <1> SUFFICES ASSUME Shape PROVE draft.version \in Nat
    OBVIOUS
  <1>1. draft.version = 0 \/ draft.version \in Version
    BY DEF Shape, DraftRow
  <1>2. CASE draft.version \in Version
    BY <1>2, VersionsAreNumbers
  <1> QED BY <1>1, <1>2

\* What a worker publishes is of an older revision, and stays so.
LEMMA PublishedIsOlder ==
  ASSUME JobsInv, NEW w \in Worker, worker[w].phase = "publish"
  PROVE  /\ worker[w].job \in Version /\ worker[w].job < draft.version
         /\ worker[w].job < draft.version + 1
PROOF
  <1>1. worker[w].job \in Version \cup {Null} /\ draft.version \in Nat
    BY VersionIsNumber DEF JobsInv, Shape, WorkerRecord
  <1>2. worker[w].job # Null /\ worker[w].job < draft.version
    BY DEF JobsInv, JobsHaveWorkers, OnlyTurnsHaveJobs
  <1>3. worker[w].job \in Nat
    BY <1>1, <1>2, VersionsAreNumbers
  <1> QED BY <1>1, <1>2, <1>3

\* A new revision: whatever there was a job for is older now.
LEMMA RevisionKeeps ==
  ASSUME JobsInv, draft' \in DraftRow, draft'.version = draft.version + 1, RevisionsCount',
         pauses' \in 0..MaxPauses, UNCHANGED <<jobs, attempts, coord, receipts, faults>>,
         worker' \in [Worker -> WorkerRecord],
         \A w \in Worker : /\ worker'[w].job = worker[w].job
                           /\ worker'[w].phase = "idle" <=> worker[w].phase = "idle"
                           /\ worker'[w].phase = "publish" => worker'[w].job < draft'.version
  PROVE  JobsInv'
PROOF
  <1>1. Shape'
    BY DEF JobsInv, Shape
  <1>2. draft.version \in Nat
    BY VersionIsNumber DEF JobsInv
  <1>3. ASSUME NEW v \in Version, Observed(v)
        PROVE  v < draft'.version /\ v # draft'.version /\ Observed(v)'
    BY <1>2, <1>3, VersionsAreNumbers DEF Observed
  <1>4. JobsHaveWorkers'
    BY DEF JobsInv, JobsHaveWorkers
  <1>5. OnlyTurnsHaveJobs'
    BY <1>3 DEF JobsInv, OnlyTurnsHaveJobs
  <1>6. ASSUME NEW w \in Worker, worker'[w].job # Null
        PROVE  worker'[w].job # draft'.version
    <2>1. worker[w].job \in Version /\ jobs[worker[w].job] = "active"
      BY <1>6 DEF JobsInv, Shape, WorkerRecord, JobsHaveWorkers
    <2> QED BY <1>3, <2>1 DEF JobsInv, OnlyTurnsHaveJobs
  <1>7. ASSUME NEW c \in Coordinator, coord'[c].phase = "recheck"
        PROVE  coord'[c].token # draft'.version
    BY <1>3, <1>7 DEF JobsInv, OnlyTurnsHaveJobs
  <1>8. draft'.version \notin receipts'
    BY <1>3 DEF JobsInv, OnlyTurnsHaveJobs
  <1>9. PromisesHold'
    BY <1>6, <1>7, <1>8 DEF PromisesHold
  <1> QED BY <1>1, <1>4, <1>5, <1>9 DEF JobsInv

\* How far the revisions can go.
LEMMA RevisionsFit ==
  ASSUME NEW pick \in 1..(ExpectedPicks + 1), NEW p \in 0..MaxPauses
  PROVE  /\ pick + 2 * p \in Version
         /\ pick + 2 * p - 1 \in {0} \cup Version
BY DEF Version

LEMMA StartKeeps ==
  ASSUME JobsInv, startDraft
  PROVE  JobsInv'
PROOF
  <1>1. /\ draft.status = "SCHEDULED" /\ draft \in DraftRow /\ pauses \in 0..MaxPauses
        /\ draft.version = 0 /\ draft.pick = 1 /\ pauses = 0
    BY DEF JobsInv, Shape, RevisionsCount, startDraft
  <1>2. /\ draft' = [status |-> "LIVE", pick |-> 1, version |-> 1, expired |-> FALSE]
        /\ UNCHANGED <<jobs, attempts, coord, worker, receipts, pauses, faults>>
    BY <1>1 DEF startDraft, NewRevision
  <1>3. draft' \in DraftRow
    BY <1>1, <1>2, RevisionsFit DEF DraftRow, Version
  <1>4. RevisionsCount'
    BY <1>1, <1>2 DEF RevisionsCount
  <1> QED BY <1>1, <1>2, <1>3, <1>4, PublishedIsOlder, RevisionKeeps DEF JobsInv, Shape

LEMMA PauseKeeps ==
  ASSUME JobsInv, pauseDraft
  PROVE  JobsInv'
PROOF
  <1>1. /\ draft.status = "LIVE" /\ draft \in DraftRow /\ pauses \in 0..MaxPauses /\ pauses < MaxPauses
        /\ draft.version = draft.pick + 2 * pauses /\ draft.pick \in 1..ExpectedPicks
    BY DEF JobsInv, Shape, RevisionsCount, pauseDraft, DraftRow
  <1>2. /\ draft' = [status |-> "PAUSED", pick |-> draft.pick, version |-> draft.version + 1, expired |-> FALSE]
        /\ UNCHANGED <<jobs, attempts, coord, worker, receipts, faults>> /\ pauses' = pauses + 1
    BY DEF pauseDraft, NewRevision
  <1>3. /\ pauses' \in 0..MaxPauses /\ draft'.version = draft'.pick + 2 * pauses' - 1
        /\ draft'.pick = draft.pick /\ draft'.status = "PAUSED"
    BY <1>1, <1>2
  <1>4. draft' \in DraftRow
    BY <1>1, <1>2, <1>3, RevisionsFit DEF DraftRow
  <1>5. RevisionsCount'
    BY <1>1, <1>2, <1>3 DEF RevisionsCount
  <1> QED BY <1>1, <1>2, <1>3, <1>4, <1>5, PublishedIsOlder, RevisionKeeps DEF JobsInv, Shape

LEMMA ResumeKeeps ==
  ASSUME JobsInv, resumeDraft
  PROVE  JobsInv'
PROOF
  <1>1. /\ draft.status = "PAUSED" /\ draft \in DraftRow /\ pauses \in 0..MaxPauses
        /\ draft.version = draft.pick + 2 * pauses - 1 /\ draft.pick \in 1..ExpectedPicks
    BY DEF JobsInv, Shape, RevisionsCount, resumeDraft, DraftRow
  <1>2. /\ draft' = [status |-> "LIVE", pick |-> draft.pick, version |-> draft.version + 1, expired |-> FALSE]
        /\ UNCHANGED <<jobs, attempts, coord, worker, receipts, pauses, faults>>
    BY DEF resumeDraft, NewRevision
  <1>3. draft'.version = draft'.pick + 2 * pauses' /\ draft'.pick = draft.pick /\ draft'.status = "LIVE"
    BY <1>1, <1>2
  <1>4. draft' \in DraftRow
    BY <1>1, <1>2, <1>3, RevisionsFit DEF DraftRow
  <1>5. RevisionsCount'
    BY <1>1, <1>2, <1>3 DEF RevisionsCount
  <1> QED BY <1>1, <1>2, <1>3, <1>4, <1>5, PublishedIsOlder, RevisionKeeps DEF JobsInv, Shape

\* A pick, by a member or by a job.
LEMMA NextTurnFits ==
  ASSUME JobsInv, PickIsPossible, NextTurn, pauses' = pauses
  PROVE  draft' \in DraftRow /\ draft'.version = draft.version + 1 /\ RevisionsCount'
PROOF
  <1> DEFINE next == IF draft.pick + 1 > ExpectedPicks THEN "COMPLETED" ELSE "LIVE"
  <1>1. /\ draft.status = "LIVE" /\ draft \in DraftRow /\ pauses \in 0..MaxPauses
        /\ draft.version = draft.pick + 2 * pauses /\ draft.pick \in 1..ExpectedPicks
    BY DEF JobsInv, Shape, RevisionsCount, PickIsPossible, DraftRow
  <1>2. draft' = [status |-> next, pick |-> draft.pick + 1, version |-> draft.version + 1, expired |-> FALSE]
    BY DEF NextTurn, NewRevision
  <1>3. /\ draft'.version = draft'.pick + 2 * pauses /\ draft'.pick = draft.pick + 1
        /\ draft'.version = draft.version + 1 /\ draft'.status = next
        /\ draft'.pick \in 1..(ExpectedPicks + 1)
    BY <1>1, <1>2
  <1>4. draft' \in DraftRow
    BY <1>1, <1>2, <1>3, RevisionsFit DEF DraftRow
  <1>5. RevisionsCount'
    BY <1>1, <1>3 DEF RevisionsCount
  <1> QED BY <1>3, <1>4, <1>5

LEMMA MakeKeeps ==
  ASSUME JobsInv, makePick
  PROVE  JobsInv'
PROOF
  <1>1. /\ PickIsPossible /\ NextTurn
        /\ UNCHANGED <<jobs, attempts, coord, worker, receipts, pauses, faults>>
    BY DEF makePick
  <1> QED BY <1>1, NextTurnFits, PublishedIsOlder, RevisionKeeps DEF JobsInv, Shape

LEMMA DeadlineKeeps ==
  ASSUME JobsInv, DeadlinePasses
  PROVE  JobsInv'
PROOF
  <1>1. /\ draft' = [draft EXCEPT !.expired = TRUE] /\ draft \in DraftRow
        /\ UNCHANGED <<jobs, attempts, coord, worker, receipts, pauses, faults>>
    BY DEF DeadlinePasses, JobsInv, Shape
  <1>2. /\ draft' \in DraftRow /\ draft'.status = draft.status /\ draft'.pick = draft.pick
        /\ draft'.version = draft.version /\ draft'.expired
    BY <1>1 DEF DraftRow
  <1>3. Schedulable' = Schedulable /\ \A v : Observed(v)' = Observed(v)
    BY <1>2 DEF Observed, Schedulable
  <1>4. Shape' /\ RevisionsCount' /\ JobsHaveWorkers'
    BY <1>1, <1>2 DEF JobsInv, Shape, RevisionsCount, JobsHaveWorkers
  <1>5. OnlyTurnsHaveJobs'
    BY <1>1, <1>2, <1>3 DEF JobsInv, OnlyTurnsHaveJobs
  <1>6. PromisesHold'
    BY <1>1, <1>2 DEF JobsInv, PromisesHold
  <1> QED BY <1>4, <1>5, <1>6 DEF JobsInv

-------------------------------------------------------------------------------
(* Steps of the coordinator *)

\* A step that leaves the draft and the workers alone, and takes no job away.
LEMMA DraftStays ==
  ASSUME JobsInv, UNCHANGED <<draft, worker, pauses, faults>>, Shape',
         \A v \in Version : /\ (jobs[v] = "active") = (jobs'[v] = "active")
                            /\ jobs[v] # "none" => jobs'[v] # "none",
         OnlyTurnsHaveJobs',
         faults = 0 => \A c \in Coordinator :
           coord'[c].phase = "recheck" /\ coord'[c].token = draft.version => jobs'[draft.version] # "none",
         faults = 0 /\ draft.status = "LIVE" /\ draft.version \in receipts' => jobs'[draft.version] # "none"
  PROVE  JobsInv'
PROOF
  <1>1. RevisionsCount'
    BY DEF JobsInv, RevisionsCount
  <1>2. JobsHaveWorkers'
    BY DEF JobsInv, JobsHaveWorkers, Shape, WorkerRecord
  <1>3. PromisesHold'
    BY DEF JobsInv, PromisesHold
  <1> QED BY <1>1, <1>2, <1>3 DEF JobsInv

LEMMA ObserveKeeps ==
  ASSUME JobsInv, NEW c \in Coordinator, ObserveClock(c)
  PROVE  JobsInv'
PROOF
  <1>1. /\ Schedulable /\ coord \in [Coordinator -> CoordRecord] /\ coord[c].attempt \in Nat
        /\ coord' = [coord EXCEPT ![c] = [phase |-> "add", token |-> draft.version,
                                          attempt |-> coord[c].attempt + 1]]
        /\ UNCHANGED <<draft, jobs, attempts, worker, receipts, pauses, faults>>
    BY DEF ObserveClock, JobsInv, Shape, CoordRecord
  <1>2. draft.version \in Version
    <2>1. draft \in DraftRow /\ draft.version = draft.pick + 2 * pauses /\ pauses \in 0..MaxPauses
      BY <1>1 DEF JobsInv, Shape, RevisionsCount, Schedulable
    <2> QED BY <2>1, RevisionsFit DEF DraftRow
  <1>3. coord' \in [Coordinator -> CoordRecord]
    BY <1>1, <1>2 DEF CoordRecord
  <1>4. Shape'
    BY <1>1, <1>3 DEF JobsInv, Shape
  <1>5. OnlyTurnsHaveJobs'
    BY <1>1, <1>2 DEF JobsInv, OnlyTurnsHaveJobs, Observed, Schedulable
  <1>6. \A k \in Coordinator : coord'[k].phase = "recheck" => coord'[k] = coord[k]
    BY <1>1
  <1> QED BY <1>1, <1>4, <1>5, <1>6, DraftStays DEF JobsInv, PromisesHold

LEMMA AddKeeps ==
  ASSUME JobsInv, NEW c \in Coordinator, AddJob(c)
  PROVE  JobsInv'
PROOF
  <1> DEFINE v == coord[c].token
  <1>1. /\ coord[c].phase = "add" /\ scheduleDraftPickExpiry(v)
        /\ coord \in [Coordinator -> CoordRecord]
        /\ coord' = [coord EXCEPT ![c].phase = "recheck"]
        /\ UNCHANGED <<draft, worker, receipts, pauses, faults>>
    BY DEF AddJob, JobsInv, Shape
  <1>2. v \in Version /\ Observed(v)
    BY <1>1 DEF JobsInv, OnlyTurnsHaveJobs
  <1>3. /\ jobs' \in [Version -> {"none", "waiting", "active"}]
        /\ attempts' \in [Version -> 0..(JobAttempts - 1)] /\ jobs'[v] # "none"
        /\ \A u \in Version \ {v} : jobs'[u] = jobs[u]
        /\ \A u \in Version : (jobs[u] = "active") = (jobs'[u] = "active")
        /\ \A u \in Version : jobs[u] # "none" => jobs'[u] # "none"
    BY <1>1, <1>2 DEF scheduleDraftPickExpiry, JobAttempts, JobsInv, Shape
  <1>4. coord' \in [Coordinator -> CoordRecord] /\ coord'[c].token = v
        /\ \A k \in Coordinator \ {c} : coord'[k] = coord[k]
    BY <1>1 DEF CoordRecord
  <1>5. Shape'
    BY <1>1, <1>3, <1>4 DEF JobsInv, Shape
  <1>6. \A u : Observed(u)' = Observed(u)
    BY <1>1 DEF Observed, Schedulable
  <1> HIDE DEF v
  <1>7. OnlyTurnsHaveJobs'
    <2>1. \A u \in Version : jobs'[u] # "none" => Observed(u)
      BY <1>2, <1>3 DEF JobsInv, OnlyTurnsHaveJobs
    <2>2. ASSUME NEW k \in Coordinator, coord'[k].phase # "idle"
          PROVE  coord'[k].token \in Version /\ Observed(coord'[k].token)
      BY <1>2, <1>4, <2>2 DEF JobsInv, OnlyTurnsHaveJobs
    <2> QED BY <1>1, <1>6, <2>1, <2>2 DEF JobsInv, OnlyTurnsHaveJobs
  <1>8. ASSUME NEW k \in Coordinator, faults = 0, coord'[k].phase = "recheck",
               coord'[k].token = draft.version
        PROVE  jobs'[draft.version] # "none"
    <2>1. CASE k = c
      BY <1>3, <1>4, <1>8, <2>1
    <2>2. CASE k # c
      <3>1. draft.version \in Version
        BY <1>4, <1>8, <2>2 DEF JobsInv, OnlyTurnsHaveJobs
      <3> QED BY <1>3, <1>4, <1>8, <2>2, <3>1 DEF JobsInv, PromisesHold
    <2> QED BY <2>1, <2>2
  <1>9. ASSUME faults = 0, draft.status = "LIVE", draft.version \in receipts'
        PROVE  jobs'[draft.version] # "none"
    BY <1>1, <1>3, <1>9 DEF JobsInv, PromisesHold, OnlyTurnsHaveJobs
  <1> QED BY <1>1, <1>3, <1>5, <1>7, <1>8, <1>9, DraftStays

\* A call that is over is forgotten; its receipt is of the running turn.
LEMMA CallEnds ==
  ASSUME JobsInv, NEW c \in Coordinator, NEW n \in Nat, coord' = [coord EXCEPT ![c] = [NoCall EXCEPT !.attempt = n]],
         UNCHANGED <<draft, jobs, attempts, worker, pauses>>, faults' \in Nat, faults' = faults \/ faults' > 0,
         \A v \in receipts' \ receipts :
            v \in Version /\ Observed(v) /\ (faults = 0 /\ v = draft.version => jobs[v] # "none")
  PROVE  JobsInv'
PROOF
  <1>1. /\ coord \in [Coordinator -> CoordRecord] /\ coord' \in [Coordinator -> CoordRecord]
        /\ coord'[c].phase = "idle" /\ \A k \in Coordinator \ {c} : coord'[k] = coord[k]
    BY DEF JobsInv, Shape, CoordRecord, NoCall
  <1>2. Shape' /\ RevisionsCount' /\ JobsHaveWorkers'
    BY <1>1 DEF JobsInv, Shape, RevisionsCount, JobsHaveWorkers
  <1>3. \A u : Observed(u)' = Observed(u)
    BY DEF Observed, Schedulable
  <1>4. OnlyTurnsHaveJobs'
    BY <1>1, <1>3 DEF JobsInv, OnlyTurnsHaveJobs
  <1>5. PromisesHold'
    BY <1>1 DEF JobsInv, PromisesHold
  <1> QED BY <1>2, <1>4, <1>5 DEF JobsInv

LEMMA RecheckKeeps ==
  ASSUME JobsInv, NEW c \in Coordinator, Recheck(c)
  PROVE  JobsInv'
PROOF
  <1> DEFINE same == Schedulable /\ draft.version = coord[c].token
             again == Schedulable /\ ~same /\ coord[c].attempt < MAX_COORDINATION_ATTEMPTS
  <1>1. /\ coord[c].phase = "recheck" /\ coord[c].attempt \in Nat
        /\ receipts' = IF same THEN receipts \cup {coord[c].token} ELSE receipts
        /\ coord' = [coord EXCEPT ![c] = IF again THEN [NoCall EXCEPT !.attempt = coord[c].attempt] ELSE NoCall]
        /\ UNCHANGED <<draft, jobs, attempts, worker, pauses, faults>> /\ faults \in Nat
    BY DEF Recheck, JobsInv, Shape, CoordRecord
  <1>2. \E n \in Nat : coord' = [coord EXCEPT ![c] = [NoCall EXCEPT !.attempt = n]]
    <2>1. NoCall = [NoCall EXCEPT !.attempt = 0]
      BY DEF NoCall
    <2> QED BY <1>1, <2>1
  <1>3. ASSUME NEW v \in receipts' \ receipts
        PROVE  v \in Version /\ Observed(v) /\ (faults = 0 /\ v = draft.version => jobs[v] # "none")
    <2>1. v = coord[c].token
      BY <1>1
    <2> QED BY <1>1, <2>1 DEF JobsInv, OnlyTurnsHaveJobs, PromisesHold
  <1> QED BY <1>1, <1>2, <1>3, CallEnds

LEMMA CoordinatorDiesKeeps ==
  ASSUME JobsInv, NEW c \in Coordinator, CoordinatorDies(c)
  PROVE  JobsInv'
PROOF
  <1>1. /\ coord' = [coord EXCEPT ![c] = NoCall] /\ faults' = faults + 1 /\ faults \in Nat
        /\ UNCHANGED <<draft, jobs, attempts, worker, receipts, pauses>>
    BY DEF CoordinatorDies, Fault, JobsInv, Shape
  <1>2. coord' = [coord EXCEPT ![c] = [NoCall EXCEPT !.attempt = 0]]
    BY <1>1 DEF NoCall
  <1>3. faults' \in Nat /\ faults' > 0 /\ receipts' \ receipts = {}
    BY <1>1
  <1> QED BY <1>1, <1>2, <1>3, CallEnds

-------------------------------------------------------------------------------
(* Steps of the queue and the workers *)

\* A worker lets go of its job, which goes back into the queue or leaves it: without a
\* fault only once the turn is over.
LEMMA LettingGoKeeps ==
  ASSUME JobsInv, NEW w \in Worker, worker[w] # IdleWorker, NEW next \in {"none", "waiting"},
         jobs' = [jobs EXCEPT ![worker[w].job] = next],
         worker' = [worker EXCEPT ![w] = IdleWorker],
         attempts' \in [Version -> 0..(JobAttempts - 1)],
         UNCHANGED <<draft, coord, receipts, pauses>>, faults' \in Nat, faults' = faults \/ faults' > 0,
         faults' = 0 => worker[w].job # draft.version
  PROVE  JobsInv'
PROOF
  <1> DEFINE v == worker[w].job
  <1>1. v \in Version /\ jobs[v] = "active" /\ worker[w].phase # "idle"
    BY DEF JobsInv, Shape, JobsHaveWorkers, WorkerRecord, IdleWorker
  <1>2. /\ jobs' \in [Version -> {"none", "waiting", "active"}] /\ jobs'[v] = next
        /\ \A u \in Version \ {v} : jobs'[u] = jobs[u]
    BY <1>1 DEF JobsInv, Shape
  <1>3. /\ worker' \in [Worker -> WorkerRecord] /\ worker'[w] = IdleWorker
        /\ \A x \in Worker \ {w} : worker'[x] = worker[x]
    BY DEF JobsInv, Shape, WorkerRecord, IdleWorker
  <1>4. IdleWorker.job = Null /\ IdleWorker.phase = "idle"
    BY DEF IdleWorker
  <1>5. \A x \in Worker \ {w} : worker[x].job # v
    BY <1>1, VersionsAreNumbers DEF JobsInv, JobsHaveWorkers
  <1>6. \A u : Observed(u)' = Observed(u)
    BY DEF Observed, Schedulable
  <1> HIDE DEF v
  <1>7. Shape'
    BY <1>2, <1>3 DEF JobsInv, Shape
  <1>8. RevisionsCount'
    BY DEF JobsInv, RevisionsCount
  <1>9. JobsHaveWorkers'
    <2>1. ASSUME NEW x \in Worker
          PROVE  /\ worker'[x].job = Null <=> worker'[x].phase = "idle"
                 /\ worker'[x].job # Null => jobs'[worker'[x].job] = "active"
                 /\ \A y \in Worker : worker'[x].job = worker'[y].job /\ worker'[x].job # Null => x = y
      <3>1. CASE x = w
        BY <1>3, <1>4, <3>1
      <3>2. CASE x # w
        <4>1. worker'[x] = worker[x] /\ worker[x].job \in Version \cup {Null}
          BY <1>3, <3>2 DEF JobsInv, Shape, WorkerRecord
        <4>2. worker[x].job # Null => jobs'[worker[x].job] = "active"
          BY <1>2, <1>5, <3>2, <4>1 DEF JobsInv, JobsHaveWorkers
        <4>3. ASSUME NEW y \in Worker, worker[x].job = worker'[y].job, worker[x].job # Null
              PROVE  x = y
          BY <1>3, <1>4, <4>3 DEF JobsInv, JobsHaveWorkers
        <4> QED BY <4>1, <4>2, <4>3 DEF JobsInv, JobsHaveWorkers
      <3> QED BY <3>1, <3>2
    <2>2. ASSUME NEW u \in Version, jobs'[u] = "active"
          PROVE  \E x \in Worker : worker'[x].job = u
      <3>1. u # v /\ jobs[u] = "active"
        BY <1>2, <2>2
      <3>2. PICK x \in Worker : worker[x].job = u
        BY <3>1 DEF JobsInv, JobsHaveWorkers
      <3> QED BY <1>3, <3>1, <3>2 DEF v
    <2> QED BY <2>1, <2>2 DEF JobsHaveWorkers
  <1>10. OnlyTurnsHaveJobs'
    <2>1. \A u \in Version : jobs'[u] # "none" => Observed(u)
      BY <1>1, <1>2 DEF JobsInv, OnlyTurnsHaveJobs
    <2>2. \A x \in Worker : worker'[x].phase = "publish" => worker'[x].job < draft.version
      BY <1>3, <1>4 DEF JobsInv, OnlyTurnsHaveJobs
    <2> QED BY <1>6, <2>1, <2>2 DEF JobsInv, OnlyTurnsHaveJobs
  <1>11. PromisesHold'
    <2>1. SUFFICES ASSUME faults' = 0 PROVE PromisesHold'
      BY DEF PromisesHold
    <2>2. faults = 0 /\ v # draft.version
      BY <2>1 DEF v
    <2>3. \A x \in Worker : worker'[x].job # Null => worker'[x] = worker[x]
      BY <1>3, <1>4
    <2>4. draft.version \in Version => jobs'[draft.version] = jobs[draft.version]
      BY <1>2, <2>2
    <2>5. \A c \in Coordinator : coord[c].phase = "recheck" => coord[c].token \in Version
      BY DEF JobsInv, OnlyTurnsHaveJobs
    <2>6. receipts \subseteq Version
      BY DEF JobsInv, OnlyTurnsHaveJobs
    <2> QED BY <2>2, <2>3, <2>4, <2>5, <2>6 DEF JobsInv, PromisesHold
  <1> QED BY <1>7, <1>8, <1>9, <1>10, <1>11 DEF JobsInv

LEMMA WakeKeeps ==
  ASSUME JobsInv, NEW w \in Worker, NEW v \in Version, WakeJob(w, v)
  PROVE  JobsInv'
PROOF
  <1>1. /\ worker[w] = IdleWorker /\ jobs[v] = "waiting"
        /\ v < draft.version \/ draft.expired \/ draft.status # "LIVE" \/ faults' > 0
        /\ faults' \in Nat /\ (faults' = 0 => faults = 0)
        /\ jobs' = [jobs EXCEPT ![v] = "active"]
        /\ worker' = [worker EXCEPT ![w] = [job |-> v, phase |-> "check"]]
        /\ UNCHANGED <<draft, attempts, coord, receipts, pauses>>
    BY DEF WakeJob, Fault, JobsInv, Shape
  <1>2. /\ jobs' \in [Version -> {"none", "waiting", "active"}] /\ jobs'[v] = "active"
        /\ \A u \in Version \ {v} : jobs'[u] = jobs[u]
        /\ worker' \in [Worker -> WorkerRecord]
        /\ worker'[w].job = v /\ worker'[w].phase = "check"
        /\ \A x \in Worker \ {w} : worker'[x] = worker[x]
    BY <1>1 DEF JobsInv, Shape, WorkerRecord
  <1>3. \A x \in Worker \ {w} : worker[x].job # v
    BY <1>1, VersionsAreNumbers DEF JobsInv, JobsHaveWorkers
  <1>4. \A u : Observed(u)' = Observed(u)
    BY <1>1 DEF Observed, Schedulable
  <1>5. Shape'
    BY <1>1, <1>2 DEF JobsInv, Shape
  <1>6. RevisionsCount'
    BY <1>1 DEF JobsInv, RevisionsCount
  <1>7. JobsHaveWorkers'
    <2>1. ASSUME NEW x \in Worker
          PROVE  /\ worker'[x].job = Null <=> worker'[x].phase = "idle"
                 /\ worker'[x].job # Null => jobs'[worker'[x].job] = "active"
                 /\ \A y \in Worker : worker'[x].job = worker'[y].job /\ worker'[x].job # Null => x = y
      <3>1. CASE x = w
        BY <1>2, <1>3, <3>1, VersionsAreNumbers
      <3>2. CASE x # w
        <4>1. worker'[x] = worker[x] /\ worker[x].job \in Version \cup {Null}
          BY <1>2, <3>2 DEF JobsInv, Shape, WorkerRecord
        <4>2. worker[x].job # Null => jobs'[worker[x].job] = "active"
          BY <1>2, <4>1 DEF JobsInv, JobsHaveWorkers
        <4>3. \A y \in Worker : worker[x].job = worker'[y].job /\ worker[x].job # Null => x = y
          BY <1>2, <1>3, <3>2 DEF JobsInv, JobsHaveWorkers
        <4> QED BY <4>1, <4>2, <4>3 DEF JobsInv, JobsHaveWorkers
      <3> QED BY <3>1, <3>2
    <2>2. ASSUME NEW u \in Version, jobs'[u] = "active"
          PROVE  \E x \in Worker : worker'[x].job = u
      <3>1. CASE u = v
        BY <1>2, <3>1
      <3>2. CASE u # v
        <4>1. PICK x \in Worker : worker[x].job = u
          BY <1>2, <2>2, <3>2 DEF JobsInv, JobsHaveWorkers
        <4>2. x # w
          BY <1>1, <4>1, VersionsAreNumbers DEF IdleWorker
        <4> QED BY <1>2, <4>1, <4>2
      <3> QED BY <3>1, <3>2
    <2> QED BY <2>1, <2>2 DEF JobsHaveWorkers
  <1>8. OnlyTurnsHaveJobs'
    <2>1. ASSUME NEW u \in Version, jobs'[u] # "none"
          PROVE  Observed(u)
      BY <1>1, <1>2, <2>1 DEF JobsInv, OnlyTurnsHaveJobs
    <2>2. \A x \in Worker : worker'[x].phase = "publish" => worker'[x].job < draft.version
      BY <1>2 DEF JobsInv, OnlyTurnsHaveJobs
    <2> QED BY <1>1, <1>4, <2>1, <2>2 DEF JobsInv, OnlyTurnsHaveJobs
  <1>9. PromisesHold'
    <2>1. SUFFICES ASSUME faults' = 0 PROVE PromisesHold'
      BY DEF PromisesHold
    <2>2. ASSUME NEW x \in Worker, worker'[x].job # Null, worker'[x].job = draft.version
          PROVE  draft.expired
      <3>1. CASE x # w
        BY <1>1, <1>2, <2>1, <2>2, <3>1 DEF JobsInv, PromisesHold
      <3>2. CASE x = w
        <4>1. v = draft.version /\ Observed(v)
          BY <1>1, <1>2, <2>2, <3>2 DEF JobsInv, OnlyTurnsHaveJobs
        <4>2. draft.status = "LIVE" /\ ~(v < draft.version)
          BY <4>1, VersionsAreNumbers DEF Observed, Schedulable
        <4> QED BY <1>1, <2>1, <4>2
      <3> QED BY <3>1, <3>2
    <2>3. \A u \in Version : jobs[u] # "none" => jobs'[u] # "none"
      BY <1>2
    <2>4. \A c \in Coordinator : coord[c].phase = "recheck" => coord[c].token \in Version
      BY DEF JobsInv, OnlyTurnsHaveJobs
    <2>5. receipts \subseteq Version
      BY DEF JobsInv, OnlyTurnsHaveJobs
    <2> QED BY <1>1, <2>1, <2>2, <2>3, <2>4, <2>5 DEF JobsInv, PromisesHold
  <1> QED BY <1>5, <1>6, <1>7, <1>8, <1>9 DEF JobsInv

\* The job a worker has is that of a turn: of the running one only if it can be picked.
LEMMA WorkersTurn ==
  ASSUME JobsInv, NEW w \in Worker, worker[w] # IdleWorker
  PROVE  /\ worker[w].job \in Version /\ worker[w].phase # "idle"
         /\ worker[w].job = draft.version => PickIsPossible /\ (faults = 0 => draft.expired)
PROOF
  <1>1. worker[w].job \in Version /\ worker[w].phase # "idle"
    BY DEF JobsInv, Shape, JobsHaveWorkers, WorkerRecord, IdleWorker
  <1>2. ASSUME worker[w].job = draft.version
        PROVE  PickIsPossible
    <2>1. Observed(worker[w].job)
      BY <1>1 DEF JobsInv, JobsHaveWorkers, OnlyTurnsHaveJobs
    <2>2. Schedulable
      <3>1. draft.version \in Nat
        BY VersionIsNumber DEF JobsInv
      <3>2. ~(draft.version < draft.version)
        BY <3>1
      <3> QED BY <1>2, <2>1, <3>2 DEF Observed
    <2>3. draft \in DraftRow
      BY DEF JobsInv, Shape
    <2> QED BY <2>2, <2>3 DEF Schedulable, PickIsPossible, DraftRow
  <1> QED BY <1>1, <1>2, VersionsAreNumbers DEF JobsInv, PromisesHold

\* A worker looks at the row, and goes on with its job.
LEMMA GoingOnKeeps ==
  ASSUME JobsInv, NEW w \in Worker, worker[w].phase = "check", worker' = [worker EXCEPT ![w].phase = "pick"],
         UNCHANGED <<draft, jobs, attempts, coord, receipts, pauses, faults>>
  PROVE  JobsInv'
PROOF
  <1>1. /\ worker' \in [Worker -> WorkerRecord]
        /\ \A x \in Worker : /\ worker'[x].job = worker[x].job
                             /\ worker'[x].phase = "idle" <=> worker[x].phase = "idle"
                             /\ worker'[x].phase = "publish" => worker[x].phase = "publish"
    BY DEF JobsInv, Shape, WorkerRecord
  <1>2. Shape' /\ RevisionsCount'
    BY <1>1 DEF JobsInv, Shape, RevisionsCount
  <1>3. JobsHaveWorkers'
    BY <1>1 DEF JobsInv, JobsHaveWorkers
  <1>4. \A u : Observed(u)' = Observed(u)
    BY DEF Observed, Schedulable
  <1>5. OnlyTurnsHaveJobs' /\ PromisesHold'
    BY <1>1, <1>4 DEF JobsInv, OnlyTurnsHaveJobs, PromisesHold
  <1> QED BY <1>2, <1>3, <1>5 DEF JobsInv

LEMMA CheckKeeps ==
  ASSUME JobsInv, NEW w \in Worker, CheckJob(w)
  PROVE  JobsInv'
PROOF
  <1>1. /\ worker[w].phase = "check" /\ worker[w] # IdleWorker
        /\ UNCHANGED <<draft, attempts, coord, receipts, pauses, faults>>
    BY DEF CheckJob, IdleWorker
  <1>2. CASE draft.status = "LIVE" /\ draft.version = worker[w].job /\ draft.expired
    BY <1>1, <1>2, GoingOnKeeps DEF CheckJob
  <1>3. CASE ~(draft.status = "LIVE" /\ draft.version = worker[w].job /\ draft.expired)
    <2>1. CompleteJob(w)
      BY <1>3 DEF CheckJob
    <2>2. faults = 0 => worker[w].job # draft.version
      BY <1>1, <1>3, WorkersTurn DEF PickIsPossible
    <2> QED BY <1>1, <2>1, <2>2, LettingGoKeeps DEF CompleteJob, JobsInv, Shape
  <1> QED BY <1>2, <1>3

LEMMA AutoPickKeeps ==
  ASSUME JobsInv, NEW w \in Worker, AutoPick(w)
  PROVE  JobsInv'
PROOF
  <1>1. /\ worker[w].phase = "pick" /\ worker[w] # IdleWorker
        /\ UNCHANGED <<attempts, coord, receipts, pauses, faults>>
    BY DEF AutoPick, IdleWorker
  <1>2. CASE draft.status = "LIVE" /\ draft.version = worker[w].job /\ draft.expired
    <2>1. PickIsPossible /\ NextTurn /\ worker' = [worker EXCEPT ![w].phase = "publish"] /\ UNCHANGED jobs
      BY <1>2 DEF AutoPick
    <2>2. draft' \in DraftRow /\ draft'.version = draft.version + 1 /\ RevisionsCount'
      BY <1>1, <2>1, NextTurnFits
    <2>3. /\ worker' \in [Worker -> WorkerRecord]
          /\ \A x \in Worker : /\ worker'[x].job = worker[x].job
                               /\ worker'[x].phase = "idle" <=> worker[x].phase = "idle"
                               /\ worker'[x].phase = "publish" => worker[x].phase = "publish" \/ x = w
      BY <1>1, <2>1 DEF JobsInv, Shape, WorkerRecord
    <2>4. draft.version < draft.version + 1
      BY VersionIsNumber DEF JobsInv
    <2>5. ASSUME NEW x \in Worker, worker'[x].phase = "publish"
          PROVE  worker'[x].job < draft'.version
      BY <1>2, <2>2, <2>3, <2>4, <2>5, PublishedIsOlder
    <2> QED BY <1>1, <2>1, <2>2, <2>3, <2>5, RevisionKeeps DEF JobsInv, Shape
  <1>3. CASE ~(draft.status = "LIVE" /\ draft.version = worker[w].job /\ draft.expired)
    <2>1. CompleteJob(w) /\ UNCHANGED draft
      BY <1>3 DEF AutoPick
    <2>2. faults = 0 => worker[w].job # draft.version
      BY <1>1, <1>3, WorkersTurn DEF PickIsPossible
    <2> QED BY <1>1, <2>1, <2>2, LettingGoKeeps DEF CompleteJob, JobsInv, Shape
  <1> QED BY <1>2, <1>3

LEMMA PublishKeeps ==
  ASSUME JobsInv, NEW w \in Worker, PublishResult(w)
  PROVE  JobsInv'
PROOF
  <1>1. /\ worker[w].phase = "publish" /\ worker[w] # IdleWorker /\ CompleteJob(w)
        /\ UNCHANGED <<draft, attempts, coord, receipts, pauses, faults>>
    BY DEF PublishResult, IdleWorker
  <1>2. worker[w].job # draft.version
    <2>1. worker[w].job \in Nat /\ worker[w].job < draft.version
      BY <1>1, PublishedIsOlder, VersionsAreNumbers
    <2> QED BY <2>1
  <1> QED BY <1>1, <1>2, LettingGoKeeps DEF CompleteJob, JobsInv, Shape

LEMMA FailedJobFits ==
  ASSUME JobsInv, NEW v \in Version, FailedJob(v)
  PROVE  /\ \E next \in {"none", "waiting"} : jobs' = [jobs EXCEPT ![v] = next]
         /\ attempts' \in [Version -> 0..(JobAttempts - 1)]
PROOF
  <1>1. attempts \in [Version -> 0..(JobAttempts - 1)] /\ attempts[v] \in Nat
    BY DEF JobsInv, Shape, JobAttempts
  <1> QED BY <1>1 DEF FailedJob, JobAttempts

LEMMA RefusedKeeps ==
  ASSUME JobsInv, NEW w \in Worker, RefusedPick(w)
  PROVE  JobsInv'
PROOF
  <1>1. /\ worker[w].phase = "pick" /\ worker[w] # IdleWorker
        /\ draft.status # "LIVE" \/ (draft.version = worker[w].job /\ ~PickIsPossible)
        /\ FailedJob(worker[w].job) /\ worker' = [worker EXCEPT ![w] = IdleWorker]
        /\ UNCHANGED <<draft, coord, receipts, pauses, faults>>
    BY DEF RefusedPick, IdleWorker
  <1>2. worker[w].job \in Version /\ worker[w].job # draft.version
    BY <1>1, WorkersTurn DEF PickIsPossible
  <1> QED BY <1>1, <1>2, FailedJobFits, LettingGoKeeps DEF JobsInv, Shape

LEMMA JobFailsKeeps ==
  ASSUME JobsInv, NEW w \in Worker, JobFails(w)
  PROVE  JobsInv'
PROOF
  <1>1. /\ worker[w] # IdleWorker /\ FailedJob(worker[w].job) /\ worker' = [worker EXCEPT ![w] = IdleWorker]
        /\ UNCHANGED <<draft, coord, receipts, pauses>> /\ faults' \in Nat /\ faults' > 0
    BY DEF JobFails, Fault, JobsInv, Shape
  <1>2. worker[w].job \in Version
    BY <1>1, WorkersTurn
  <1>3. PICK next \in {"none", "waiting"} : jobs' = [jobs EXCEPT ![worker[w].job] = next]
    BY <1>1, <1>2, FailedJobFits
  <1>4. attempts' \in [Version -> 0..(JobAttempts - 1)] /\ ~(faults' = 0)
    BY <1>1, <1>2, FailedJobFits
  <1> QED BY <1>1, <1>3, <1>4, LettingGoKeeps

LEMMA WorkerDiesKeeps ==
  ASSUME JobsInv, NEW w \in Worker, WorkerDies(w)
  PROVE  JobsInv'
PROOF
  <1>1. /\ worker[w] # IdleWorker /\ jobs' = [jobs EXCEPT ![worker[w].job] = "waiting"]
        /\ worker' = [worker EXCEPT ![w] = IdleWorker] /\ attempts' = attempts
        /\ UNCHANGED <<draft, coord, receipts, pauses>> /\ faults' \in Nat /\ faults' > 0
    BY DEF WorkerDies, Fault, JobsInv, Shape
  <1>2. attempts' \in [Version -> 0..(JobAttempts - 1)] /\ ~(faults' = 0) /\ "waiting" \in {"none", "waiting"}
    BY <1>1 DEF JobsInv, Shape
  <1> QED BY <1>1, <1>2, LettingGoKeeps

LEMMA LoseKeeps ==
  ASSUME JobsInv, NEW v \in Version, LoseJob(v)
  PROVE  JobsInv'
PROOF
  <1>1. /\ jobs[v] = "waiting" /\ jobs' = [jobs EXCEPT ![v] = "none"] /\ faults' \in Nat /\ faults' > 0
        /\ UNCHANGED <<draft, attempts, coord, worker, receipts, pauses>>
    BY DEF LoseJob, Fault, JobsInv, Shape
  <1>2. /\ jobs' \in [Version -> {"none", "waiting", "active"}]
        /\ \A u \in Version : jobs[u] = "active" <=> jobs'[u] = "active"
        /\ \A u \in Version : jobs'[u] # "none" => jobs[u] # "none"
    BY <1>1 DEF JobsInv, Shape
  <1>3. Shape' /\ RevisionsCount'
    BY <1>1, <1>2 DEF JobsInv, Shape, RevisionsCount
  <1>4. JobsHaveWorkers'
    BY <1>1, <1>2 DEF JobsInv, JobsHaveWorkers, Shape, WorkerRecord
  <1>5. \A u : Observed(u)' = Observed(u)
    BY <1>1 DEF Observed, Schedulable
  <1>6. OnlyTurnsHaveJobs' /\ PromisesHold'
    BY <1>1, <1>2, <1>5 DEF JobsInv, OnlyTurnsHaveJobs, PromisesHold
  <1> QED BY <1>3, <1>4, <1>6 DEF JobsInv

-------------------------------------------------------------------------------
(* Every step *)

LEMMA InitFits == ClockInit => JobsInv
PROOF
  <1> SUFFICES ASSUME ClockInit PROVE JobsInv
    OBVIOUS
  <1>1. Shape
    BY DEF ClockInit, Shape, DraftRow, CoordRecord, WorkerRecord, NoCall, IdleWorker, JobAttempts
  <1>2. /\ \A c \in Coordinator : coord[c].phase = "idle"
        /\ \A w \in Worker : worker[w].phase = "idle" /\ worker[w].job = Null
        /\ \A v \in Version : jobs[v] = "none"
    BY DEF ClockInit, NoCall, IdleWorker
  <1> QED BY <1>1, <1>2 DEF ClockInit, JobsInv, RevisionsCount, JobsHaveWorkers, OnlyTurnsHaveJobs, PromisesHold

LEMMA NextFits ==
  ASSUME JobsInv, [ClockNext]_clockVars
  PROVE  JobsInv'
PROOF
  <1>1. ASSUME NEW c \in Coordinator, CoordinatorStep(c) \/ CoordinatorDies(c)
        PROVE  JobsInv'
    BY <1>1, ObserveKeeps, AddKeeps, RecheckKeeps, CoordinatorDiesKeeps DEF CoordinatorStep
  <1>2. ASSUME NEW w \in Worker, WorkerStep(w) \/ JobFails(w) \/ WorkerDies(w)
        PROVE  JobsInv'
    BY <1>2, WakeKeeps, CheckKeeps, AutoPickKeeps, RefusedKeeps, PublishKeeps, JobFailsKeeps, WorkerDiesKeeps
       DEF WorkerStep
  <1>3. CASE UNCHANGED clockVars
    BY <1>3 DEF clockVars, JobsInv, Shape, RevisionsCount, JobsHaveWorkers, OnlyTurnsHaveJobs, Observed,
                Schedulable, PromisesHold
  <1> QED
    BY <1>1, <1>2, <1>3, StartKeeps, PauseKeeps, ResumeKeeps, MakeKeeps, DeadlineKeeps, LoseKeeps
       DEF ClockNext

LEMMA InvFits == JobsInv => ClockTypeOK /\ ReceiptMeansJob
PROOF
  <1> SUFFICES ASSUME JobsInv PROVE ClockTypeOK /\ ReceiptMeansJob
    OBVIOUS
  <1>1. draft.status \in {"SCHEDULED", "LIVE", "PAUSED", "COMPLETED"} /\ draft.version \in {0} \cup Version
    BY DEF JobsInv, Shape, DraftRow
  <1>2. \A v \in Version : jobs[v] = "active" <=> \E w \in Worker : worker[w].job = v
    BY VersionsAreNumbers DEF JobsInv, JobsHaveWorkers
  <1> QED BY <1>1, <1>2 DEF JobsInv, Shape, PromisesHold, ClockTypeOK, ReceiptMeansJob

-------------------------------------------------------------------------------
(* Theorems *)

\* What the clock, the jobs, the calls and the workers keep to.
THEOREM JobsInvariant == ClockSpec => []JobsInv
PROOF
  <1>1. JobsInv /\ [ClockNext]_clockVars => JobsInv'
    BY NextFits
  <1> QED BY <1>1, InitFits, PTL DEF ClockSpec

\* Rows, jobs and processes have their shape, the revisions stay within their bound, and
\* a job is active exactly while a worker has it, through stalls, failures and losses.
THEOREM ClockTyped == ClockSpec => []ClockTypeOK
BY JobsInvariant, InvFits, PTL

\* The receipt ensureReady returns is a promise for any number of calls, workers and
\* turns: without a fault the job of the running turn stays in the queue until the turn is
\* over, neither removed by a late call nor used up by a job that finds it too early.
THEOREM ReceiptsAreKept == ClockSpec => []ReceiptMeansJob
BY JobsInvariant, InvFits, PTL

\* A draft is neither LIVE nor paused beyond its last pick, as long as there are players
\* for the whole board: Draft.totalPicks is then the number of picks after which
\* makePick and autoPick complete the draft.
THEOREM FullBoardsAreComplete ==
  ASSUME TotalPicks = ExpectedPicks
  PROVE  ClockSpec => []FullBoardIsComplete
PROOF
  <1>1. JobsInv => FullBoardIsComplete
    <2> SUFFICES ASSUME JobsInv, draft.pick > TotalPicks PROVE draft.status = "COMPLETED"
      BY DEF FullBoardIsComplete
    <2>1. draft.status # "SCHEDULED"
      BY DEF JobsInv, RevisionsCount
    <2>2. draft.status \notin {"LIVE", "PAUSED"}
      BY DEF JobsInv, RevisionsCount, Shape, DraftRow
    <2> QED BY <2>1, <2>2 DEF JobsInv, Shape, DraftRow
  <1> QED BY <1>1, JobsInvariant, PTL

=================================================================================
