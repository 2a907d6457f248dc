------------------------------- MODULE DraftStart -------------------------------
(***************************************************************************)
(* How a scheduled draft comes to start: the stored start time, the lobby  *)
(* job and the start job that the queue holds for a league, the worker     *)
(* that runs them and the routes that change the time, several at once.    *)
(* What happens while the draft is LIVE is DraftClock's.                   *)
(*                                                                         *)
(* A time is far away, less than the lobby's five minutes away, or over;   *)
(* of two times either may come first.                                     *)
(***************************************************************************)
EXTENDS Integers, FiniteSets

CONSTANTS
  RouteCall,      \* calls of PUT and DELETE of /api/drafts/[id]/schedule
  Null,
  MaxTimes,       \* bound: start times ever stored, the one of the creation included
  MaxCommands,    \* bound: settings saves, and pauses, resumptions and ends of the draft
  MaxFaults       \* bound: losses, deaths and failed jobs

ASSUME StartAssumption ==
  MaxTimes \in Nat \ {0} /\ MaxCommands \in Nat /\ MaxFaults \in Nat /\ Null \notin Int

VARIABLES
  status,     \* Draft.status
  lobbyOpen,  \* Draft.lobbyStatus is COUNTDOWN or LIVE
  startAt,    \* LeagueSettings.startAt
  distance,   \* distance[t]: how far away the time t is; Now is always over
  lobbyJob,   \* the job with the league's lobby id
  startJob,   \* the job with the league's start id
  call,       \* the calls of the schedule route
  commands, faults,
  clean       \* history: the stored time was scheduled undisturbed, and no fault took its jobs

scheduleVars == <<status, lobbyOpen, startAt, distance>>
startVars == <<scheduleVars, lobbyJob, startJob, call, commands, faults, clean>>

Now == 0
Time == 1..MaxTimes

NoJob == [state |-> "none", time |-> Null, left |-> 0, step |-> "none"]
DelayedJob(t, n) == [state |-> "delayed", time |-> t, left |-> n, step |-> "none"]
Active(job, step) == [job EXCEPT !.state = "active", !.step = step]

\* attempts of DRAFT_JOB_OPTIONS.
JobAttempts == 3

NoCall == [phase |-> "idle", time |-> Null]

\* A PUT has stored its time and is not done with the jobs.
PutInFlight == \E c \in RouteCall : call[c].phase \in {"remove", "add"}

NoneActive == lobbyJob.state # "active" /\ startJob.state # "active"

-------------------------------------------------------------------------------
(* BullMQ: an active job is locked and cannot be removed, and while a job  *)
(* is there, whatever its state, adding its id again changes nothing.      *)

Removed(job) == IF job.state = "active" THEN job ELSE NoJob

Added(job, t, n) == IF job.state = "none" THEN DelayedJob(t, n) ELSE job

-------------------------------------------------------------------------------
(* Routes                                                                  *)

\* A new time that lies ahead: the next of the model's times.
NewTime(t) ==
  /\ distance[t] = "unused"
  /\ \A u \in Time : u < t => distance[u] # "unused"
  /\ \E d \in {"far", "soon"} : distance' = [distance EXCEPT ![t] = d]

PutReads(c) ==
  /\ call[c].phase = "idle"
  /\ status \in {"SCHEDULED", "LIVE"}
  /\ \E t \in Time :
       /\ NewTime(t)
       /\ call' = [call EXCEPT ![c] = [phase |-> "put", time |-> t]]
  /\ UNCHANGED <<status, lobbyOpen, startAt, lobbyJob, startJob, commands, faults, clean>>

PutWrites(c) ==
  /\ call[c].phase = "put"
  /\ startAt' = call[c].time
  /\ status' = "SCHEDULED"
  /\ call' = [call EXCEPT ![c].phase = "remove"]
  /\ clean' = (NoneActive /\ ~PutInFlight)
  /\ UNCHANGED <<lobbyOpen, distance, lobbyJob, startJob, commands, faults>>

\* Slip: the start job of the time before is left alone.
RemoveStartJobs_lobbyOnly == lobbyJob' = Removed(lobbyJob) /\ UNCHANGED startJob

\* scheduleDraftStart, first half: both jobs of the league are removed.
RemoveStartJobs == lobbyJob' = Removed(lobbyJob) /\ startJob' = Removed(startJob)

RemoveJobs(c) ==
  /\ call[c].phase = "remove"
  /\ RemoveStartJobs
  /\ call' = [call EXCEPT ![c].phase = "add"]
  /\ UNCHANGED <<scheduleVars, commands, faults, clean>>

\* Second half.  A time less than five minutes away is refused, after all of the above.
AddLobbyJob(c) ==
  /\ call[c].phase = "add"
  /\ call' = [call EXCEPT ![c] = NoCall]
  /\ IF distance[call[c].time] = "far"
       THEN lobbyJob' = Added(lobbyJob, call[c].time, JobAttempts) /\ UNCHANGED clean
       ELSE clean' = FALSE /\ UNCHANGED lobbyJob
  /\ UNCHANGED <<scheduleVars, startJob, commands, faults>>

DeleteReads(c) ==
  /\ call[c].phase = "idle"
  /\ status = "SCHEDULED"
  /\ call' = [call EXCEPT ![c].phase = "delete"]
  /\ UNCHANGED <<scheduleVars, lobbyJob, startJob, commands, faults, clean>>

\* The draft is LIVE from now on; its jobs stay.
DeleteWrites(c) ==
  /\ call[c].phase = "delete"
  /\ startAt' = Now
  /\ status' = "LIVE"
  /\ call' = [call EXCEPT ![c] = NoCall]
  /\ UNCHANGED <<lobbyOpen, distance, lobbyJob, startJob, commands, faults, clean>>

\* The settings route stores a time, or clears it, whatever the status, and schedules
\* nothing.
saveLeagueSettings ==
  /\ commands < MaxCommands /\ commands' = commands + 1
  /\ \/ \E t \in Time : NewTime(t) /\ startAt' = t
     \/ startAt' = Null /\ UNCHANGED distance
  /\ clean' = FALSE
  /\ UNCHANGED <<status, lobbyOpen, lobbyJob, startJob, call, faults>>

-------------------------------------------------------------------------------
(* Commands of the commissioner and the members                            *)

StartedDraft == status' = "LIVE" /\ lobbyOpen' = TRUE /\ UNCHANGED <<startAt, distance>>

startDraft ==
  /\ status = "SCHEDULED"
  /\ StartedDraft
  /\ UNCHANGED <<lobbyJob, startJob, call, commands, faults, clean>>

\* A draft that has started is paused, resumed or completed.
DraftGoesOn ==
  /\ commands < MaxCommands /\ commands' = commands + 1
  /\ \/ status = "LIVE" /\ status' \in {"PAUSED", "COMPLETED"}
     \/ status = "PAUSED" /\ status' = "LIVE"
  /\ UNCHANGED <<lobbyOpen, startAt, distance, lobbyJob, startJob, call, faults, clean>>

-------------------------------------------------------------------------------
(* The worker                                                              *)

\* A job that fails is tried again, at once, while it has attempts left.  One added with a single
\* attempt has the queue's default options: it stays as failed, and its id with it.
FailedAttempt(job, last) ==
  IF job.left > 1 THEN DelayedJob(Now, job.left - 1) ELSE last

FailedStart == [NoJob EXCEPT !.state = "failed"]

\* draft:start-lobby is handed out five minutes before its time.
WakeLobby ==
  /\ lobbyJob.state = "delayed"
  /\ distance[lobbyJob.time] # "far"
  /\ lobbyJob' = Active(lobbyJob, "open")
  /\ clean' = (clean /\ ~PutInFlight)
  /\ UNCHANGED <<scheduleVars, startJob, call, commands, faults>>

\* openScheduledLobby opens the lobby of a SCHEDULED draft, once, which takes a stored
\* time.  The job goes on with the time that is stored, whatever the status.
openScheduledLobby ==
  /\ lobbyJob.step = "open"
  /\ IF startAt = Null
       THEN /\ lobbyJob' = IF status = "SCHEDULED" /\ ~lobbyOpen
                             THEN FailedAttempt(lobbyJob, NoJob) ELSE NoJob
            /\ UNCHANGED lobbyOpen
       ELSE /\ lobbyJob' = [Active(lobbyJob, "remove") EXCEPT !.time = startAt]
            /\ lobbyOpen' = (lobbyOpen \/ status = "SCHEDULED")
  /\ UNCHANGED <<status, startAt, distance, startJob, call, commands, faults, clean>>

RemoveStart ==
  /\ lobbyJob.step = "remove"
  /\ startJob' = Removed(startJob)
  /\ lobbyJob' = Active(lobbyJob, "add")
  /\ UNCHANGED <<scheduleVars, call, commands, faults, clean>>

\* Slip: the start job is added before the old one is removed, that is, removed again.
AddStart_removed ==
  /\ lobbyJob.step = "add"
  /\ startJob' = Removed(Added(startJob, lobbyJob.time, 1))
  /\ lobbyJob' = Active(lobbyJob, "done")
  /\ UNCHANGED <<scheduleVars, call, commands, faults, clean>>

\* The start job is added without the attempts of the others.
AddStart ==
  /\ lobbyJob.step = "add"
  /\ startJob' = Added(startJob, lobbyJob.time, 1)
  /\ lobbyJob' = Active(lobbyJob, "done")
  /\ UNCHANGED <<scheduleVars, call, commands, faults, clean>>

CompleteLobby ==
  /\ lobbyJob.step = "done"
  /\ lobbyJob' = NoJob
  /\ UNCHANGED <<scheduleVars, startJob, call, commands, faults, clean>>

\* draft:start is handed out at its time.
WakeStart ==
  /\ startJob.state = "delayed"
  /\ distance[startJob.time] = "over"
  /\ startJob' = Active(startJob, "check")
  /\ clean' = (clean /\ ~PutInFlight)
  /\ UNCHANGED <<scheduleVars, lobbyJob, call, commands, faults>>

CheckStart ==
  /\ startJob.step = "check"
  /\ startJob' = IF status = "SCHEDULED" THEN Active(startJob, "start") ELSE NoJob
  /\ UNCHANGED <<scheduleVars, lobbyJob, call, commands, faults, clean>>

\* startDraft throws if somebody else has started the draft since the check.
StartByJob ==
  /\ startJob.step = "start"
  /\ IF status = "SCHEDULED"
       THEN StartedDraft /\ startJob' = Active(startJob, "publish")
       ELSE UNCHANGED scheduleVars /\ startJob' = FailedAttempt(startJob, FailedStart)
  /\ UNCHANGED <<lobbyJob, call, commands, faults, clean>>

PublishStart ==
  /\ startJob.step = "publish"
  /\ startJob' = NoJob
  /\ UNCHANGED <<scheduleVars, lobbyJob, call, commands, faults, clean>>

-------------------------------------------------------------------------------
(* Faults                                                                  *)

Fault ==
  /\ faults < MaxFaults /\ faults' = faults + 1
  /\ UNCHANGED <<scheduleVars, call, commands>>

\* A database or Redis error at any step of a job.  Three of them end the lobby job, one
\* ends a start job that the lobby job has added.
JobFails ==
  /\ Fault
  /\ \/ /\ lobbyJob.state = "active"
        /\ lobbyJob' = FailedAttempt(lobbyJob, NoJob)
        /\ clean' = (clean /\ lobbyJob.left > 1)
        /\ UNCHANGED startJob
     \/ /\ startJob.state = "active"
        /\ startJob' = FailedAttempt(startJob, FailedStart)
        /\ clean' = (clean /\ startJob.left > 1)
        /\ UNCHANGED lobbyJob

\* A job whose worker died stalls and is handed out again.
WorkerDies ==
  /\ Fault
  /\ \/ lobbyJob.state = "active" /\ lobbyJob' = DelayedJob(Now, lobbyJob.left) /\ UNCHANGED startJob
     \/ startJob.state = "active" /\ startJob' = DelayedJob(Now, startJob.left) /\ UNCHANGED lobbyJob
  /\ UNCHANGED clean

\* Redis loses a job.  Nothing looks for SCHEDULED drafts without one.
LoseJob ==
  /\ Fault
  /\ \/ lobbyJob.state = "delayed" /\ lobbyJob' = NoJob /\ UNCHANGED startJob
     \/ startJob.state = "delayed" /\ startJob' = NoJob /\ UNCHANGED lobbyJob
  /\ clean' = FALSE

TimePasses(t) ==
  /\ distance[t] \in {"far", "soon"}
  /\ distance' = [distance EXCEPT ![t] = IF @ = "far" THEN "soon" ELSE "over"]
  /\ UNCHANGED <<status, lobbyOpen, startAt, lobbyJob, startJob, call, commands, faults, clean>>

-------------------------------------------------------------------------------
\* A draft has been created with a time, and a lobby job; without one, to start in five
\* minutes; or with a time so close that it was not scheduled, which POST only logs.
StartInit ==
  /\ status = "SCHEDULED"
  /\ startAt = 1
  /\ call = [c \in RouteCall |-> NoCall]
  /\ commands = 0 /\ faults = 0
  /\ \E d \in {"far", "soon"} :
       distance = [t \in {Now} \cup Time |-> IF t = Now THEN "over" ELSE IF t = 1 THEN d ELSE "unused"]
  /\ \/ /\ distance[1] = "far" /\ lobbyOpen = FALSE
        /\ lobbyJob = DelayedJob(1, JobAttempts) /\ startJob = NoJob
     \/ /\ distance[1] = "soon" /\ lobbyOpen = TRUE
        /\ lobbyJob = NoJob /\ startJob = DelayedJob(1, JobAttempts)
     \/ /\ distance[1] = "soon" /\ lobbyOpen = FALSE
        /\ lobbyJob = NoJob /\ startJob = NoJob
  /\ clean = (lobbyJob # NoJob \/ startJob # NoJob)

RouteStep(c) ==
  PutReads(c) \/ PutWrites(c) \/ RemoveJobs(c) \/ AddLobbyJob(c) \/ DeleteReads(c) \/ DeleteWrites(c)

LobbyStep == WakeLobby \/ openScheduledLobby \/ RemoveStart \/ AddStart \/ CompleteLobby

StartStep == WakeStart \/ CheckStart \/ StartByJob \/ PublishStart

StartNext ==
  \/ \E c \in RouteCall : RouteStep(c)
  \/ saveLeagueSettings \/ startDraft \/ DraftGoesOn
  \/ LobbyStep \/ StartStep
  \/ JobFails \/ WorkerDies \/ LoseJob
  \/ \E t \in Time : TimePasses(t)

\* Time passes and a queue with a worker runs the jobs that are due.  No command and no
\* edit need ever come, and a PUT may die between any two of its steps.
StartFairness ==
  /\ \A t \in Time : WF_startVars(TimePasses(t))
  /\ WF_startVars(LobbyStep) /\ WF_startVars(StartStep)

StartSpec == StartInit /\ [][StartNext]_startVars /\ StartFairness

-------------------------------------------------------------------------------
(* Properties *)

\* A draft whose time was scheduled undisturbed starts, or is rescheduled: through a
\* lobby job that fails twice and workers that die at any step, also after the start job
\* was added and has run.
ScheduledDraftStarts ==
  (status = "SCHEDULED" /\ clean /\ ~PutInFlight) ~> (status # "SCHEDULED" \/ ~clean \/ PutInFlight)

\* No job left over from an earlier time starts the draft before the time that is stored
\* now, unless a job was running, or was handed out, while that time was being stored.
StartsAtTheStoredTime ==
  [][(StartByJob /\ status = "SCHEDULED" /\ clean) => distance[startAt] = "over"]_startVars
===============================================================================
