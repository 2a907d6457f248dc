--------------------------- MODULE DraftStartProofs ---------------------------
(***************************************************************************)
(* No job of an earlier time starts the draft before the time stored now,  *)
(* for any number of calls, times, saves and faults.                       *)
(***************************************************************************)
EXTENDS DraftStart, TLAPS

USE StartAssumption

-------------------------------------------------------------------------------
(* The invariant                                                           *)

LobbyStepName == {"open", "remove", "add", "done"}
StartStepName == {"check", "start", "publish"}

\* A job has a step exactly while it is active, a time unless it is gone or failed.
JobType(job, steps) ==
  /\ job \in [state : {"none", "delayed", "active", "failed"}, time : {Now} \cup Time \cup {Null},
              left : Int, step : steps \cup {"none"}]
  /\ job.state = "active" <=> job.step # "none"
  /\ job.state \in {"delayed", "active"} => job.time # Null

CallType(x) ==
  /\ x \in [phase : {"idle", "put", "remove", "add", "delete"}, time : Time \cup {Null}]
  /\ x.phase \in {"put", "remove", "add"} => x.time # Null

Shape ==
  /\ status \in {"SCHEDULED", "LIVE", "PAUSED", "COMPLETED"}
  /\ startAt \in {Now} \cup Time \cup {Null}
  /\ distance \in [{Now} \cup Time -> {"unused", "far", "soon", "over"}]
  /\ distance[Now] = "over"
  /\ JobType(lobbyJob, LobbyStepName) /\ JobType(startJob, StartStepName)
  /\ DOMAIN call = RouteCall /\ \A c \in RouteCall : CallType(call[c])
  /\ clean \in BOOLEAN

Rescheduling(c) == call[c].phase \in {"remove", "add"}

\* While the history is clean: a PUT that is not done with the jobs is alone and finds none
\* active; after its removal there is no start job.  Otherwise a start job waits for the
\* time stored, or that is over; and an active one has been handed out after it.
CleanSchedule ==
  /\ startAt \in Time
  /\ \A c, d \in RouteCall : Rescheduling(c) /\ Rescheduling(d) => c = d
  /\ PutInFlight => NoneActive
  /\ startJob.state = "delayed" =>
       \/ startJob.time = startAt
       \/ distance[startAt] = "over"
       \/ \E c \in RouteCall : call[c].phase = "remove"
  /\ startJob.state = "active" => distance[startAt] = "over"
  /\ lobbyJob.step \in {"remove", "add"} => lobbyJob.time = startAt

StartInv == Shape /\ (status = "SCHEDULED" /\ clean => CleanSchedule)

-------------------------------------------------------------------------------
(* Jobs                                                                    *)

LEMMA NewJobTypes ==
  ASSUME NEW t \in {Now} \cup Time, NEW n \in Int, NEW steps, "none" \notin steps
  PROVE  JobType(NoJob, steps) /\ JobType(FailedStart, steps) /\ JobType(DelayedJob(t, n), steps)
BY DEF JobType, NoJob, FailedStart, DelayedJob, Now, Time

LEMMA JobStepTypes ==
  ASSUME NEW steps, "none" \notin steps, NEW job, JobType(job, steps)
  PROVE  /\ \A step \in steps : /\ job.time # Null => JobType(Active(job, step), steps)
                                /\ Active(job, step).time = job.time
                                /\ Active(job, step).state = "active"
                                /\ Active(job, step).step = step
         /\ JobType(Removed(job), steps)
         /\ \A t \in {Now} \cup Time, n \in Int : JobType(Added(job, t, n), steps)
         /\ JobType(FailedAttempt(job, NoJob), steps) /\ JobType(FailedAttempt(job, FailedStart), steps)
PROOF
  <1>1. \A step \in steps : /\ job.time # Null => JobType(Active(job, step), steps)
                            /\ Active(job, step).time = job.time
                            /\ Active(job, step).state = "active"
                            /\ Active(job, step).step = step
    BY DEF Active, JobType
  <1>2. JobType(NoJob, steps) /\ JobType(FailedStart, steps)
    BY NewJobTypes DEF Now
  <1>3. \A t \in {Now} \cup Time, n \in Int : JobType(DelayedJob(t, n), steps)
    BY NewJobTypes
  <1>4. job.left - 1 \in Int /\ Now \in {Now} \cup Time
    BY DEF JobType
  <1> QED BY <1>1, <1>2, <1>3, <1>4 DEF Removed, Added, FailedAttempt

\* What a step does to the state of a job.
LEMMA JobStates ==
  ASSUME NEW job, NEW t, NEW n
  PROVE  /\ Removed(job).state = "active" => job.state = "active" /\ Removed(job) = job
         /\ job.state # "active" => Removed(job) = NoJob
         /\ NoJob.state = "none" /\ NoJob.step = "none" /\ FailedStart.state = "failed"
         /\ FailedStart.step = "none"
         /\ DelayedJob(t, n).state = "delayed" /\ DelayedJob(t, n).time = t /\ DelayedJob(t, n).step = "none"
         /\ Added(job, t, n) = job \/ (job.state = "none" /\ Added(job, t, n) = DelayedJob(t, n))
BY DEF Removed, Added, NoJob, FailedStart, DelayedJob

-------------------------------------------------------------------------------
(* The routes                                                              *)

USE DEF LobbyStepName, StartStepName

LEMMA InitKeepsInv ==
  ASSUME StartInit
  PROVE  StartInv
PROOF
  <1>1. Now \in {Now} \cup Time /\ 1 \in Time /\ Now # 1 /\ Now \notin Time /\ Null \notin {Now} \cup Time
    BY DEF Now, Time
  <1>2. JobType(lobbyJob, LobbyStepName) /\ JobType(startJob, StartStepName)
    <2>1. JobAttempts \in Int /\ "none" \notin LobbyStepName /\ "none" \notin StartStepName
      BY DEF JobAttempts
    <2> QED BY <1>1, <2>1, NewJobTypes DEF StartInit
  <1>3. distance \in [{Now} \cup Time -> {"unused", "far", "soon", "over"}] /\ distance[Now] = "over"
    BY <1>1 DEF StartInit
  <1>4. clean \in BOOLEAN
    BY DEF StartInit
  <1>5. Shape
    BY <1>1, <1>2, <1>3, <1>4 DEF StartInit, Shape, CallType, NoCall
  <1>6. ~PutInFlight
    BY DEF StartInit, PutInFlight, NoCall
  <1>7. startJob.state # "active" /\ (startJob.state = "delayed" => startJob.time = 1)
        /\ lobbyJob.step = "none"
    BY DEF StartInit, NoJob, DelayedJob
  <1>8. CleanSchedule
    BY <1>1, <1>6, <1>7 DEF StartInit, CleanSchedule, Rescheduling, NoCall
  <1> QED BY <1>5, <1>8 DEF StartInv

\* A new time leaves those that are over, and is put where none was.
LEMMA NewTimeKeepsOver ==
  ASSUME Shape, NEW t \in Time, NewTime(t)
  PROVE  /\ distance' \in [{Now} \cup Time -> {"unused", "far", "soon", "over"}]
         /\ \A u \in {Now} \cup Time : distance[u] = "over" => distance'[u] = "over"
BY DEF Shape, NewTime

LEMMA PutReadsKeepsInv ==
  ASSUME StartInv, NEW c \in RouteCall, PutReads(c)
  PROVE  StartInv'
PROOF
  <1>1. PICK t \in Time : NewTime(t) /\ call' = [call EXCEPT ![c] = [phase |-> "put", time |-> t]]
    BY DEF PutReads
  <1>2. Null \notin Time
    BY DEF Time
  <1>3. UNCHANGED <<status, lobbyOpen, startAt, lobbyJob, startJob, commands, faults, clean>>
    BY DEF PutReads
  <1>4. DOMAIN call' = RouteCall /\ call'[c] = [phase |-> "put", time |-> t]
        /\ \A d \in RouteCall \ {c} : call'[d] = call[d]
    BY <1>1 DEF StartInv, Shape
  <1>5. \A d \in RouteCall : CallType(call[d])'
    BY <1>2, <1>4 DEF StartInv, Shape, CallType, Time
  <1>6. /\ distance' \in [{Now} \cup Time -> {"unused", "far", "soon", "over"}]
        /\ \A u \in {Now} \cup Time : distance[u] = "over" => distance'[u] = "over"
    BY <1>1, NewTimeKeepsOver DEF StartInv
  <1>7. Shape'
    BY <1>3, <1>4, <1>5, <1>6 DEF StartInv, Shape, JobType, Now, Time
  <1>8. \A d \in RouteCall : (Rescheduling(d)' => Rescheduling(d))
           /\ (call[d].phase = "remove" => call'[d].phase = "remove")
    BY <1>4 DEF Rescheduling, PutReads
  <1>9. ASSUME CleanSchedule PROVE CleanSchedule'
    <2>1. PutInFlight' => PutInFlight
      BY <1>8 DEF PutInFlight, Rescheduling
    <2>2. distance[startAt] = "over" => distance'[startAt] = "over"
      BY <1>6, <1>9 DEF CleanSchedule
    <2> QED BY <1>3, <1>8, <1>9, <2>1, <2>2 DEF CleanSchedule, NoneActive, Time, Rescheduling
  <1> QED BY <1>3, <1>7, <1>9 DEF StartInv

LEMMA PutWritesKeepsInv ==
  ASSUME StartInv, NEW c \in RouteCall, PutWrites(c)
  PROVE  StartInv'
PROOF
  <1>1. /\ call[c].phase = "put" /\ startAt' = call[c].time /\ status' = "SCHEDULED"
        /\ call' = [call EXCEPT ![c].phase = "remove"] /\ clean' = (NoneActive /\ ~PutInFlight)
        /\ UNCHANGED <<lobbyOpen, distance, lobbyJob, startJob, commands, faults>>
    BY DEF PutWrites
  <1>2. /\ DOMAIN call' = RouteCall /\ call'[c] = [call[c] EXCEPT !.phase = "remove"]
        /\ \A d \in RouteCall \ {c} : call'[d] = call[d]
    BY <1>1 DEF StartInv, Shape
  <1>3. CallType(call[c]) /\ call[c].time \in Time
    BY <1>1 DEF StartInv, Shape, CallType
  <1>4. call'[c].phase = "remove" /\ CallType(call[c])'
    BY <1>2, <1>3 DEF CallType, Time
  <1>5. \A d \in RouteCall : CallType(call[d])'
    BY <1>2, <1>4 DEF StartInv, Shape, CallType, Time
  <1>6. Shape'
    BY <1>1, <1>2, <1>3, <1>5 DEF StartInv, Shape, JobType, Now, Time, NoneActive, PutInFlight
  <1>7. ASSUME clean' PROVE CleanSchedule'
    <2>1. NoneActive /\ ~PutInFlight
      BY <1>1, <1>7
    <2>2. \A d \in RouteCall : Rescheduling(d)' => d = c
      BY <1>2, <2>1 DEF PutInFlight, Rescheduling
    <2>3. lobbyJob.step = "none"
      BY <2>1 DEF NoneActive, StartInv, Shape, JobType
    <2> QED BY <1>1, <1>3, <1>4, <2>1, <2>2, <2>3 DEF CleanSchedule, NoneActive, Time
  <1> QED BY <1>6, <1>7 DEF StartInv

LEMMA RemoveJobsKeepsInv ==
  ASSUME StartInv, NEW c \in RouteCall, RemoveJobs(c)
  PROVE  StartInv'
PROOF
  <1>1. /\ call[c].phase = "remove" /\ call' = [call EXCEPT ![c].phase = "add"]
        /\ lobbyJob' = Removed(lobbyJob) /\ startJob' = Removed(startJob)
        /\ UNCHANGED <<status, lobbyOpen, startAt, distance, commands, faults, clean>>
    BY DEF RemoveJobs, RemoveStartJobs, scheduleVars
  <1>2. /\ DOMAIN call' = RouteCall /\ call'[c] = [call[c] EXCEPT !.phase = "add"]
        /\ \A d \in RouteCall \ {c} : call'[d] = call[d]
    BY <1>1 DEF StartInv, Shape
  <1>3. call'[c].phase = "add" /\ CallType(call[c])'
    BY <1>1, <1>2 DEF StartInv, Shape, CallType, Time
  <1>4. \A d \in RouteCall : CallType(call[d])'
    BY <1>2, <1>3 DEF StartInv, Shape, CallType, Time
  <1>5. JobType(lobbyJob', LobbyStepName) /\ JobType(startJob', StartStepName)
    BY <1>1, JobStepTypes DEF StartInv, Shape
  <1>6. Shape'
    BY <1>1, <1>2, <1>4, <1>5 DEF StartInv, Shape, JobType, Now, Time
  <1>7. ASSUME CleanSchedule PROVE CleanSchedule'
    <2>1. PutInFlight /\ NoneActive
      BY <1>1, <1>7 DEF PutInFlight, CleanSchedule
    <2>2. startJob' = NoJob /\ lobbyJob' = NoJob
      BY <1>1, <2>1, JobStates DEF NoneActive
    <2>3. \A d \in RouteCall : Rescheduling(d)' => Rescheduling(d)
      BY <1>1, <1>2 DEF Rescheduling
    <2> QED BY <1>1, <1>7, <2>2, <2>3 DEF CleanSchedule, NoneActive, NoJob, Time, Rescheduling
  <1> QED BY <1>1, <1>6, <1>7 DEF StartInv

LEMMA AddLobbyJobKeepsInv ==
  ASSUME StartInv, NEW c \in RouteCall, AddLobbyJob(c)
  PROVE  StartInv'
PROOF
  <1>1. /\ call[c].phase = "add" /\ call' = [call EXCEPT ![c] = NoCall]
        /\ \/ lobbyJob' = Added(lobbyJob, call[c].time, JobAttempts) /\ clean' = clean
           \/ clean' = FALSE /\ lobbyJob' = lobbyJob
        /\ UNCHANGED <<status, lobbyOpen, startAt, distance, startJob, commands, faults>>
    BY DEF AddLobbyJob, scheduleVars
  <1>2. /\ DOMAIN call' = RouteCall /\ call'[c] = NoCall
        /\ \A d \in RouteCall \ {c} : call'[d] = call[d]
    BY <1>1 DEF StartInv, Shape
  <1>3. \A d \in RouteCall : CallType(call[d])'
    BY <1>2 DEF StartInv, Shape, CallType, NoCall, Time
  <1>4. call[c].time \in Time /\ JobAttempts \in Int
    BY <1>1 DEF StartInv, Shape, CallType, JobAttempts
  <1>5. JobType(lobbyJob', LobbyStepName)
    <2>1. JobType(lobbyJob, LobbyStepName) /\ "none" \notin LobbyStepName
      BY DEF StartInv, Shape
    <2> HIDE DEF LobbyStepName
    <2>2. JobType(Added(lobbyJob, call[c].time, JobAttempts), LobbyStepName)
      BY <1>4, <2>1, JobStepTypes
    <2> QED BY <1>1, <2>1, <2>2
  <1>6. Shape'
    BY <1>1, <1>2, <1>3, <1>5 DEF StartInv, Shape, JobType, Now, Time
  <1>7. ASSUME CleanSchedule, clean' PROVE CleanSchedule'
    <2>1. PutInFlight /\ NoneActive /\ \A d \in RouteCall : Rescheduling(d) => d = c
      BY <1>1, <1>7 DEF PutInFlight, CleanSchedule, Rescheduling
    <2>2. \A d \in RouteCall : ~Rescheduling(d)' /\ call[d].phase # "remove"
      BY <1>1, <1>2, <2>1 DEF Rescheduling, NoCall
    <2>3. ~PutInFlight'
      BY <2>2 DEF PutInFlight, Rescheduling
    <2>4. lobbyJob.step = "none" /\ startJob.state # "active"
      BY <2>1 DEF NoneActive, StartInv, Shape, JobType
    <2>5. lobbyJob' = lobbyJob \/ lobbyJob' = DelayedJob(call[c].time, JobAttempts)
      BY <1>1, JobStates
    <2>6. lobbyJob'.step = "none"
      BY <2>4, <2>5, JobStates
    <2> QED BY <1>1, <1>7, <2>2, <2>3, <2>4, <2>6 DEF CleanSchedule, Time, Rescheduling
  <1> QED BY <1>1, <1>6, <1>7 DEF StartInv

LEMMA DeleteKeepsInv ==
  ASSUME StartInv, NEW c \in RouteCall, DeleteReads(c) \/ DeleteWrites(c)
  PROVE  StartInv'
PROOF
  <1>1. CASE DeleteReads(c)
    <2>1. /\ call[c].phase = "idle" /\ call' = [call EXCEPT ![c].phase = "delete"]
          /\ UNCHANGED <<status, lobbyOpen, startAt, distance, lobbyJob, startJob, commands, faults, clean>>
      BY <1>1 DEF DeleteReads, scheduleVars
    <2>2. /\ DOMAIN call' = RouteCall /\ call'[c] = [call[c] EXCEPT !.phase = "delete"]
          /\ \A d \in RouteCall \ {c} : call'[d] = call[d]
      BY <2>1 DEF StartInv, Shape
    <2>3. call'[c].phase = "delete" /\ CallType(call[c])'
      BY <2>2 DEF StartInv, Shape, CallType, Time
    <2>4. \A d \in RouteCall : CallType(call[d])'
      BY <2>2, <2>3 DEF StartInv, Shape, CallType, Time
    <2>5. Shape'
      BY <2>1, <2>2, <2>4 DEF StartInv, Shape, JobType, Now, Time
    <2>6. \A d \in RouteCall : /\ Rescheduling(d)' => Rescheduling(d)
                               /\ call[d].phase = "remove" => call'[d].phase = "remove"
      BY <2>1, <2>2, <2>3 DEF Rescheduling
    <2>7. PutInFlight' => PutInFlight
      BY <2>6 DEF PutInFlight, Rescheduling
    <2>8. ASSUME CleanSchedule PROVE CleanSchedule'
      BY <2>1, <2>6, <2>7, <2>8 DEF CleanSchedule, NoneActive, Time, Rescheduling
    <2> QED BY <2>1, <2>5, <2>8 DEF StartInv
  <1>2. CASE DeleteWrites(c)
    <2>1. /\ call' = [call EXCEPT ![c] = NoCall] /\ startAt' = Now /\ status' = "LIVE"
          /\ UNCHANGED <<lobbyOpen, distance, lobbyJob, startJob, commands, faults, clean>>
      BY <1>2 DEF DeleteWrites
    <2>2. DOMAIN call' = RouteCall /\ \A d \in RouteCall : CallType(call[d])'
      BY <2>1 DEF StartInv, Shape, CallType, NoCall, Time
    <2>3. Shape'
      BY <2>1, <2>2 DEF StartInv, Shape, JobType, Now, Time
    <2> QED BY <2>1, <2>3 DEF StartInv
  <1> QED BY <1>1, <1>2

\* A step that leaves the calls, the times and the jobs alone needs the draft to be
\* SCHEDULED only if it was.
LEMMA CommandsKeepInv ==
  ASSUME StartInv, saveLeagueSettings \/ startDraft \/ DraftGoesOn
  PROVE  StartInv'
PROOF
  <1>1. CASE saveLeagueSettings
    <2>1. clean' = FALSE /\ UNCHANGED <<status, lobbyJob, startJob, call>>
      BY <1>1 DEF saveLeagueSettings
    <2>2. /\ distance' \in [{Now} \cup Time -> {"unused", "far", "soon", "over"}] /\ distance'[Now] = "over"
          /\ startAt' \in {Now} \cup Time \cup {Null}
      <3>1. CASE \E t \in Time : NewTime(t) /\ startAt' = t
        BY <3>1, NewTimeKeepsOver DEF StartInv, Shape
      <3>2. CASE startAt' = Null /\ UNCHANGED distance
        BY <3>2 DEF StartInv, Shape
      <3> QED BY <1>1, <3>1, <3>2 DEF saveLeagueSettings
    <2>3. Shape'
      BY <2>1, <2>2 DEF StartInv, Shape, JobType, CallType, Now, Time
    <2> QED BY <2>1, <2>3 DEF StartInv
  <1>2. CASE startDraft \/ DraftGoesOn
    <2>1. /\ status' \in {"LIVE", "PAUSED", "COMPLETED"}
          /\ UNCHANGED <<startAt, distance, lobbyJob, startJob, call, clean>>
      BY <1>2 DEF startDraft, StartedDraft, DraftGoesOn
    <2>2. Shape'
      BY <2>1 DEF StartInv, Shape, JobType, CallType, Now, Time
    <2> QED BY <2>1, <2>2 DEF StartInv
  <1> QED BY <1>1, <1>2

-------------------------------------------------------------------------------
(* The jobs                                                                *)

\* Nobody else moves while a job does.
RoutesRest == UNCHANGED <<status, startAt, distance, call>>

\* Then the invariant is about the jobs alone.
LEMMA JobsKeepInv ==
  ASSUME StartInv, RoutesRest, clean' => clean, clean' \in BOOLEAN,
         JobType(lobbyJob', LobbyStepName), JobType(startJob', StartStepName),
         status = "SCHEDULED" /\ clean /\ clean' /\ CleanSchedule =>
           /\ PutInFlight => NoneActive'
           /\ startJob'.state = "delayed" =>
                \/ startJob'.time = startAt \/ distance[startAt] = "over"
                \/ \E c \in RouteCall : call[c].phase = "remove"
           /\ startJob'.state = "active" => distance[startAt] = "over"
           /\ lobbyJob'.step \in {"remove", "add"} => lobbyJob'.time = startAt
  PROVE  StartInv'
PROOF
  <1>1. UNCHANGED <<status, startAt, distance, call>>
    BY DEF RoutesRest
  <1>2. Shape'
    BY <1>1 DEF StartInv, Shape, JobType, CallType, Now, Time
  <1>3. ASSUME status' = "SCHEDULED", clean' PROVE CleanSchedule'
    <2>1. status = "SCHEDULED" /\ clean /\ CleanSchedule
      BY <1>1, <1>3 DEF StartInv
    <2>2. PutInFlight' => PutInFlight
      BY <1>1 DEF PutInFlight
    <2> QED BY <1>1, <1>3, <2>1, <2>2 DEF CleanSchedule, Rescheduling, Time
  <1> QED BY <1>2, <1>3 DEF StartInv

LEMMA LobbyStepKeepsInv ==
  ASSUME StartInv, LobbyStep
  PROVE  StartInv'
PROOF
  <1> USE JobStates
  <1>1. JobType(lobbyJob, LobbyStepName) /\ JobType(startJob, StartStepName) /\ clean \in BOOLEAN
    BY DEF StartInv, Shape
  <1>2. /\ \A step \in LobbyStepName : /\ lobbyJob.time # Null => JobType(Active(lobbyJob, step), LobbyStepName)
                                       /\ Active(lobbyJob, step).time = lobbyJob.time
                                       /\ Active(lobbyJob, step).state = "active"
                                       /\ Active(lobbyJob, step).step = step
        /\ JobType(FailedAttempt(lobbyJob, NoJob), LobbyStepName)
    <2>1. "none" \notin LobbyStepName
      OBVIOUS
    <2> HIDE DEF LobbyStepName
    <2> QED BY <1>1, <2>1, JobStepTypes
  <1>3. NoJob.step = "none" /\ NoJob.state = "none" /\ JobType(NoJob, LobbyStepName)
    BY NewJobTypes DEF NoJob, Now
  <1>4. FailedAttempt(lobbyJob, NoJob).step = "none"
    BY DEF FailedAttempt, NoJob, DelayedJob
  <1>5. CASE WakeLobby
    <2>1. /\ lobbyJob' = Active(lobbyJob, "open") /\ clean' = (clean /\ ~PutInFlight) /\ startJob' = startJob
          /\ RoutesRest
      BY <1>5 DEF WakeLobby, RoutesRest, scheduleVars
    <2>2. clean' \in BOOLEAN /\ lobbyJob.time # Null
      BY <1>1, <1>5, <2>1 DEF WakeLobby, JobType
    <2> QED BY <1>1, <1>2, <2>1, <2>2, JobsKeepInv DEF CleanSchedule
  <1>6. CASE openScheduledLobby
    <2>1. lobbyJob.state = "active" /\ RoutesRest /\ startJob' = startJob /\ clean' = clean
      BY <1>1, <1>6 DEF openScheduledLobby, RoutesRest, JobType
    <2>2. CASE startAt = Null
      <3>1. JobType(lobbyJob', LobbyStepName) /\ lobbyJob'.step = "none" /\ lobbyJob'.state # "active"
        BY <1>2, <1>3, <1>4, <1>6, <2>2 DEF openScheduledLobby, JobType
      <3> QED BY <1>1, <2>1, <3>1, JobsKeepInv DEF CleanSchedule, NoneActive
    <2>3. CASE startAt # Null
      <3>1. lobbyJob' = [Active(lobbyJob, "remove") EXCEPT !.time = startAt]
        BY <1>6, <2>3 DEF openScheduledLobby
      <3>2. JobType(lobbyJob', LobbyStepName) /\ lobbyJob'.time = startAt
        <4>1. JobType(Active(lobbyJob, "remove"), LobbyStepName) /\ startAt \in {Now} \cup Time
          BY <1>1, <1>2, <2>1, <2>3 DEF JobType, StartInv, Shape
        <4> QED BY <2>3, <3>1, <4>1 DEF JobType
      <3> QED BY <1>1, <2>1, <3>1, <3>2, JobsKeepInv DEF CleanSchedule, NoneActive
    <2> QED BY <2>2, <2>3
  <1>7. CASE RemoveStart
    <2>1. /\ lobbyJob.step = "remove" /\ lobbyJob.state = "active" /\ RoutesRest /\ clean' = clean
          /\ startJob' = Removed(startJob) /\ lobbyJob' = Active(lobbyJob, "add")
          /\ lobbyJob.time # Null
      BY <1>1, <1>7 DEF RemoveStart, RoutesRest, scheduleVars, JobType
    <2>2. JobType(startJob', StartStepName) /\ startJob'.state # "delayed"
      <3>1. "none" \notin StartStepName
        OBVIOUS
      <3>2. JobType(startJob', StartStepName)
        BY <1>1, <2>1, <3>1, JobStepTypes
      <3>3. startJob'.state # "delayed"
        BY <2>1 DEF Removed, NoJob
      <3> QED BY <3>2, <3>3
    <2>3. startJob'.state = "active" => startJob.state = "active"
      BY <2>1
    <2> QED BY <1>1, <1>2, <2>1, <2>2, <2>3, JobsKeepInv DEF CleanSchedule, NoneActive
  <1>8. CASE AddStart
    <2>1. /\ lobbyJob.step = "add" /\ lobbyJob.state = "active" /\ RoutesRest /\ clean' = clean
          /\ startJob' = Added(startJob, lobbyJob.time, 1) /\ lobbyJob' = Active(lobbyJob, "done")
          /\ lobbyJob.time \in {Now} \cup Time
      BY <1>1, <1>8 DEF AddStart, RoutesRest, scheduleVars, JobType
    <2>2. JobType(startJob', StartStepName)
      <3>1. "none" \notin StartStepName /\ 1 \in Int
        OBVIOUS
      <3> QED BY <1>1, <2>1, <3>1, JobStepTypes
    <2>3. startJob' = startJob \/ (startJob'.time = lobbyJob.time /\ startJob'.state = "delayed")
      BY <2>1
    <2>4. Null \notin {Now} \cup Time
      BY DEF Now, Time
    <2> QED BY <1>1, <1>2, <2>1, <2>2, <2>3, <2>4, JobsKeepInv DEF CleanSchedule, NoneActive
  <1>9. CASE CompleteLobby
    <2>1. /\ lobbyJob' = NoJob /\ RoutesRest /\ clean' = clean /\ startJob' = startJob
      BY <1>9 DEF CompleteLobby, RoutesRest, scheduleVars
    <2> QED BY <1>1, <1>3, <2>1, JobsKeepInv DEF CleanSchedule, NoneActive
  <1> QED BY <1>5, <1>6, <1>7, <1>8, <1>9 DEF LobbyStep

LEMMA StartStepKeepsInv ==
  ASSUME StartInv, StartStep
  PROVE  StartInv'
PROOF
  <1>1. JobType(lobbyJob, LobbyStepName) /\ JobType(startJob, StartStepName) /\ clean \in BOOLEAN
    BY DEF StartInv, Shape
  <1>2. \A step \in StartStepName : /\ startJob.time # Null => JobType(Active(startJob, step), StartStepName)
                                    /\ Active(startJob, step).state = "active"
    <2>1. "none" \notin StartStepName
      OBVIOUS
    <2> HIDE DEF StartStepName
    <2> QED BY <1>1, <2>1, JobStepTypes
  <1>3. JobType(NoJob, StartStepName) /\ NoJob.state = "none"
    BY NewJobTypes DEF NoJob, Now
  <1>4. CASE WakeStart
    <2>1. /\ startJob' = Active(startJob, "check") /\ clean' = (clean /\ ~PutInFlight) /\ lobbyJob' = lobbyJob
          /\ RoutesRest /\ startJob.state = "delayed" /\ distance[startJob.time] = "over"
      BY <1>4 DEF WakeStart, RoutesRest, scheduleVars
    <2>2. clean' \in BOOLEAN /\ startJob.time # Null
      BY <1>1, <2>1 DEF JobType
    <2>3. clean' => \A c \in RouteCall : call[c].phase # "remove"
      BY <2>1 DEF PutInFlight
    <2>4. JobType(startJob', StartStepName) /\ startJob'.state = "active"
      BY <1>2, <2>1, <2>2
    <2> QED BY <1>1, <2>1, <2>2, <2>3, <2>4, JobsKeepInv DEF CleanSchedule
  <1>5. CASE CheckStart
    <2>1. /\ startJob.state = "active" /\ startJob.time # Null /\ RoutesRest
          /\ lobbyJob' = lobbyJob /\ clean' = clean
      BY <1>1, <1>5 DEF CheckStart, RoutesRest, scheduleVars, JobType
    <2>2. JobType(startJob', StartStepName) /\ startJob'.state # "delayed"
      BY <1>2, <1>3, <1>5, <2>1 DEF CheckStart
    <2> QED BY <1>1, <2>1, <2>2, JobsKeepInv DEF CleanSchedule, NoneActive
  <1>6. CASE StartByJob
    <2>1. startJob.state = "active" /\ startJob.time # Null /\ UNCHANGED <<lobbyJob, call, clean>>
      BY <1>1, <1>6 DEF StartByJob, JobType
    <2>2. CASE status = "SCHEDULED"
      <3>1. /\ status' = "LIVE" /\ UNCHANGED <<startAt, distance>>
            /\ startJob' = Active(startJob, "publish")
        BY <1>6, <2>2 DEF StartByJob, StartedDraft
      <3>2. JobType(startJob', StartStepName)
        BY <1>2, <2>1, <3>1
      <3>3. Shape'
        BY <2>1, <3>1, <3>2 DEF StartInv, Shape, JobType, CallType, Now, Time
      <3> QED BY <3>1, <3>3 DEF StartInv
    <2>3. CASE status # "SCHEDULED"
      <3>1. startJob' = FailedAttempt(startJob, FailedStart) /\ RoutesRest
        BY <1>6, <2>1, <2>3 DEF StartByJob, RoutesRest, scheduleVars
      <3>2. JobType(startJob', StartStepName)
        <4>1. "none" \notin StartStepName
          OBVIOUS
        <4> HIDE DEF StartStepName
        <4> QED BY <1>1, <3>1, <4>1, JobStepTypes
      <3> QED BY <1>1, <2>1, <2>3, <3>1, <3>2, JobsKeepInv
    <2> QED BY <2>2, <2>3
  <1>7. CASE PublishStart
    <2>1. startJob' = NoJob /\ RoutesRest /\ lobbyJob' = lobbyJob /\ clean' = clean
      BY <1>7 DEF PublishStart, RoutesRest, scheduleVars
    <2> QED BY <1>1, <1>3, <2>1, JobsKeepInv DEF CleanSchedule, NoneActive
  <1> QED BY <1>4, <1>5, <1>6, <1>7 DEF StartStep

\* What is left of an attempt that failed: a job for now, or none that is active.
LEMMA FailedAttempts ==
  ASSUME NEW steps, "none" \notin steps, NEW job, JobType(job, steps)
  PROVE  /\ \A last \in {NoJob, FailedStart} :
              /\ JobType(FailedAttempt(job, last), steps)
              /\ FailedAttempt(job, last).state # "active" /\ FailedAttempt(job, last).step = "none"
         /\ job.time # Null => JobType(DelayedJob(Now, job.left), steps)
         /\ DelayedJob(Now, job.left).state = "delayed" /\ DelayedJob(Now, job.left).step = "none"
PROOF
  <1>1. job.left \in Int
    BY DEF JobType
  <1>2. JobType(DelayedJob(Now, job.left), steps)
    BY <1>1, NewJobTypes
  <1>3. \A last \in {NoJob, FailedStart} : JobType(FailedAttempt(job, last), steps)
    BY JobStepTypes
  <1>4. \A last \in {NoJob, FailedStart} :
           FailedAttempt(job, last).state # "active" /\ FailedAttempt(job, last).step = "none"
    BY DEF FailedAttempt, NoJob, FailedStart, DelayedJob
  <1> QED BY <1>2, <1>3, <1>4 DEF DelayedJob

\* A fault ends an attempt, or puts a job that had been handed out back for now.
LEMMA FaultKeepsInv ==
  ASSUME StartInv, JobFails \/ WorkerDies \/ LoseJob
  PROVE  StartInv'
PROOF
  <1>1. /\ JobType(lobbyJob, LobbyStepName) /\ JobType(startJob, StartStepName) /\ clean \in BOOLEAN
        /\ "none" \notin LobbyStepName /\ "none" \notin StartStepName
    BY DEF StartInv, Shape
  <1>2. RoutesRest
    BY DEF JobFails, WorkerDies, LoseJob, Fault, RoutesRest, scheduleVars
  <1>3. NoJob.state = "none" /\ NoJob.step = "none"
        /\ JobType(NoJob, LobbyStepName) /\ JobType(NoJob, StartStepName)
    BY <1>1, NewJobTypes DEF NoJob, Now
  <1>4. (clean' => clean) /\ clean' \in BOOLEAN
    <2>1. JobFails => clean' = clean \/ clean' = FALSE
      <3> HAVE JobFails
      <3>1. lobbyJob.left \in Int /\ startJob.left \in Int
        BY <1>1 DEF JobType
      <3>2. clean' = (clean /\ lobbyJob.left > 1) \/ clean' = (clean /\ startJob.left > 1)
        BY DEF JobFails
      <3>3. clean' = clean \/ clean' = FALSE
        BY <1>1, <3>1, <3>2
      <3> QED BY <3>3
    <2>2. WorkerDies \/ LoseJob => clean' = clean \/ clean' = FALSE
      BY DEF WorkerDies, LoseJob
    <2>3. clean \in BOOLEAN
      BY <1>1
    <2>4. CASE clean' = clean
      BY <2>3, <2>4, Zenon
    <2>5. CASE clean' = FALSE
      BY <2>5, Zenon
    <2> QED BY <2>1, <2>2, <2>4, <2>5
  <1>5. CASE lobbyJob.state \in {"active", "delayed"} /\ startJob' = startJob
             /\ lobbyJob' \in {NoJob, FailedAttempt(lobbyJob, NoJob), DelayedJob(Now, lobbyJob.left)}
    <2>1. lobbyJob.time # Null
      BY <1>1, <1>5 DEF JobType
    <2>2. JobType(lobbyJob', LobbyStepName) /\ lobbyJob'.state # "active" /\ lobbyJob'.step = "none"
      <3> HIDE DEF LobbyStepName
      <3>1. CASE lobbyJob' = NoJob
        BY <1>3, <3>1
      <3>2. CASE lobbyJob' = FailedAttempt(lobbyJob, NoJob)
        BY <1>1, <3>2, FailedAttempts
      <3>3. CASE lobbyJob' = DelayedJob(Now, lobbyJob.left)
        BY <1>1, <2>1, <3>3, FailedAttempts
      <3> QED BY <1>5, <3>1, <3>2, <3>3
    <2> QED BY <1>1, <1>2, <1>4, <1>5, <2>2, JobsKeepInv DEF CleanSchedule, NoneActive
  <1>6. CASE startJob.state = "active" /\ lobbyJob' = lobbyJob
             /\ startJob' \in {FailedAttempt(startJob, FailedStart), DelayedJob(Now, startJob.left)}
    <2>1. startJob.time # Null
      BY <1>1, <1>6 DEF JobType
    <2> HIDE DEF StartStepName
    <2>2. JobType(startJob', StartStepName) /\ startJob'.state # "active"
      BY <1>1, <1>6, <2>1, FailedAttempts
    <2> QED BY <1>1, <1>2, <1>4, <1>6, <2>2, JobsKeepInv DEF CleanSchedule, NoneActive
  <1>7. CASE lobbyJob' = lobbyJob /\ startJob' = NoJob
    BY <1>1, <1>2, <1>3, <1>4, <1>7, JobsKeepInv DEF CleanSchedule, NoneActive
  <1> QED BY <1>5, <1>6, <1>7 DEF JobFails, WorkerDies, LoseJob

LEMMA TimePassesKeepsInv ==
  ASSUME StartInv, NEW t \in Time, TimePasses(t)
  PROVE  StartInv'
PROOF
  <1>1. /\ distance[t] \in {"far", "soon"}
        /\ distance' = [distance EXCEPT ![t] = IF distance[t] = "far" THEN "soon" ELSE "over"]
        /\ UNCHANGED <<status, startAt, lobbyJob, startJob, call, clean>>
    BY DEF TimePasses
  <1>2. /\ distance' \in [{Now} \cup Time -> {"unused", "far", "soon", "over"}]
        /\ \A u \in {Now} \cup Time : distance[u] = "over" => distance'[u] = "over"
    BY <1>1 DEF StartInv, Shape
  <1>3. Shape'
    BY <1>1, <1>2 DEF StartInv, Shape, JobType, CallType, Now, Time
  <1>4. ASSUME CleanSchedule PROVE CleanSchedule'
    <2>1. distance[startAt] = "over" => distance'[startAt] = "over"
      BY <1>2, <1>4 DEF CleanSchedule
    <2>2. PutInFlight' => PutInFlight
      BY <1>1 DEF PutInFlight
    <2> QED BY <1>1, <1>4, <2>1, <2>2 DEF CleanSchedule, NoneActive, Rescheduling, Time
  <1> QED BY <1>1, <1>3, <1>4 DEF StartInv

LEMMA StepKeepsInv ==
  ASSUME StartInv, [StartNext]_startVars
  PROVE  StartInv'
PROOF
  <1>1. CASE UNCHANGED startVars
    BY <1>1 DEF startVars, scheduleVars, StartInv, Shape, CleanSchedule, JobType, CallType, PutInFlight,
                NoneActive, Rescheduling, Time
  <1>2. CASE StartNext
    BY <1>2, PutReadsKeepsInv, PutWritesKeepsInv, RemoveJobsKeepsInv, AddLobbyJobKeepsInv, DeleteKeepsInv,
       CommandsKeepInv, LobbyStepKeepsInv, StartStepKeepsInv, FaultKeepsInv, TimePassesKeepsInv
       DEF StartNext, RouteStep
  <1> QED BY <1>1, <1>2

-------------------------------------------------------------------------------
\* The inductive invariant holds: while the history is clean, what waits and what runs
\* belongs to the time stored now (draftQueue.ts, scheduleDraftStart).
THEOREM StartInvariant == StartSpec => []StartInv
PROOF
  <1>1. StartInit => StartInv
    BY InitKeepsInv
  <1>2. StartInv /\ [StartNext]_startVars => StartInv'
    BY StepKeepsInv
  <1> QED BY <1>1, <1>2, PTL DEF StartSpec

\* A job starts a draft whose time was stored undisturbed only when that time is over,
\* whatever jobs, calls and faults there were before (enhancedDraftWorker.ts, draft:start).
THEOREM StartsInTime == StartSpec => StartsAtTheStoredTime
PROOF
  <1> DEFINE InTime == StartByJob /\ status = "SCHEDULED" /\ clean => distance[startAt] = "over"
  <1>1. StartInv => InTime
    <2>1. SUFFICES ASSUME StartInv, StartByJob, status = "SCHEDULED", clean
                   PROVE  distance[startAt] = "over"
      OBVIOUS
    <2>2. startJob.state = "active"
      BY <2>1 DEF StartByJob, StartInv, Shape, JobType
    <2> QED BY <2>1, <2>2 DEF StartInv, CleanSchedule
  <1>2. StartInv /\ [StartNext]_startVars => [InTime]_startVars
    BY <1>1
  <1> QED BY <1>2, StartInvariant, PTL DEF StartSpec, StartsAtTheStoredTime
===============================================================================
