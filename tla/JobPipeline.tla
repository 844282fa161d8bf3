----------------------------- MODULE JobPipeline -----------------------------
(***************************************************************************)
(* The life of a connector_sync job: the scheduler's polling tick or an    *)
(* API request writes a row in Postgres and adds a BullMQ job; a worker    *)
(* takes it, marks the row running, syncs the connector, records the       *)
(* outcome and moves the schedule on.                                      *)
(*                                                                         *)
(* Sources: job-schedule.service.ts, jobs.scheduler.ts, jobs-queue.worker  *)
(* .ts and job.repository.impl.ts.  Every database write and every Redis   *)
(* command is a step of its own: API requests, scheduler ticks and workers *)
(* interleave between them, processes die between them, and a database     *)
(* write can fail.  BullMQ is external and modelled by its delivery rules. *)
(* The wait for a processing permit (module ProcessingPermits) only delays *)
(* the step SaveRunning; the connector sync is one step that succeeds or   *)
(* throws (module ConnectorSync).                                          *)
(***************************************************************************)
EXTENDS Integers, FiniteSets

CONSTANTS
  Jobs,            (* job identifiers (fresh UUIDs in the code)             *)
  Schedules,       (* enabled schedules with a connector                    *)
  Schedulers,      (* API processes, each with one JobsScheduler            *)
  Clients,         (* API requests that run, retry or requeue jobs          *)
  Workers,         (* worker processes                                      *)
  RunTriggers,     (* values of trigger_type clients send to run a job      *)
  NoJob, NoSchedule, NoWorker,
  MaxStalledCount, (* redeliveries BullMQ allows a stalled job (default 1)  *)
  MaxAttempts,     (* attempts given to queue.add (3 in the code)           *)
  MaxTime,         (* bound: periods of 30 minutes that pass                *)
  MaxDbFailures,   (* bound: database writes that fail                      *)
  MaxApiCrashes,   (* bound: API processes that die in a request            *)
  MaxCrashes,      (* bound: worker processes that die in a job             *)
  MaxLockLosses,   (* bound: locks lost by a worker that is still running   *)
  MayPause         (* bound: whether an administrator pauses the queue      *)

Issuers == Schedulers \cup Clients

Triggers == {"manual", "scheduled", "manual_retry", "manual_requeue", "bulk_requeue"}

ASSUME PipelineAssumption ==
  /\ Schedulers \cap Clients = {} /\ RunTriggers \subseteq Triggers
  /\ NoJob \notin Jobs /\ NoSchedule \notin Schedules /\ NoWorker \notin Workers
  /\ MaxStalledCount \in Nat /\ MaxAttempts \in Nat \ {0}
  /\ MaxTime \in Nat /\ MaxDbFailures \in Nat /\ MaxApiCrashes \in Nat
  /\ MaxCrashes \in Nat /\ MaxLockLosses \in Nat /\ MayPause \in BOOLEAN

VARIABLES
  status,          (* jobs.job_status, "none" before the row exists         *)
  row,             (* the other columns of the row                          *)
  nextRun,         (* schedules.next_run_at, in periods                     *)
  now,             (* the clock, in periods                                 *)
  delivery, owner, stalledCount, attemptsMade, paused,      (* BullMQ       *)
  payload,         (* BullMQ: the data of each job                          *)
  deadLetters,     (* jobs with an entry in ankyra-jobs-dlq                 *)
  ipc, todo, order, pick,   (* issuers: next step, remaining work, the row  *)
                            (* to create, the identifier created            *)
  wpc, jobOf, finishedAt,   (* workers: next step, job in hand, clock read  *)
  outbox,          (* dead-letter entries a worker has still to send        *)
  source, everFailed, orphans,   (* history: clone's source, rows that      *)
                                 (* were failed, rows never enqueued        *)
  undone,          (* history: jobs of which a write failed after the last  *)
                   (* completion was recorded                               *)
  lostLetters,     (* history: jobs whose last dead-letter entry died with  *)
                   (* the worker that had still to send it                  *)
  dbFailures, apiCrashes, crashes, lockLosses

rowVars     == <<status, row, everFailed>>
timeVars    == <<nextRun, now>>
queueVars   == <<delivery, owner, stalledCount, attemptsMade, payload>>
issuerVars  == <<ipc, todo, order, pick, source, orphans>>
workerVars  == <<wpc, jobOf, finishedAt, undone>>
letterVars  == <<deadLetters, outbox, lostLetters>>
faultVars   == <<dbFailures, apiCrashes, crashes, lockLosses>>
vars == <<rowVars, timeVars, queueVars, paused, issuerVars, workerVars,
          letterVars, faultVars>>

(* What a row and a queue payload say of a job. *)
Columns == [trigger : Triggers, schedule : Schedules \cup {NoSchedule},
            connector : BOOLEAN, retries : Nat]
NoColumns == [trigger |-> "manual", schedule |-> NoSchedule,
              connector |-> FALSE, retries |-> 0]
Order == [columns : Columns, source : Jobs \cup {NoJob}]
NoOrder == [columns |-> NoColumns, source |-> NoJob]

TypeOK ==
  /\ status \in [Jobs -> {"none", "queued", "running", "completed", "failed"}]
  /\ row \in [Jobs -> Columns]
  /\ nextRun \in [Schedules -> Nat]
  /\ now \in 0..MaxTime
  /\ delivery \in [Jobs -> {"absent", "waiting", "active", "completed", "failed"}]
  /\ owner \in [Jobs -> Workers \cup {NoWorker}]
  /\ stalledCount \in [Jobs -> 0..(MaxStalledCount + 1)]
  /\ attemptsMade \in [Jobs -> 0..MaxAttempts]
  /\ paused \in BOOLEAN
  /\ payload \in [Jobs -> Columns]
  /\ deadLetters \in SUBSET Jobs
  /\ ipc \in [Issuers -> {"idle", "next", "save", "enqueue"}]
  /\ todo \in [Issuers -> SUBSET (Schedules \cup Jobs)]
  /\ order \in [Issuers -> Order]
  /\ pick \in [Issuers -> Jobs \cup {NoJob}]
  /\ wpc \in [Workers -> {"idle", "start", "sync", "complete", "advance", "fail",
                          "returned", "threw"}]
  /\ jobOf \in [Workers -> Jobs \cup {NoJob}]
  /\ finishedAt \in [Workers -> 0..MaxTime]
  /\ outbox \in [Workers -> SUBSET Jobs]
  /\ source \in [Jobs -> Jobs \cup {NoJob}]
  /\ everFailed \in SUBSET Jobs /\ orphans \in SUBSET Jobs
  /\ undone \in SUBSET Jobs /\ lostLetters \in SUBSET Jobs
  /\ dbFailures \in 0..MaxDbFailures /\ apiCrashes \in 0..MaxApiCrashes
  /\ crashes \in 0..MaxCrashes /\ lockLosses \in 0..MaxLockLosses

(* A schedule is created with next_run_at half an hour ahead. *)
Init ==
  /\ status = [j \in Jobs |-> "none"]
  /\ row = [j \in Jobs |-> NoColumns]
  /\ nextRun = [s \in Schedules |-> 1]
  /\ now = 0
  /\ delivery = [j \in Jobs |-> "absent"]
  /\ owner = [j \in Jobs |-> NoWorker]
  /\ stalledCount = [j \in Jobs |-> 0]
  /\ attemptsMade = [j \in Jobs |-> 0]
  /\ paused = FALSE
  /\ payload = [j \in Jobs |-> NoColumns]
  /\ deadLetters = {}
  /\ ipc = [i \in Issuers |-> "idle"]
  /\ todo = [i \in Issuers |-> {}]
  /\ order = [i \in Issuers |-> NoOrder]
  /\ pick = [i \in Issuers |-> NoJob]
  /\ wpc = [w \in Workers |-> "idle"]
  /\ jobOf = [w \in Workers |-> NoJob]
  /\ finishedAt = [w \in Workers |-> 0]
  /\ outbox = [w \in Workers |-> {}]
  /\ source = [j \in Jobs |-> NoJob]
  /\ everFailed = {} /\ orphans = {} /\ undone = {} /\ lostLetters = {}
  /\ dbFailures = 0 /\ apiCrashes = 0 /\ crashes = 0 /\ lockLosses = 0

-----------------------------------------------------------------------------
(* Issuers: the scheduler's tick and the API requests.                      *)

(* What an issuer does after one item of its list: the next item or return. *)
Finish(i, rest) ==
  /\ todo' = [todo EXCEPT ![i] = rest]
  /\ ipc' = [ipc EXCEPT ![i] = IF rest = {} THEN "idle" ELSE "next"]
  /\ pick' = [pick EXCEPT ![i] = NoJob]
  /\ order' = IF rest = {} THEN [order EXCEPT ![i] = NoOrder] ELSE order

Due == {s \in Schedules : nextRun[s] <= now}

(* JobsScheduler.tick: skipped while the previous tick runs; otherwise      *)
(* runDueSchedules lists the due schedules once and runs a job for each.    *)
Tick(i) ==
  /\ ipc[i] = "idle" /\ Due # {}
  /\ ipc' = [ipc EXCEPT ![i] = "next"]
  /\ todo' = [todo EXCEPT ![i] = Due]
  /\ UNCHANGED <<rowVars, timeVars, queueVars, paused, order, pick, source, orphans,
                 workerVars, letterVars, faultVars>>

(* A new row: runJob without retry_count, so that the column is 0. *)
NewJob(trigger, s, connector) ==
  [columns |-> [trigger |-> trigger, schedule |-> s, connector |-> connector,
                retries |-> 0],
   source |-> NoJob]

PickSchedule(i) ==
  /\ ipc[i] = "next"
  /\ \E s \in todo[i] :
       /\ todo' = [todo EXCEPT ![i] = @ \ {s}]
       /\ order' = [order EXCEPT ![i] = NewJob("scheduled", s, TRUE)]
  /\ ipc' = [ipc EXCEPT ![i] = "save"]
  /\ UNCHANGED <<rowVars, timeVars, queueVars, paused, pick, source, orphans,
                 workerVars, letterVars, faultVars>>

(* POST /jobs/run: schedule_id, connector_account_id and trigger_type are   *)
(* whatever the client sends, nothing relates them.                         *)
RunRequest(i) ==
  /\ ipc[i] = "idle"
  /\ \E trigger \in RunTriggers, s \in Schedules \cup {NoSchedule}, connector \in BOOLEAN :
       order' = [order EXCEPT ![i] = NewJob(trigger, s, connector)]
  /\ ipc' = [ipc EXCEPT ![i] = "save"]
  /\ UNCHANGED <<rowVars, timeVars, queueVars, paused, todo, pick, source, orphans,
                 workerVars, letterVars, faultVars>>

(* POST /jobs/:id/retry, /jobs/:id/requeue-failed, /jobs/requeue-failed-bulk. *)
CloneRequest(i, trigger, targets) ==
  /\ ipc[i] = "idle"
  /\ targets # {} /\ \A j \in targets : status[j] # "none"
  /\ trigger # "bulk_requeue" => Cardinality(targets) = 1
  /\ todo' = [todo EXCEPT ![i] = targets]
  /\ order' = [order EXCEPT ![i].columns.trigger = trigger]
  /\ ipc' = [ipc EXCEPT ![i] = "next"]
  /\ UNCHANGED <<rowVars, timeVars, queueVars, paused, pick, source, orphans,
                 workerVars, letterVars, faultVars>>

(* retryJob takes any job with a connector, the two requeues a failed one.   *)
ClonableAnyStatus(j, trigger) == row[j].connector
Clonable(j, trigger) ==
  row[j].connector /\ (trigger = "manual_retry" \/ status[j] = "failed")

(* enqueueClonedJob: the columns of the source with one more retry. *)
CloneCountsDown(j, trigger) ==
  [columns |-> [row[j] EXCEPT !.trigger = trigger, !.retries = @ - 1], source |-> j]
Clone(j, trigger) ==
  [columns |-> [row[j] EXCEPT !.trigger = trigger, !.retries = @ + 1], source |-> j]

(* findById of the next target.  A target that does not qualify makes a     *)
(* single request throw and a bulk request skip it.                         *)
ReadSource(i) ==
  /\ ipc[i] = "next"
  /\ \E j \in todo[i] :
       LET trigger == order[i].columns.trigger
           rest == todo[i] \ {j}
       IN  \/ /\ Clonable(j, trigger)
              /\ todo' = [todo EXCEPT ![i] = rest]
              /\ order' = [order EXCEPT ![i] = Clone(j, trigger)]
              /\ ipc' = [ipc EXCEPT ![i] = "save"]
              /\ UNCHANGED pick
           \/ /\ ~Clonable(j, trigger)
              /\ Finish(i, rest)
  /\ UNCHANGED <<rowVars, timeVars, queueVars, paused, source, orphans,
                 workerVars, letterVars, faultVars>>

(* Only a job with a connector goes to the queue. *)
NeedsQueueManualOnly(columns) == columns.connector /\ columns.trigger = "manual"
NeedsQueue(columns) == columns.connector

(* jobRepository.save of the row as queued, under a fresh identifier. *)
SaveQueued(i, j) ==
  /\ ipc[i] = "save" /\ status[j] = "none"
  /\ status' = [status EXCEPT ![j] = "queued"]
  /\ row' = [row EXCEPT ![j] = order[i].columns]
  /\ source' = [source EXCEPT ![j] = order[i].source]
  /\ IF NeedsQueue(order[i].columns)
     THEN /\ ipc' = [ipc EXCEPT ![i] = "enqueue"]
          /\ pick' = [pick EXCEPT ![i] = j]
          /\ UNCHANGED <<todo, order>>
     ELSE Finish(i, todo[i])
  /\ UNCHANGED <<everFailed, timeVars, queueVars, paused, orphans, workerVars,
                 letterVars, faultVars>>

(* queue.add with the identifier of the row and the row's columns as data.  *)
(* BullMQ ignores an identifier it already has.                             *)
Enqueue(i) ==
  LET j == pick[i]
  IN  /\ ipc[i] = "enqueue"
      /\ delivery' = [delivery EXCEPT ![j] = IF @ = "absent" THEN "waiting" ELSE @]
      /\ payload' = [payload EXCEPT ![j] =
                       IF delivery[j] = "absent" THEN order[i].columns ELSE @]
      /\ Finish(i, todo[i])
      /\ UNCHANGED <<rowVars, timeVars, owner, stalledCount, attemptsMade, paused,
                     source, orphans, workerVars, letterVars, faultVars>>

(* A database call of the request fails: the exception ends the request, or *)
(* the whole tick, whatever was left on its list.                           *)
FailRequest(i) ==
  /\ dbFailures < MaxDbFailures
  /\ ipc[i] = "save" \/ (ipc[i] = "next" /\ i \in Clients)
  /\ dbFailures' = dbFailures + 1
  /\ Finish(i, {})
  /\ UNCHANGED <<rowVars, timeVars, queueVars, paused, source, orphans, workerVars,
                 letterVars, apiCrashes, crashes, lockLosses>>

(* The API process dies in the request; a row already saved stays. *)
ApiCrash(i) ==
  /\ apiCrashes < MaxApiCrashes
  /\ ipc[i] # "idle"
  /\ apiCrashes' = apiCrashes + 1
  /\ orphans' = IF ipc[i] = "enqueue" THEN orphans \cup {pick[i]} ELSE orphans
  /\ Finish(i, {})
  /\ UNCHANGED <<rowVars, timeVars, queueVars, paused, source, workerVars,
                 letterVars, dbFailures, crashes, lockLosses>>

-----------------------------------------------------------------------------
(* Workers: the processor of JobsQueueWorker around processQueuedJob.       *)

Leave(w, from, to) == wpc[w] = from /\ wpc' = [wpc EXCEPT ![w] = to]

(* BullMQ delivers a waiting job, unless the queue is paused. *)
Take(w, j) ==
  /\ ~paused /\ delivery[j] = "waiting"
  /\ Leave(w, "idle", "start")
  /\ jobOf' = [jobOf EXCEPT ![w] = j]
  /\ delivery' = [delivery EXCEPT ![j] = "active"]
  /\ owner' = [owner EXCEPT ![j] = w]
  /\ UNCHANGED <<rowVars, timeVars, stalledCount, attemptsMade, payload, paused,
                 issuerVars, finishedAt, undone, letterVars, faultVars>>

(* First write of processQueuedJob, outside its try: every column of the    *)
(* row is rewritten from the payload.                                       *)
RunningColumnsNoCount(j) == [payload[j] EXCEPT !.retries = 0]
RunningColumns(j) == payload[j]

SaveRunning(w) ==
  /\ Leave(w, "start", "sync")
  /\ status' = [status EXCEPT ![jobOf[w]] = "running"]
  /\ row' = [row EXCEPT ![jobOf[w]] = RunningColumns(jobOf[w])]
  /\ UNCHANGED <<everFailed, timeVars, queueVars, paused, issuerVars, jobOf,
                 finishedAt, undone, letterVars, faultVars>>

(* syncConnector returns or throws. *)
Sync(w) ==
  /\ Leave(w, "sync", "complete") \/ Leave(w, "sync", "fail")
  /\ UNCHANGED <<rowVars, timeVars, queueVars, paused, issuerVars, jobOf, finishedAt,
                 undone, letterVars, faultVars>>

(* The clock is read, the row is completed; a job of a schedule goes on.    *)
SaveCompleted(w) ==
  /\ Leave(w, "complete", IF payload[jobOf[w]].schedule = NoSchedule
                          THEN "returned" ELSE "advance")
  /\ status' = [status EXCEPT ![jobOf[w]] = "completed"]
  /\ undone' = undone \ {jobOf[w]}
  /\ finishedAt' = [finishedAt EXCEPT ![w] = now]
  /\ UNCHANGED <<row, everFailed, timeVars, queueVars, paused, issuerVars, jobOf,
                 letterVars, faultVars>>

(* The schedule is read and saved half an hour past the finish. *)
AdvanceSchedule(w) ==
  /\ Leave(w, "advance", "returned")
  /\ nextRun' = [nextRun EXCEPT ![payload[jobOf[w]].schedule] = finishedAt[w] + 1]
  /\ UNCHANGED <<rowVars, now, queueVars, paused, issuerVars, jobOf, finishedAt,
                 undone, letterVars, faultVars>>

(* The catch clause saves the row as failed and swallows the error. *)
AfterSaveFailedRethrown == "threw"
AfterSaveFailed == "returned"

SaveFailed(w) ==
  /\ Leave(w, "fail", AfterSaveFailed)
  /\ status' = [status EXCEPT ![jobOf[w]] = "failed"]
  /\ everFailed' = everFailed \cup {jobOf[w]}
  /\ UNCHANGED <<row, timeVars, queueVars, paused, issuerVars, jobOf, finishedAt,
                 undone, letterVars, faultVars>>

(* A database write of the worker fails: inside the try the catch clause    *)
(* runs, outside it the exception reaches BullMQ.                           *)
AfterFailedWriteSwallowed(w) ==
  IF wpc[w] \in {"complete", "advance"} THEN "fail" ELSE "returned"
AfterFailedWrite(w) == IF wpc[w] \in {"complete", "advance"} THEN "fail" ELSE "threw"

WriteFails(w) ==
  /\ dbFailures < MaxDbFailures
  /\ wpc[w] \in {"start", "complete", "advance", "fail"}
  /\ dbFailures' = dbFailures + 1
  /\ wpc' = [wpc EXCEPT ![w] = AfterFailedWrite(w)]
  /\ undone' = IF wpc[w] = "advance" THEN undone \cup {jobOf[w]} ELSE undone
  /\ UNCHANGED <<rowVars, timeVars, queueVars, paused, issuerVars, jobOf, finishedAt,
                 letterVars, apiCrashes, crashes, lockLosses>>

(* The dead-letter entry the failed handler sends after attempt number made. *)
SentOnFailure(w, j) == outbox[w] \cup {j}

(* The processor ended.  BullMQ records the outcome if the worker still has *)
(* the lock: completed; or one more failed attempt, after which the job     *)
(* waits again or has failed, and the failed handler of the worker runs.    *)
Outcome(w) ==
  LET j == jobOf[w]
      mine == owner[j] = w
      threw == wpc[w] = "threw"
      made == attemptsMade[j] + 1
  IN  /\ wpc[w] \in {"returned", "threw"}
      /\ wpc' = [wpc EXCEPT ![w] = "idle"]
      /\ jobOf' = [jobOf EXCEPT ![w] = NoJob]
      /\ finishedAt' = [finishedAt EXCEPT ![w] = 0]
      /\ owner' = IF mine THEN [owner EXCEPT ![j] = NoWorker] ELSE owner
      /\ attemptsMade' =
           IF mine /\ threw THEN [attemptsMade EXCEPT ![j] = made] ELSE attemptsMade
      /\ delivery' =
           IF ~mine THEN delivery
           ELSE [delivery EXCEPT ![j] = IF ~threw THEN "completed"
                                        ELSE IF made < MaxAttempts THEN "waiting"
                                        ELSE "failed"]
      /\ outbox' = IF mine /\ threw
                   THEN [outbox EXCEPT ![w] = SentOnFailure(w, j)] ELSE outbox
      /\ lostLetters' = IF mine /\ threw THEN lostLetters \ {j} ELSE lostLetters
      /\ UNCHANGED <<rowVars, timeVars, stalledCount, payload, paused, issuerVars,
                     undone, deadLetters, faultVars>>

(* enqueueDeadLetterJob, called without await. *)
SendDeadLetter(w, j) ==
  /\ j \in outbox[w]
  /\ outbox' = [outbox EXCEPT ![w] = @ \ {j}]
  /\ deadLetters' = deadLetters \cup {j}
  /\ UNCHANGED <<rowVars, timeVars, queueVars, paused, issuerVars, workerVars, lostLetters,
                 faultVars>>

(* A worker process dies and is started again, with nothing in memory. *)
Crash(w) ==
  LET j == jobOf[w]
  IN  /\ crashes < MaxCrashes
      /\ wpc[w] # "idle" \/ outbox[w] # {}
      /\ crashes' = crashes + 1
      /\ wpc' = [wpc EXCEPT ![w] = "idle"]
      /\ jobOf' = [jobOf EXCEPT ![w] = NoJob]
      /\ finishedAt' = [finishedAt EXCEPT ![w] = 0]
      /\ outbox' = [outbox EXCEPT ![w] = {}]
      /\ lostLetters' = lostLetters \cup outbox[w]
      /\ owner' = IF j \in Jobs /\ owner[j] = w
                  THEN [owner EXCEPT ![j] = NoWorker] ELSE owner
      /\ UNCHANGED <<rowVars, timeVars, delivery, stalledCount, attemptsMade, payload,
                     paused, issuerVars, undone, deadLetters, dbFailures, apiCrashes,
                     lockLosses>>

(* The dead-letter entry the stalled handler of worker v sends. *)
SentOnStallNever(v, j) == outbox[v]
SentOnStall(v, j) == outbox[v] \cup {j}

(* The stalled check of worker v finds the job without a lock: back to the  *)
(* queue, or failed for good; the stalled handler of v runs.                *)
Redeliver(v, j) ==
  /\ delivery[j] = "active"
  /\ stalledCount' = [stalledCount EXCEPT ![j] = @ + 1]
  /\ delivery' = [delivery EXCEPT ![j] =
                    IF stalledCount[j] < MaxStalledCount THEN "waiting" ELSE "failed"]
  /\ owner' = [owner EXCEPT ![j] = NoWorker]
  /\ outbox' = [outbox EXCEPT ![v] = SentOnStall(v, j)]
  /\ lostLetters' = lostLetters \ {j}
  /\ UNCHANGED <<rowVars, timeVars, attemptsMade, payload, paused, issuerVars,
                 workerVars, deadLetters, dbFailures, apiCrashes, crashes>>

StalledByCrash(v, j) ==
  owner[j] = NoWorker /\ Redeliver(v, j) /\ UNCHANGED lockLosses

LoseLock(v, j) ==
  /\ owner[j] # NoWorker
  /\ lockLosses < MaxLockLosses
  /\ lockLosses' = lockLosses + 1
  /\ Redeliver(v, j)

-----------------------------------------------------------------------------
(* The administrator's pause and resume, and the clock. *)
PauseOrResume ==
  /\ MayPause
  /\ paused' = ~paused
  /\ UNCHANGED <<rowVars, timeVars, queueVars, issuerVars, workerVars, letterVars,
                 faultVars>>

PeriodPasses ==
  /\ now < MaxTime
  /\ now' = now + 1
  /\ UNCHANGED <<rowVars, nextRun, queueVars, paused, issuerVars, workerVars,
                 letterVars, faultVars>>

-----------------------------------------------------------------------------
Request(i) ==
  \/ RunRequest(i)
  \/ \E trigger \in Triggers \ {"manual", "scheduled"}, targets \in SUBSET Jobs :
       CloneRequest(i, trigger, targets)

(* What an issuer does on its own once it has something to do. *)
IssuerStep(i) ==
  \/ i \in Schedulers /\ PickSchedule(i)
  \/ i \in Clients /\ ReadSource(i)
  \/ \E j \in Jobs : SaveQueued(i, j)
  \/ Enqueue(i)

WorkerStep(w) ==
  \/ \E j \in Jobs : Take(w, j)
  \/ SaveRunning(w) \/ Sync(w) \/ SaveCompleted(w) \/ AdvanceSchedule(w)
  \/ SaveFailed(w) \/ Outcome(w)

Next ==
  \/ \E i \in Schedulers : Tick(i)
  \/ \E i \in Clients : Request(i)
  \/ \E i \in Issuers : IssuerStep(i) \/ FailRequest(i) \/ ApiCrash(i)
  \/ \E w \in Workers : WorkerStep(w) \/ WriteFails(w) \/ Crash(w)
  \/ \E w \in Workers, j \in Jobs :
       SendDeadLetter(w, j) \/ StalledByCrash(w, j) \/ LoseLock(w, j)
  \/ PauseOrResume \/ PeriodPasses

Spec == Init /\ [][Next]_vars

(* Fairness: started requests and ticks go on, live workers keep taking and *)
(* processing, and BullMQ's stalled check is a periodic timer.  Requests,   *)
(* pauses, faults and the clock owe nothing.                                *)
Fairness ==
  /\ \A i \in Issuers : WF_vars(IssuerStep(i))
  /\ \A w \in Workers : WF_vars(WorkerStep(w))
  /\ \A j \in Jobs : WF_vars(\E v \in Workers : StalledByCrash(v, j))

FairSpec == Spec /\ Fairness

-----------------------------------------------------------------------------
(* Properties. *)

Settled(j) == status[j] \in {"completed", "failed"}
InFlight(j) == \E w \in Workers : jobOf[w] = j

(* runJob and enqueueClonedJob save the row first and enqueue it second: a  *)
(* row that says queued has a BullMQ job, or its issuer is about to add it, *)
(* or the API process died between the two.                                 *)
QueuedRowsReachQueue ==
  \A j \in Jobs :
    status[j] = "queued" /\ row[j].connector /\ delivery[j] = "absent" =>
      \/ j \in orphans
      \/ \E i \in Issuers : ipc[i] = "enqueue" /\ pick[i] = j

(* A job has an entry in the dead-letter queue, or one on the way to it. *)
Lettered(j) == j \in deadLetters \/ \E w \in Workers : j \in outbox[w]

(* A row that will stay queued or running for ever, because BullMQ is done  *)
(* with its job and no worker has it, has a dead-letter entry, or one on    *)
(* the way, whichever workers died or lost their locks: unless the last     *)
(* entry of this very job was in the memory of a worker that died.          *)
StuckRowsAreDeadLettered ==
  \A j \in Jobs :
    status[j] \in {"queued", "running"} /\ delivery[j] \in {"completed", "failed"} =>
      InFlight(j) \/ Lettered(j) \/ j \in lostLetters

(* Retries and requeues count: the retry_count of a row is one more than    *)
(* that of the row it was cloned from, also after a worker rewrote the row  *)
(* from the queue payload.                                                  *)
RetriesCountLineage ==
  \A j \in Jobs :
    status[j] # "none" =>
      row[j].retries = IF source[j] = NoJob THEN 0 ELSE row[source[j]].retries + 1

(* A requeue, single or bulk, only ever clones a job that had failed, even  *)
(* though the source's row can change between the check and the clone.  (A  *)
(* row without a source may say requeue too: clients name the trigger.)     *)
RequeuedHadFailed ==
  \A j \in Jobs :
    /\ status[j] # "none" /\ source[j] # NoJob
    /\ row[j].trigger \in {"manual_requeue", "bulk_requeue"}
    => source[j] \in everFailed

(* The recorded outcome of a job stands: a failed row changes again only if *)
(* BullMQ redelivered the job; a completed row only then, or if the run     *)
(* that completed it then failed to save the schedule of the job.           *)
OutcomeStands ==
  [][\A j \in Jobs :
       /\ status[j] = "failed" /\ status'[j] # "failed" => stalledCount[j] > 0
       /\ status[j] = "completed" /\ status'[j] # "completed" =>
            stalledCount[j] > 0 \/ j \in undone]_vars

(* processQueuedJob swallows what a sync throws, so BullMQ's attempts and    *)
(* redeliveries of a job count faults around the sync only: no more failed  *)
(* attempts than failed database writes, no more stalls than worker deaths  *)
(* and lost locks.                                                          *)
CountersCountFaults ==
  \A j \in Jobs :
    attemptsMade[j] <= dbFailures /\ stalledCount[j] <= crashes + lockLosses

(* ... so BullMQ gives a job up only after that many faults ...             *)
GivenUpForFaults ==
  \A j \in Jobs :
    delivery[j] = "failed" =>
      dbFailures >= MaxAttempts \/ crashes + lockLosses > MaxStalledCount

(* ... and a job has a dead-letter entry, or one on the way, only if one of *)
(* its own attempts failed or one of its own runs was found stalled.        *)
LettersHaveCauses ==
  \A j \in Jobs : Lettered(j) => attemptsMade[j] > 0 \/ stalledCount[j] > 0

(* The two stores agree on a job that was never found stalled: when BullMQ  *)
(* has it completed, its row is completed or failed.                        *)
CompletedJobsAreSettled ==
  \A j \in Jobs : delivery[j] = "completed" /\ stalledCount[j] = 0 => Settled(j)

(* A job whose row says queued is eventually completed or failed, if the    *)
(* queue is not paused: through a crash of a worker and through failing     *)
(* writes, as long as they are fewer than the attempts of the job.          *)
QueuedJobsSettle ==
  \A j \in Jobs :
    (status[j] = "queued" /\ row[j].connector) ~> (Settled(j) \/ paused)

(* Whatever requests, schedulers, queue, workers and faults do, the table   *)
(* of jobs keeps what it promises: rows are written once, jobs without a    *)
(* connector are never run, and a row that has a source is its clone.       *)
Ledger == INSTANCE JobLedger
ImplementsLedger == Ledger!Spec

(* What the web console calls a schedule of every 30 minutes: at most one   *)
(* scheduled job for each period that has passed.                           *)
EveryThirtyMinutes ==
  \A s \in Schedules :
    Cardinality({j \in Jobs : /\ status[j] # "none" /\ row[j].trigger = "scheduled"
                              /\ row[j].schedule = s}) <= now
=============================================================================
