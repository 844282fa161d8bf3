-------------------------- MODULE ProcessingPermits --------------------------
(***************************************************************************)
(* The gate every worker process passes before it runs a job: the methods  *)
(* waitForProcessingPermit, tryAcquireProcessingPermit and                 *)
(* releaseProcessingPermit of job-queue.service.ts, called by the          *)
(* processor of jobs-queue.worker.ts, with updateQueueSettings as the      *)
(* operation that changes the limits under it.                             *)
(*                                                                         *)
(* Each Redis command is one step.  Between the commands of one worker the *)
(* other workers, the administrators and the clock run.  BullMQ is         *)
(* external: a job is delivered to one worker at a time, redelivered when  *)
(* its lock is lost (worker dead, or alive but late), and failed for good  *)
(* after too many losses or attempts.  What the job does is abstract here  *)
(* (module JobPipeline models it).                                         *)
(***************************************************************************)
EXTENDS Integers, FiniteSets

CONSTANTS
  Workers,         (* worker processes; BullMQ runs one job in each         *)
  Jobs,            (* identifiers of the jobs the queue delivers            *)
  Admins,          (* API requests that update the queue settings           *)
  NoJob, NoWorker, NoDraft,
  MaxConcurrency,  (* largest concurrency an administrator sets             *)
  MaxRate,         (* largest rate per minute an administrator sets         *)
  MaxStalledCount, (* redeliveries BullMQ allows a stalled job (default 1)  *)
  MaxAttempts,     (* attempts given to queue.add (3 in the code)           *)
  MaxCrashes,      (* bound: worker crashes                                 *)
  MaxLockLosses    (* bound: locks lost by a worker that is still running   *)

ASSUME PermitsAssumption ==
  /\ IsFiniteSet(Workers) /\ Workers # {}
  /\ NoJob \notin Jobs /\ NoWorker \notin Workers
  /\ MaxConcurrency \in Nat \ {0} /\ MaxRate \in Nat \ {0}
  /\ NoDraft \notin [concurrency : 1..MaxConcurrency, rate : 1..MaxRate]
  /\ MaxStalledCount \in Nat /\ MaxAttempts \in Nat \ {0}
  /\ MaxCrashes \in Nat /\ MaxLockLosses \in Nat

VARIABLES
  settings,        (* the value of ankyra:queue:settings                    *)
  activeJobs,      (* the Redis set ankyra:queue:active_jobs                *)
  rateCount,       (* the counter of the current minute                     *)
  delivery,        (* BullMQ: where each job is                             *)
  owner,           (* BullMQ: the worker whose lock token each job has      *)
  stalledCount,    (* BullMQ: times each job was found stalled              *)
  attemptsMade,    (* BullMQ: failed attempts of each job                   *)
  pc, jobOf, seen, (* workers: next command, job in hand, values read       *)
  draft,           (* administrators: settings read and merged, not stored  *)
  crashes, lockLosses

gateVars  == <<settings, activeJobs, rateCount>>
queueVars == <<delivery, owner, stalledCount, attemptsMade>>
faultVars == <<crashes, lockLosses>>
vars == <<gateVars, queueVars, pc, jobOf, seen, draft, faultVars>>

Settings == [concurrency : 1..MaxConcurrency, rate : 1..MaxRate]
NothingSeen == [limits |-> [concurrency |-> 1, rate |-> 1],
                room |-> FALSE, quota |-> FALSE]

TypeOK ==
  /\ settings \in Settings
  /\ activeJobs \in SUBSET Jobs
  /\ rateCount \in Nat
  /\ delivery \in [Jobs -> {"waiting", "active", "completed", "failed"}]
  /\ owner \in [Jobs -> Workers \cup {NoWorker}]
  /\ stalledCount \in [Jobs -> 0..(MaxStalledCount + 1)]
  /\ attemptsMade \in [Jobs -> 0..MaxAttempts]
  /\ pc \in [Workers -> {"idle", "settings", "scard", "rate", "member",
                         "grant", "process", "ack"}]
  /\ jobOf \in [Workers -> Jobs \cup {NoJob}]
  /\ seen \in [Workers -> [limits : Settings, room : BOOLEAN, quota : BOOLEAN]]
  /\ draft \in [Admins -> Settings \cup {NoDraft}]
  /\ crashes \in 0..MaxCrashes /\ lockLosses \in 0..MaxLockLosses

Init ==
  /\ settings \in Settings
  /\ activeJobs = {} /\ rateCount = 0
  /\ delivery = [j \in Jobs |-> "waiting"]
  /\ owner = [j \in Jobs |-> NoWorker]
  /\ stalledCount = [j \in Jobs |-> 0]
  /\ attemptsMade = [j \in Jobs |-> 0]
  /\ pc = [w \in Workers |-> "idle"]
  /\ jobOf = [w \in Workers |-> NoJob]
  /\ seen = [w \in Workers |-> NothingSeen]
  /\ draft = [a \in Admins |-> NoDraft]
  /\ crashes = 0 /\ lockLosses = 0

-----------------------------------------------------------------------------
(* Worker steps. *)

GoTo(w, from, to) == pc[w] = from /\ pc' = [pc EXCEPT ![w] = to]

(* BullMQ hands a waiting job to an idle worker and locks it for it. *)
Take(w, j) ==
  /\ delivery[j] = "waiting"
  /\ GoTo(w, "idle", "settings")
  /\ jobOf' = [jobOf EXCEPT ![w] = j]
  /\ delivery' = [delivery EXCEPT ![j] = "active"]
  /\ owner' = [owner EXCEPT ![j] = w]
  /\ UNCHANGED <<gateVars, stalledCount, attemptsMade, seen, draft, faultVars>>

(* GET of the settings, first line of tryAcquireProcessingPermit. *)
ReadSettings(w) ==
  /\ GoTo(w, "settings", "scard")
  /\ seen' = [seen EXCEPT ![w].limits = settings]
  /\ UNCHANGED <<gateVars, queueVars, jobOf, draft, faultVars>>

(* The three reads of the Promise.all: SCARD, GET of the minute's counter, *)
(* SISMEMBER.  Only the comparison each count is used for is kept.         *)
HasRoomOffByOne(limits) == Cardinality(activeJobs) <= limits.concurrency
HasRoom(limits) == Cardinality(activeJobs) < limits.concurrency

HasQuotaOffByOne(limits) == rateCount <= limits.rate
HasQuota(limits) == rateCount < limits.rate

ReadActiveCount(w) ==
  /\ GoTo(w, "scard", "rate")
  /\ seen' = [seen EXCEPT ![w].room = HasRoom(seen[w].limits)]
  /\ UNCHANGED <<gateVars, queueVars, jobOf, draft, faultVars>>

ReadRateCount(w) ==
  /\ GoTo(w, "rate", "member")
  /\ seen' = [seen EXCEPT ![w].quota = HasQuota(seen[w].limits)]
  /\ UNCHANGED <<gateVars, queueVars, jobOf, draft, faultVars>>

(* The job is already a member: acquired, and nothing is written. *)
AlreadyActive(w) ==
  /\ jobOf[w] \in activeJobs
  /\ GoTo(w, "member", "process")
  /\ seen' = [seen EXCEPT ![w] = NothingSeen]
  /\ UNCHANGED <<gateVars, queueVars, jobOf, draft, faultVars>>

(* No room or no quota: sleep, then start over in waitForProcessingPermit. *)
Refused(w) ==
  /\ jobOf[w] \notin activeJobs
  /\ ~(seen[w].room /\ seen[w].quota)
  /\ GoTo(w, "member", "settings")
  /\ seen' = [seen EXCEPT ![w] = NothingSeen]
  /\ UNCHANGED <<gateVars, queueVars, jobOf, draft, faultVars>>

Admitted(w) ==
  /\ jobOf[w] \notin activeJobs
  /\ seen[w].room /\ seen[w].quota
  /\ GoTo(w, "member", "grant")
  /\ UNCHANGED <<gateVars, queueVars, jobOf, seen, draft, faultVars>>

(* MULTI SADD, INCR, EXPIRE. *)
Grant(w) ==
  /\ GoTo(w, "grant", "process")
  /\ activeJobs' = activeJobs \cup {jobOf[w]}
  /\ rateCount' = rateCount + 1
  /\ seen' = [seen EXCEPT ![w] = NothingSeen]
  /\ UNCHANGED <<settings, queueVars, jobOf, draft, faultVars>>

(* processQueuedJob returned or threw; the finally clause releases. *)
ReleaseForgotten(w) == activeJobs
ReleaseByDel(w) == {}
ReleasedSet(w) == activeJobs \ {jobOf[w]}

Release(w) ==
  /\ GoTo(w, "process", "ack")
  /\ activeJobs' = ReleasedSet(w)
  /\ UNCHANGED <<settings, rateCount, queueVars, jobOf, seen, draft, faultVars>>

(* BullMQ records the outcome if the worker still has the lock: completed, *)
(* or, when the processor threw, waiting again until its attempts are over. *)
Ack(w, ok) ==
  LET j == jobOf[w]
      mine == owner[j] = w
      made == attemptsMade[j] + 1
  IN  /\ GoTo(w, "ack", "idle")
      /\ jobOf' = [jobOf EXCEPT ![w] = NoJob]
      /\ owner' = IF mine THEN [owner EXCEPT ![j] = NoWorker] ELSE owner
      /\ attemptsMade' =
           IF mine /\ ~ok THEN [attemptsMade EXCEPT ![j] = made] ELSE attemptsMade
      /\ delivery' =
           IF ~mine THEN delivery
           ELSE [delivery EXCEPT ![j] = IF ok THEN "completed"
                                        ELSE IF made < MaxAttempts THEN "waiting"
                                        ELSE "failed"]
      /\ UNCHANGED <<gateVars, stalledCount, seen, draft, faultVars>>

-----------------------------------------------------------------------------
(* Faults, the clock and the administrators. *)

(* A worker process dies and is started again.  Redis keeps its job in     *)
(* active_jobs, a set without expiry, if the permit was already granted.   *)
Crash(w) ==
  LET j == jobOf[w]
  IN  /\ crashes < MaxCrashes
      /\ pc[w] # "idle"
      /\ crashes' = crashes + 1
      /\ pc' = [pc EXCEPT ![w] = "idle"]
      /\ jobOf' = [jobOf EXCEPT ![w] = NoJob]
      /\ seen' = [seen EXCEPT ![w] = NothingSeen]
      /\ owner' = IF owner[j] = w THEN [owner EXCEPT ![j] = NoWorker] ELSE owner
      /\ UNCHANGED <<gateVars, delivery, stalledCount, attemptsMade, draft,
                     lockLosses>>

(* BullMQ's stalled check puts the job back, or fails it after too many    *)
(* redeliveries.                                                           *)
Redeliver(j) ==
  /\ delivery[j] = "active"
  /\ stalledCount' = [stalledCount EXCEPT ![j] = @ + 1]
  /\ delivery' = [delivery EXCEPT ![j] =
                    IF stalledCount[j] < MaxStalledCount THEN "waiting" ELSE "failed"]
  /\ owner' = [owner EXCEPT ![j] = NoWorker]
  /\ UNCHANGED <<gateVars, attemptsMade, pc, jobOf, seen, draft, crashes>>

(* ... after the crash of its worker, *)
StalledByCrash(j) ==
  owner[j] = NoWorker /\ Redeliver(j) /\ UNCHANGED lockLosses

(* ... or while its worker is alive but did not renew the lock in time. *)
LoseLock(j) ==
  /\ owner[j] # NoWorker
  /\ lockLosses < MaxLockLosses
  /\ lockLosses' = lockLosses + 1
  /\ Redeliver(j)

MinuteTick ==
  /\ rateCount' = 0
  /\ UNCHANGED <<settings, activeJobs, queueVars, pc, jobOf, seen, draft, faultVars>>

(* updateQueueSettings reads the settings and merges the positive fields of *)
(* the request (0: absent or not positive) ...                              *)
UpdateInputs == [concurrency : 0..MaxConcurrency, rate : 0..MaxRate]

MergeWithoutPositiveCheck(input, current) == input
Merge(input, current) ==
  [concurrency |-> IF input.concurrency > 0 THEN input.concurrency
                   ELSE current.concurrency,
   rate |-> IF input.rate > 0 THEN input.rate ELSE current.rate]

BeginUpdate(a, input) ==
  /\ draft[a] = NoDraft
  /\ draft' = [draft EXCEPT ![a] = Merge(input, settings)]
  /\ UNCHANGED <<gateVars, queueVars, pc, jobOf, seen, faultVars>>

(* ... and stores the whole record in a second command. *)
StoreUpdate(a) ==
  /\ draft[a] # NoDraft
  /\ settings' = draft[a]
  /\ draft' = [draft EXCEPT ![a] = NoDraft]
  /\ UNCHANGED <<activeJobs, rateCount, queueVars, pc, jobOf, seen, faultVars>>

-----------------------------------------------------------------------------
WorkerStep(w) ==
  \/ \E j \in Jobs : Take(w, j)
  \/ ReadSettings(w) \/ ReadActiveCount(w) \/ ReadRateCount(w)
  \/ AlreadyActive(w) \/ Refused(w) \/ Admitted(w)
  \/ Grant(w) \/ Release(w)
  \/ \E ok \in BOOLEAN : Ack(w, ok)

Next ==
  \/ \E w \in Workers : WorkerStep(w) \/ Crash(w)
  \/ \E j \in Jobs : StalledByCrash(j) \/ LoseLock(j)
  \/ MinuteTick
  \/ \E a \in Admins : StoreUpdate(a) \/ \E input \in UpdateInputs : BeginUpdate(a, input)

Spec == Init /\ [][Next]_vars

(* Fairness: a live worker keeps running its event loop, BullMQ's stalled  *)
(* check is a periodic timer, and minutes pass.  Nobody has to crash, lose *)
(* a lock or update settings.                                              *)
Fairness ==
  /\ \A w \in Workers : WF_vars(WorkerStep(w))
  /\ \A j \in Jobs : WF_vars(StalledByCrash(j))
  /\ WF_vars(MinuteTick)

FairSpec == Spec /\ Fairness

-----------------------------------------------------------------------------
(* Properties. *)

(* Workers between a passing SCARD, or counter read, and their MULTI. *)
Undecided == {w \in Workers : pc[w] \in {"rate", "member", "grant"} /\ seen[w].room}
Unpaid == {w \in Workers : pc[w] \in {"member", "grant"} /\ seen[w].quota}

Capacity == MaxConcurrency - 1 + Cardinality(Workers)
RateCapacity == MaxRate - 1 + Cardinality(Workers)

(* The check and the SADD of tryAcquireProcessingPermit are not atomic, so  *)
(* active_jobs can exceed the configured concurrency; it never exceeds it   *)
(* by more than the number of worker processes less one, whatever crashes   *)
(* leak, however settings change, counting even the permits not yet added.  *)
ActiveBound == Cardinality(activeJobs) + Cardinality(Undecided) <= Capacity

(* The same for the jobs started in one minute and rate_limit_per_minute,   *)
(* including a worker that checked one minute and increments in the next.   *)
RateBound == rateCount + Cardinality(Unpaid) <= RateCapacity

(* A worker inside processQueuedJob whose job never lost its lock has the   *)
(* job in active_jobs, and is the only worker inside it: the release of a   *)
(* finished run never takes away the permit of the next attempt.            *)
PermitBacked ==
  \A w \in Workers :
    pc[w] = "process" /\ stalledCount[jobOf[w]] = 0 =>
      /\ jobOf[w] \in activeJobs
      /\ \A v \in Workers \ {w} : jobOf[v] # jobOf[w]

(* An entry of active_jobs is never left behind by a normal run: it belongs *)
(* to a worker inside processQueuedJob, or to a job that BullMQ lost or     *)
(* will find stalled because its worker died.                               *)
PermitsAccounted ==
  \A j \in activeJobs :
    \/ \E w \in Workers : jobOf[w] = j /\ pc[w] = "process"
    \/ delivery[j] = "active" /\ owner[j] = NoWorker
    \/ stalledCount[j] > 0

(* Against the settings in force, not the largest ones: the permits out are *)
(* above the configured concurrency by the racing workers at most, and the  *)
(* jobs of a minute above the configured rate (while the stored settings    *)
(* stay as they are: a lowered limit is below the permits already out).     *)
ConfiguredBound ==
  /\ Cardinality(activeJobs) + Cardinality(Undecided) <=
       settings.concurrency - 1 + Cardinality(Workers)
  /\ rateCount + Cardinality(Unpaid) <= settings.rate - 1 + Cardinality(Workers)

(* Permits of active_jobs that no worker inside processQueuedJob will       *)
(* release: a worker that died leaves behind the one it had, and nothing    *)
(* else leaves any, a lost lock or a failed attempt included.               *)
Orphaned ==
  {j \in activeJobs : \A w \in Workers : ~(jobOf[w] = j /\ pc[w] = "process")}

OrphansAreCrashes == Cardinality(Orphaned) <= crashes

(* What the setting's name says: no more jobs are being processed than the  *)
(* configured concurrency (stated while nobody changes the settings).       *)
ConcurrencyRespected == Cardinality(activeJobs) <= settings.concurrency

(* What the README says of the worker process, that it consumes the queue   *)
(* and executes its jobs: every job is settled in the end.                  *)
EveryJobSettles == \A j \in Jobs : <>(delivery[j] \in {"completed", "failed"})

(* A permit left behind by a worker that died or lost its lock, of a job no *)
(* worker has; and a gate these permits fill while nobody gives one back:   *)
(* their jobs have ended, or every worker polls the gate with another job.  *)
Leaked == {j \in activeJobs : stalledCount[j] > 0 /\ \A w \in Workers : jobOf[w] # j}

GateBlocked ==
  /\ Cardinality(Leaked) >= settings.concurrency
  /\ \A j \in Leaked :
       delivery[j] \in {"completed", "failed"} \/ \A w \in Workers : jobOf[w] # NoJob

(* It takes as many dead workers as the concurrency allows jobs to block    *)
(* the gate: lost locks, races and failed attempts never do.                *)
BlockedByCrashes == GateBlocked => crashes >= settings.concurrency

(* The gate only polls and keeps no queue of waiters, yet every job gets    *)
(* through and is settled, unless the gate is blocked in just that way for  *)
(* good (stated while nobody keeps changing the concurrency).               *)
JobsSettleUnlessBlocked ==
  (\A j \in Jobs : <>(delivery[j] \in {"completed", "failed"})) \/ <>[]GateBlocked

(* The gate implements a pool whose capacity is the configured limit plus   *)
(* the workers that can race through the check.                             *)
Pool == INSTANCE PermitPool WITH held <- activeJobs, used <- rateCount
ImplementsPool == Pool!Spec
=============================================================================
