-------------------------- MODULE JobPipelineProofs --------------------------
(***************************************************************************)
(* Proofs about JobPipeline for every set of jobs, schedules, API          *)
(* processes, requests and workers, and for any number of faults.          *)
(***************************************************************************)
EXTENDS JobPipeline, TLAPS

-----------------------------------------------------------------------------
(* The inductive invariant behind type correctness: who is busy knows its   *)
(* job; a job that can still be delivered is below its limits; a locked job *)
(* is active; a worker that goes on to a schedule has one.                  *)
WorkersBusy ==
  \A w \in Workers :
    /\ IF wpc[w] = "idle" THEN jobOf[w] = NoJob ELSE jobOf[w] \in Jobs
    /\ wpc[w] = "advance" => payload[jobOf[w]].schedule \in Schedules

IssuersBusy ==
  \A i \in Issuers :
    /\ ipc[i] = "enqueue" => pick[i] \in Jobs /\ order[i].columns.connector
    /\ IF i \in Schedulers THEN todo[i] \subseteq Schedules ELSE todo[i] \subseteq Jobs

QueueSound ==
  \A j \in Jobs :
    /\ delivery[j] \in {"waiting", "active"} =>
         stalledCount[j] <= MaxStalledCount /\ attemptsMade[j] < MaxAttempts
    /\ delivery[j] = "absent" =>
         /\ stalledCount[j] = 0 /\ attemptsMade[j] = 0
         /\ \A w \in Workers : jobOf[w] # j
    /\ owner[j] # NoWorker => delivery[j] = "active"

TInv == TypeOK /\ WorkersBusy /\ IssuersBusy /\ QueueSound

LEMMA NothingTyped == NoColumns \in Columns /\ NoOrder \in Order
  <1>1. NoColumns \in Columns
    BY DEF NoColumns, Columns, Triggers
  <1>2. QED BY <1>1 DEF NoOrder, Order

LEMMA InitTInv == Init => TInv
  <1> SUFFICES ASSUME Init PROVE TInv
    OBVIOUS
  <1>1. TypeOK
    <2> USE PipelineAssumption, NothingTyped DEF Init
    <2>1. row \in [Jobs -> Columns] /\ payload \in [Jobs -> Columns]
      OBVIOUS
    <2>2. order \in [Issuers -> Order]
      OBVIOUS
    <2>3. paused \in BOOLEAN
      OBVIOUS
    <2>4. QED BY <2>1, <2>2, <2>3 DEF TypeOK
  <1>2. WorkersBusy
    BY DEF Init, WorkersBusy
  <1>3. IssuersBusy
    BY DEF Init, IssuersBusy
  <1>4. QueueSound
    BY PipelineAssumption DEF Init, QueueSound
  <1>5. QED BY <1>1, <1>2, <1>3, <1>4 DEF TInv

(* Issuers touch rows and the queue only with SaveQueued and Enqueue.       *)
LEMMA RequestKeepsTInv ==
  ASSUME TInv, NEW i \in Issuers,
         \/ i \in Schedulers /\ Tick(i)
         \/ i \in Schedulers /\ PickSchedule(i)
         \/ i \in Clients /\ Request(i)
  PROVE  TInv'
  <1> USE PipelineAssumption DEF TInv, rowVars, timeVars, queueVars, workerVars,
        letterVars, faultVars
  <1>1. CASE i \in Schedulers /\ Tick(i)
    <2>1. TypeOK'
      BY <1>1 DEF Tick, TypeOK, Due
    <2>2. WorkersBusy' /\ QueueSound'
      BY <1>1 DEF Tick, WorkersBusy, QueueSound
    <2>3. IssuersBusy'
      BY <1>1 DEF Tick, IssuersBusy, TypeOK, Due
    <2>4. QED BY <2>1, <2>2, <2>3
  <1>2. ASSUME NEW s \in Schedules \cup {NoSchedule}, NEW connector \in BOOLEAN,
               NEW trigger \in Triggers
        PROVE NewJob(trigger, s, connector) \in Order
    BY <1>2 DEF NewJob, Order, Columns
  <1>3. CASE i \in Schedulers /\ PickSchedule(i)
    <2>1. PICK s \in todo[i] : /\ todo' = [todo EXCEPT ![i] = @ \ {s}]
                               /\ order' = [order EXCEPT ![i] = NewJob("scheduled", s, TRUE)]
      BY <1>3 DEF PickSchedule
    <2>2. s \in Schedules
      BY <1>3 DEF IssuersBusy
    <2>3. NewJob("scheduled", s, TRUE) \in Order
      BY <1>2, <2>2 DEF Triggers
    <2>4. order' \in [Issuers -> Order]
      BY <2>1, <2>3 DEF TypeOK
    <2>5. TypeOK'
      BY <1>3, <2>1, <2>4 DEF PickSchedule, TypeOK
    <2>6. WorkersBusy' /\ QueueSound'
      BY <1>3 DEF PickSchedule, WorkersBusy, QueueSound
    <2>7. IssuersBusy'
      BY <1>3, <2>1 DEF PickSchedule, IssuersBusy, TypeOK
    <2>8. QED BY <2>5, <2>6, <2>7
  <1>4. CASE i \in Clients /\ RunRequest(i)
    <2>1. PICK trigger \in RunTriggers, s \in Schedules \cup {NoSchedule},
               connector \in BOOLEAN :
            order' = [order EXCEPT ![i] = NewJob(trigger, s, connector)]
      BY <1>4 DEF RunRequest
    <2>2. NewJob(trigger, s, connector) \in Order
      BY <1>2
    <2>3. order' \in [Issuers -> Order]
      BY <2>1, <2>2 DEF TypeOK
    <2>4. TypeOK'
      BY <1>4, <2>3 DEF RunRequest, TypeOK
    <2>5. WorkersBusy' /\ QueueSound'
      BY <1>4 DEF RunRequest, WorkersBusy, QueueSound
    <2>6. IssuersBusy'
      BY <1>4, <2>1 DEF RunRequest, IssuersBusy, TypeOK
    <2>7. QED BY <2>4, <2>5, <2>6
  <1>5. ASSUME i \in Clients, NEW trigger \in Triggers, NEW targets \in SUBSET Jobs,
               CloneRequest(i, trigger, targets)
        PROVE TInv'
    <2>1. order' \in [Issuers -> Order]
      <3>1. [order[i] EXCEPT !.columns.trigger = trigger] \in Order
        <4>1. order[i] \in Order /\ order[i].columns \in Columns
          BY DEF TypeOK, Order
        <4>2. [order[i].columns EXCEPT !.trigger = trigger] \in Columns
          BY <4>1 DEF Columns
        <4>3. QED BY <4>1, <4>2 DEF Order
      <3>2. order' = [order EXCEPT ![i] = [order[i] EXCEPT !.columns.trigger = trigger]]
        BY <1>5 DEF CloneRequest, TypeOK
      <3>3. QED BY <3>1, <3>2 DEF TypeOK
    <2>2. TypeOK'
      BY <1>5, <2>1 DEF CloneRequest, TypeOK
    <2>3. WorkersBusy' /\ QueueSound'
      BY <1>5 DEF CloneRequest, WorkersBusy, QueueSound
    <2>4. IssuersBusy'
      BY <1>5 DEF CloneRequest, IssuersBusy, TypeOK
    <2>5. QED BY <2>2, <2>3, <2>4
  <1>6. QED BY <1>1, <1>3, <1>4, <1>5 DEF Request

LEMMA ReadSourceKeepsTInv ==
  ASSUME TInv, NEW i \in Clients, ReadSource(i)
  PROVE  TInv'
  <1> USE PipelineAssumption, NothingTyped
      DEF TInv, rowVars, timeVars, queueVars, workerVars, letterVars, faultVars, Issuers
  <1> PICK j \in todo[i] :
        LET trigger == order[i].columns.trigger
            rest == todo[i] \ {j}
        IN  \/ /\ Clonable(j, trigger)
               /\ todo' = [todo EXCEPT ![i] = rest]
               /\ order' = [order EXCEPT ![i] = Clone(j, trigger)]
               /\ ipc' = [ipc EXCEPT ![i] = "save"]
               /\ UNCHANGED pick
            \/ /\ ~Clonable(j, trigger)
               /\ Finish(i, rest)
    BY DEF ReadSource
  <1>1. j \in Jobs
    BY DEF IssuersBusy
  <1>2. Clone(j, order[i].columns.trigger) \in Order
    <2> DEFINE c == [row[j] EXCEPT !.trigger = order[i].columns.trigger, !.retries = @ + 1]
    <2>1. order[i].columns \in Columns /\ row[j] \in Columns
      BY <1>1 DEF TypeOK, Order
    <2>2. c \in Columns
      <3> DEFINE n == row[j].retries + 1
      <3>1. n \in Nat
        BY <2>1 DEF Columns
      <3>2. c = [row[j] EXCEPT !.trigger = order[i].columns.trigger, !.retries = n]
        BY <2>1 DEF Columns
      <3> HIDE DEF c, n
      <3>3. QED BY <2>1, <3>1, <3>2 DEF Columns
    <2>3. Clone(j, order[i].columns.trigger) = [columns |-> c, source |-> j]
      BY DEF Clone
    <2> HIDE DEF c
    <2>4. QED BY <1>1, <2>2, <2>3 DEF Order
  <1>3. /\ order' \in [Issuers -> Order] /\ todo' = [todo EXCEPT ![i] = @ \ {j}]
        /\ ipc' \in [Issuers -> {"idle", "next", "save", "enqueue"}]
        /\ \A k \in Issuers : ipc'[k] = "enqueue" =>
             ipc[k] = "enqueue" /\ pick'[k] = pick[k] /\ order'[k] = order[k]
        /\ pick' \in [Issuers -> Jobs \cup {NoJob}]
    BY <1>2 DEF TypeOK, Finish
  <1>4. TypeOK'
    BY <1>3 DEF ReadSource, TypeOK
  <1>5. WorkersBusy' /\ QueueSound'
    BY DEF ReadSource, WorkersBusy, QueueSound
  <1>6. IssuersBusy'
    BY <1>3 DEF IssuersBusy, TypeOK
  <1>7. QED BY <1>4, <1>5, <1>6

LEMMA SaveQueuedKeepsTInv ==
  ASSUME TInv, NEW i \in Issuers, NEW j \in Jobs, SaveQueued(i, j)
  PROVE  TInv'
  <1> USE PipelineAssumption, NothingTyped
      DEF TInv, SaveQueued, timeVars, queueVars, workerVars, letterVars, faultVars
  <1>1. /\ order' \in [Issuers -> Order]
        /\ ipc' \in [Issuers -> {"idle", "next", "save", "enqueue"}]
        /\ pick' \in [Issuers -> Jobs \cup {NoJob}]
        /\ todo' = todo
    BY DEF TypeOK, Finish
  <1>2. row' \in [Jobs -> Columns] /\ source' \in [Jobs -> Jobs \cup {NoJob}]
    BY DEF TypeOK, Order
  <1>3. TypeOK'
    BY <1>1, <1>2 DEF TypeOK
  <1>4. WorkersBusy' /\ QueueSound'
    BY DEF WorkersBusy, QueueSound
  <1>5. IssuersBusy'
    BY <1>1 DEF IssuersBusy, TypeOK, Finish, NeedsQueue
  <1>6. QED BY <1>3, <1>4, <1>5

LEMMA EnqueueKeepsTInv ==
  ASSUME TInv, NEW i \in Issuers, Enqueue(i)
  PROVE  TInv'
  <1> USE PipelineAssumption, NothingTyped
      DEF TInv, Enqueue, Finish, rowVars, timeVars, workerVars, letterVars, faultVars
  <1>0. pick[i] \in Jobs
    BY DEF IssuersBusy
  <1>1. order' \in [Issuers -> Order]
    BY DEF TypeOK
  <1>2. payload' \in [Jobs -> Columns]
    BY <1>0 DEF TypeOK, Order
  <1>3. TypeOK'
    BY <1>0, <1>1, <1>2 DEF TypeOK
  <1>4. WorkersBusy'
    BY <1>0 DEF TypeOK, WorkersBusy, QueueSound
  <1>5. QueueSound'
    BY <1>0 DEF TypeOK, QueueSound
  <1>6. IssuersBusy'
    BY DEF IssuersBusy, TypeOK
  <1>7. QED BY <1>3, <1>4, <1>5, <1>6

LEMMA IssuerFaultKeepsTInv ==
  ASSUME TInv, NEW i \in Issuers, FailRequest(i) \/ ApiCrash(i)
  PROVE  TInv'
  <1> USE PipelineAssumption, NothingTyped
      DEF TInv, FailRequest, ApiCrash, Finish, rowVars, timeVars, queueVars, workerVars,
          letterVars
  <1>1. orphans' \in SUBSET Jobs
    BY DEF TypeOK, IssuersBusy, faultVars
  <1>2. order' \in [Issuers -> Order]
    BY DEF TypeOK
  <1>3. TypeOK'
    BY <1>1, <1>2 DEF TypeOK, faultVars
  <1>4. WorkersBusy' /\ QueueSound'
    BY DEF WorkersBusy, QueueSound
  <1>5. IssuersBusy'
    BY DEF IssuersBusy, TypeOK
  <1>6. QED BY <1>3, <1>4, <1>5

-----------------------------------------------------------------------------
(* Workers.                                                                 *)
LEMMA TakeKeepsTInv ==
  ASSUME TInv, NEW w \in Workers, NEW j \in Jobs, Take(w, j)
  PROVE  TInv'
  <1> USE PipelineAssumption
      DEF TInv, Take, Leave, rowVars, timeVars, issuerVars, letterVars, faultVars
  <1>1. TypeOK'
    BY DEF TypeOK
  <1>2. WorkersBusy'
    BY DEF TypeOK, WorkersBusy
  <1>3. IssuersBusy'
    BY DEF IssuersBusy
  <1>4. QueueSound'
    BY DEF TypeOK, QueueSound
  <1>5. QED BY <1>1, <1>2, <1>3, <1>4

LEMMA RunKeepsTInv ==
  ASSUME TInv, NEW w \in Workers,
         \/ SaveRunning(w) \/ Sync(w) \/ SaveCompleted(w)
         \/ AdvanceSchedule(w) \/ SaveFailed(w) \/ WriteFails(w)
  PROVE  TInv'
  <1> USE PipelineAssumption
      DEF TInv, Leave, rowVars, timeVars, queueVars, issuerVars, letterVars
  <1>0. jobOf[w] \in Jobs
    BY DEF WorkersBusy, SaveRunning, Sync, SaveCompleted, AdvanceSchedule, SaveFailed,
           WriteFails
  <1>1. TypeOK'
    <2> USE DEF TypeOK
    <2>1. CASE SaveRunning(w)
      BY <1>0, <2>1 DEF SaveRunning, RunningColumns, faultVars
    <2>2. CASE Sync(w)
      BY <2>2 DEF Sync, faultVars
    <2>3. CASE SaveCompleted(w)
      BY <1>0, <2>3 DEF SaveCompleted, faultVars
    <2>4. CASE AdvanceSchedule(w)
      <3>1. payload[jobOf[w]].schedule \in Schedules /\ finishedAt[w] + 1 \in Nat
        BY <2>4 DEF AdvanceSchedule, WorkersBusy
      <3>2. QED BY <2>4, <3>1 DEF AdvanceSchedule, faultVars
    <2>5. CASE SaveFailed(w)
      BY <1>0, <2>5 DEF SaveFailed, AfterSaveFailed, faultVars
    <2>6. CASE WriteFails(w)
      <3>1. undone' \in SUBSET Jobs
        BY <1>0, <2>6 DEF WriteFails
      <3>2. QED BY <2>6, <3>1 DEF WriteFails, AfterFailedWrite
    <2>7. QED BY <2>1, <2>2, <2>3, <2>4, <2>5, <2>6
  <1>2. WorkersBusy'
    <2>1. payload[jobOf[w]].schedule \in Schedules \cup {NoSchedule}
      BY <1>0 DEF TypeOK, Columns
    <2>2. QED
      BY <1>0, <2>1 DEF TypeOK, WorkersBusy, SaveRunning, Sync, SaveCompleted,
         AdvanceSchedule, SaveFailed, WriteFails, AfterSaveFailed, AfterFailedWrite
  <1>3. IssuersBusy'
    BY DEF IssuersBusy, SaveRunning, Sync, SaveCompleted, AdvanceSchedule, SaveFailed,
           WriteFails
  <1>4. QueueSound'
    BY DEF QueueSound, SaveRunning, Sync, SaveCompleted, AdvanceSchedule, SaveFailed,
           WriteFails
  <1>5. QED BY <1>1, <1>2, <1>3, <1>4

LEMMA OutcomeKeepsTInv ==
  ASSUME TInv, NEW w \in Workers, Outcome(w)
  PROVE  TInv'
  <1> USE PipelineAssumption DEF TInv, Outcome, rowVars, timeVars, issuerVars, faultVars
  <1>0. jobOf[w] \in Jobs
    BY DEF WorkersBusy
  <1>1. TypeOK'
    BY <1>0 DEF TypeOK, QueueSound, SentOnFailure
  <1>2. WorkersBusy'
    BY DEF TypeOK, WorkersBusy
  <1>3. IssuersBusy'
    BY DEF IssuersBusy
  <1>4. QueueSound'
    BY <1>0 DEF TypeOK, QueueSound
  <1>5. QED BY <1>1, <1>2, <1>3, <1>4

LEMMA LettersKeepTInv ==
  ASSUME TInv, NEW w \in Workers, NEW j \in Jobs, SendDeadLetter(w, j)
  PROVE  TInv'
  BY DEF TInv, SendDeadLetter, TypeOK, WorkersBusy, IssuersBusy, QueueSound, rowVars,
         timeVars, queueVars, issuerVars, workerVars, faultVars

LEMMA CrashKeepsTInv ==
  ASSUME TInv, NEW w \in Workers, Crash(w)
  PROVE  TInv'
  <1> USE PipelineAssumption DEF TInv, Crash, rowVars, timeVars, issuerVars
  <1>1. TypeOK'
    BY DEF TypeOK
  <1>2. WorkersBusy'
    BY DEF TypeOK, WorkersBusy
  <1>3. IssuersBusy'
    BY DEF IssuersBusy
  <1>4. QueueSound'
    BY DEF TypeOK, QueueSound
  <1>5. QED BY <1>1, <1>2, <1>3, <1>4

LEMMA RedeliverKeepsTInv ==
  ASSUME TInv, NEW v \in Workers, NEW j \in Jobs, StalledByCrash(v, j) \/ LoseLock(v, j)
  PROVE  TInv'
  <1> USE PipelineAssumption
      DEF TInv, StalledByCrash, LoseLock, Redeliver, SentOnStall, rowVars, timeVars,
          issuerVars, workerVars
  <1>1. TypeOK'
    <2>1. outbox' \in [Workers -> SUBSET Jobs] /\ lostLetters' \in SUBSET Jobs
      BY DEF TypeOK
    <2>2. stalledCount' \in [Jobs -> 0..(MaxStalledCount + 1)]
      BY DEF TypeOK, QueueSound
    <2>3. QED BY <2>1, <2>2 DEF TypeOK
  <1>2. WorkersBusy'
    BY DEF WorkersBusy
  <1>3. IssuersBusy'
    BY DEF IssuersBusy
  <1>4. QueueSound'
    BY DEF TypeOK, QueueSound
  <1>5. QED BY <1>1, <1>2, <1>3, <1>4

LEMMA ClockKeepsTInv ==
  ASSUME TInv, PauseOrResume \/ PeriodPasses \/ UNCHANGED vars
  PROVE  TInv'
  <1> USE PipelineAssumption
      DEF TInv, PauseOrResume, PeriodPasses, vars, rowVars, timeVars, queueVars,
          issuerVars, workerVars, letterVars, faultVars
  <1>1. TypeOK'
    <2>1. paused' \in BOOLEAN
      BY DEF TypeOK
    <2>2. now' \in 0..MaxTime
      BY DEF TypeOK
    <2>3. QED BY <2>1, <2>2 DEF TypeOK
  <1>2. WorkersBusy' /\ IssuersBusy' /\ QueueSound'
    BY DEF WorkersBusy, IssuersBusy, QueueSound
  <1>3. QED BY <1>1, <1>2

(* The step each process, fault or clock takes, one of these.               *)
LEMMA TInvInductive == TInv /\ [Next]_vars => TInv'
  <1> SUFFICES ASSUME TInv, [Next]_vars PROVE TInv'
    OBVIOUS
  <1>1. ASSUME NEW i \in Schedulers, Tick(i) PROVE TInv'
    BY <1>1, RequestKeepsTInv DEF Issuers
  <1>2. ASSUME NEW i \in Clients, Request(i) PROVE TInv'
    BY <1>2, RequestKeepsTInv DEF Issuers
  <1>3. ASSUME NEW i \in Issuers, IssuerStep(i) \/ FailRequest(i) \/ ApiCrash(i)
        PROVE TInv'
    BY <1>3, RequestKeepsTInv, ReadSourceKeepsTInv, SaveQueuedKeepsTInv,
       EnqueueKeepsTInv, IssuerFaultKeepsTInv DEF IssuerStep
  <1>4. ASSUME NEW w \in Workers, WorkerStep(w) \/ WriteFails(w) \/ Crash(w)
        PROVE TInv'
    BY <1>4, TakeKeepsTInv, RunKeepsTInv, OutcomeKeepsTInv, CrashKeepsTInv
    DEF WorkerStep
  <1>5. ASSUME NEW w \in Workers, NEW j \in Jobs,
               SendDeadLetter(w, j) \/ StalledByCrash(w, j) \/ LoseLock(w, j)
        PROVE TInv'
    BY <1>5, LettersKeepTInv, RedeliverKeepsTInv
  <1>6. CASE PauseOrResume \/ PeriodPasses \/ UNCHANGED vars
    BY <1>6, ClockKeepsTInv
  <1>7. QED BY <1>1, <1>2, <1>3, <1>4, <1>5, <1>6 DEF Next

LEMMA TInvAlways == Spec => []TInv
  BY InitTInv, TInvInductive, PTL DEF Spec

(* Every variable of the pipeline keeps its type: BullMQ's counters stay    *)
(* within their limits and no step reads the job of an idle worker.         *)
THEOREM TypeCorrect == Spec => []TypeOK
  BY TInvAlways, PTL DEF TInv

-----------------------------------------------------------------------------
(* The steps that leave the rows and the issuers alone, and neither add a *)
(* job nor forget one.                                                              *)
LEMMA OutsideSteps ==
  ASSUME TInv,
         \/ \E w \in Workers : \/ \E j \in Jobs : Take(w, j)
                               \/ Sync(w) \/ AdvanceSchedule(w) \/ WriteFails(w)
                               \/ Outcome(w) \/ Crash(w)
         \/ \E w \in Workers, j \in Jobs :
              SendDeadLetter(w, j) \/ StalledByCrash(w, j) \/ LoseLock(w, j)
         \/ PauseOrResume \/ PeriodPasses \/ UNCHANGED vars
  PROVE  /\ UNCHANGED <<rowVars, issuerVars>>
         /\ UNCHANGED payload
         /\ \A j \in Jobs : delivery[j] = "absent" <=> delivery'[j] = "absent"
  <1> USE DEF TInv, TypeOK, rowVars, issuerVars, queueVars
  <1>1. ASSUME NEW w \in Workers, \E j \in Jobs : Take(w, j)
        PROVE  /\ UNCHANGED <<rowVars, issuerVars, payload>>
               /\ \A j \in Jobs : delivery[j] = "absent" <=> delivery'[j] = "absent"
    BY <1>1 DEF Take
  <1>2. ASSUME NEW w \in Workers, Sync(w) \/ AdvanceSchedule(w) \/ WriteFails(w)
        PROVE  UNCHANGED <<rowVars, issuerVars, payload, delivery>>
    BY <1>2 DEF Sync, AdvanceSchedule, WriteFails
  <1>3. ASSUME NEW w \in Workers, Outcome(w)
        PROVE  /\ UNCHANGED <<rowVars, issuerVars, payload>>
               /\ \A j \in Jobs : delivery[j] = "absent" <=> delivery'[j] = "absent"
    BY <1>3 DEF Outcome, WorkersBusy, QueueSound
  <1>4. ASSUME NEW w \in Workers, Crash(w)
        PROVE  UNCHANGED <<rowVars, issuerVars, payload, delivery>>
    BY <1>4 DEF Crash
  <1>5. ASSUME NEW w \in Workers, NEW j \in Jobs,
               SendDeadLetter(w, j) \/ StalledByCrash(w, j) \/ LoseLock(w, j)
        PROVE  /\ UNCHANGED <<rowVars, issuerVars, payload>>
               /\ \A k \in Jobs : delivery[k] = "absent" <=> delivery'[k] = "absent"
    BY <1>5 DEF SendDeadLetter, StalledByCrash, LoseLock, Redeliver
  <1>6. CASE PauseOrResume \/ PeriodPasses \/ UNCHANGED vars
    BY <1>6 DEF PauseOrResume, PeriodPasses, vars
  <1>7. QED BY <1>1, <1>2, <1>3, <1>4, <1>5, <1>6

(* The remaining steps, in the cases the invariants below distinguish.      *)
LEMMA InsideSteps ==
  ASSUME [Next]_vars
  PROVE  \/ \E i \in Schedulers : Tick(i) \/ PickSchedule(i)
         \/ \E i \in Clients : Request(i) \/ ReadSource(i)
         \/ \E i \in Issuers : \/ \E j \in Jobs : SaveQueued(i, j)
                               \/ Enqueue(i) \/ FailRequest(i) \/ ApiCrash(i)
         \/ \E w \in Workers : SaveRunning(w) \/ SaveCompleted(w) \/ SaveFailed(w)
         \/ \E w \in Workers : \/ \E j \in Jobs : Take(w, j)
                               \/ Sync(w) \/ AdvanceSchedule(w) \/ WriteFails(w)
                               \/ Outcome(w) \/ Crash(w)
         \/ \E w \in Workers, j \in Jobs :
              SendDeadLetter(w, j) \/ StalledByCrash(w, j) \/ LoseLock(w, j)
         \/ PauseOrResume \/ PeriodPasses \/ UNCHANGED vars
  BY DEF Next, IssuerStep, WorkerStep

(* The request of an issuer that stands before its enqueue is unchanged by  *)
(* the steps that only change what issuers have to do.                      *)
LEMMA RequestSteps ==
  ASSUME TInv,
         \/ \E i \in Schedulers : Tick(i) \/ PickSchedule(i)
         \/ \E i \in Clients : Request(i) \/ ReadSource(i)
  PROVE  /\ UNCHANGED <<rowVars, queueVars, source, orphans>>
         /\ \A k \in Issuers : ipc[k] = "enqueue" =>
              ipc'[k] = "enqueue" /\ pick'[k] = pick[k] /\ order'[k] = order[k]
         /\ \A k \in Issuers : ipc'[k] = "enqueue" => ipc[k] = "enqueue"
  <1> USE DEF TInv, TypeOK, Issuers
  <1>1. ASSUME NEW i \in Schedulers, Tick(i) \/ PickSchedule(i)
        PROVE  /\ UNCHANGED <<rowVars, queueVars, source, orphans>>
               /\ ipc[i] # "enqueue" /\ ipc'[i] # "enqueue"
               /\ \A k \in Issuers \ {i} : ipc'[k] = ipc[k] /\ order'[k] = order[k]
               /\ pick' = pick
    BY <1>1 DEF Tick, PickSchedule
  <1>2. ASSUME NEW i \in Clients, Request(i) \/ ReadSource(i)
        PROVE  /\ UNCHANGED <<rowVars, queueVars, source, orphans>>
               /\ ipc[i] # "enqueue" /\ ipc'[i] # "enqueue"
               /\ \A k \in Issuers \ {i} :
                    ipc'[k] = ipc[k] /\ order'[k] = order[k] /\ pick'[k] = pick[k]
    BY <1>2 DEF Request, RunRequest, CloneRequest, ReadSource, Finish
  <1>3. QED BY <1>1, <1>2

LEMMA QueuedInductive ==
  ASSUME TInv, QueuedRowsReachQueue, [Next]_vars
  PROVE  QueuedRowsReachQueue'
  <1> USE PipelineAssumption DEF QueuedRowsReachQueue
  <1>1. CASE \/ \E i \in Schedulers : Tick(i) \/ PickSchedule(i)
             \/ \E i \in Clients : Request(i) \/ ReadSource(i)
    <2> HIDE DEF QueuedRowsReachQueue
    <2>1. /\ UNCHANGED <<status, row, delivery, orphans>>
          /\ \A k \in Issuers : ipc[k] = "enqueue" =>
               ipc'[k] = "enqueue" /\ pick'[k] = pick[k]
      BY <1>1, RequestSteps DEF rowVars, queueVars
    <2>2. QED BY <2>1 DEF QueuedRowsReachQueue
  <1>2. ASSUME NEW i \in Issuers, NEW j \in Jobs, SaveQueued(i, j)
        PROVE QueuedRowsReachQueue'
    BY <1>2 DEF SaveQueued, TInv, TypeOK, NeedsQueue, queueVars, Finish
  <1>3. ASSUME NEW i \in Issuers, Enqueue(i) PROVE QueuedRowsReachQueue'
    BY <1>3 DEF Enqueue, TInv, TypeOK, IssuersBusy, rowVars, Finish
  <1>4. ASSUME NEW i \in Issuers, FailRequest(i) \/ ApiCrash(i)
        PROVE QueuedRowsReachQueue'
    BY <1>4 DEF FailRequest, ApiCrash, TInv, TypeOK, rowVars, queueVars, Finish
  <1>5. ASSUME NEW w \in Workers, SaveRunning(w) \/ SaveCompleted(w) \/ SaveFailed(w)
        PROVE QueuedRowsReachQueue'
    BY <1>5 DEF SaveRunning, SaveCompleted, SaveFailed, TInv, TypeOK, WorkersBusy,
                QueueSound, Leave, rowVars, queueVars, issuerVars
  <1>6. CASE /\ UNCHANGED <<rowVars, issuerVars>>
             /\ \A j \in Jobs : delivery[j] = "absent" <=> delivery'[j] = "absent"
    BY <1>6 DEF rowVars, issuerVars
  <1>7. QED BY <1>1, <1>2, <1>3, <1>4, <1>5, <1>6, InsideSteps, OutsideSteps

(* A row that says queued has its BullMQ job, or is about to get it, or was *)
(* left behind by an API process that died between the save and the add.    *)
THEOREM QueuedRowsAreQueued == Spec => []QueuedRowsReachQueue
  <1>1. Init => QueuedRowsReachQueue
    BY DEF Init, QueuedRowsReachQueue
  <1>2. QED BY <1>1, QueuedInductive, TInvAlways, PTL DEF Spec

-----------------------------------------------------------------------------
(* Lineage.  A saved row never changes its columns: the queue payload is a  *)
(* copy of it, so the rewrite by the worker changes nothing.  A row about   *)
(* to be saved descends correctly from a saved row.                         *)
Requeues == {"manual_requeue", "bulk_requeue"}
CloneTriggers == {"manual_retry"} \cup Requeues

Descends(columns, from) ==
  /\ from = NoJob => columns.retries = 0
  /\ from # NoJob =>
       /\ status[from] # "none" /\ row[from].connector
       /\ columns.trigger \in CloneTriggers
       /\ columns.schedule = row[from].schedule /\ columns.connector
       /\ columns.retries = row[from].retries + 1
       /\ columns.trigger \in Requeues => from \in everFailed

PayloadIsRow ==
  \A j \in Jobs :
    delivery[j] # "absent" => status[j] # "none" /\ payload[j] = row[j] /\ row[j].connector

(* What there is to say of one issuer's order.                              *)
OrderDescends(i) ==
  /\ ipc[i] \in {"save", "enqueue"} => Descends(order[i].columns, order[i].source)
  /\ ipc[i] = "enqueue" => status[pick[i]] # "none" /\ row[pick[i]] = order[i].columns
  /\ i \in Clients /\ todo[i] # {} =>
       /\ ipc[i] # "idle" /\ order[i].columns.trigger \in CloneTriggers
       /\ \A j \in todo[i] : status[j] # "none"

OrdersDescend == \A i \in Issuers : OrderDescends(i)

RowsDescend ==
  \A j \in Jobs :
    /\ status[j] # "none" => Descends(row[j], source[j])
    /\ status[j] = "failed" => j \in everFailed

LInv == PayloadIsRow /\ OrdersDescend /\ RowsDescend

(* A saved row keeps its columns, and a failure is never forgotten.         *)
LEMMA SavedRowsStand ==
  ASSUME TInv, LInv, [Next]_vars
  PROVE  /\ everFailed \subseteq everFailed'
         /\ \A j \in Jobs : status[j] # "none" => status'[j] # "none" /\ row'[j] = row[j]
  <1> USE DEF TInv, TypeOK, rowVars
  <1>1. CASE \/ \E i \in Schedulers : Tick(i) \/ PickSchedule(i)
             \/ \E i \in Clients : Request(i) \/ ReadSource(i)
    <2> HIDE DEF TInv
    <2>1. UNCHANGED rowVars
      BY <1>1, RequestSteps
    <2>2. QED BY <2>1
  <1>2. ASSUME NEW i \in Issuers, NEW j \in Jobs, SaveQueued(i, j)
        PROVE  /\ everFailed' = everFailed
               /\ \A k \in Jobs : status[k] # "none" => status'[k] # "none" /\ row'[k] = row[k]
    BY <1>2 DEF SaveQueued
  <1>3. ASSUME NEW i \in Issuers, Enqueue(i) \/ FailRequest(i) \/ ApiCrash(i)
        PROVE  UNCHANGED rowVars
    BY <1>3 DEF Enqueue, FailRequest, ApiCrash
  <1>4. ASSUME NEW w \in Workers, SaveRunning(w) \/ SaveCompleted(w) \/ SaveFailed(w)
        PROVE  /\ everFailed \subseteq everFailed'
               /\ \A k \in Jobs : status[k] # "none" => status'[k] # "none" /\ row'[k] = row[k]
    BY <1>4 DEF SaveRunning, SaveCompleted, SaveFailed, Leave, WorkersBusy, QueueSound,
                LInv, PayloadIsRow, RunningColumns
  <1>5. CASE UNCHANGED rowVars
    BY <1>5
  <1>6. QED BY <1>1, <1>2, <1>3, <1>4, <1>5, InsideSteps, OutsideSteps

LEMMA RowsDescendInductive ==
  ASSUME TInv, TInv', LInv, [Next]_vars
  PROVE  RowsDescend'
  <1>1. ASSUME NEW j \in Jobs, status[j] # "none" PROVE Descends(row[j], source[j])'
    <2>1. source'[j] = source[j] /\ row'[j] = row[j]
      <3>1. row'[j] = row[j]
        BY <1>1, SavedRowsStand
      <3>2. CASE \/ \E i \in Schedulers : Tick(i) \/ PickSchedule(i)
                 \/ \E i \in Clients : Request(i) \/ ReadSource(i)
        BY <3>1, <3>2, RequestSteps
      <3>3. ASSUME NEW i \in Issuers, NEW k \in Jobs, SaveQueued(i, k)
            PROVE  source'[j] = source[j]
        BY <1>1, <3>3 DEF SaveQueued, TInv, TypeOK
      <3>4. ASSUME NEW i \in Issuers, Enqueue(i) \/ FailRequest(i) \/ ApiCrash(i)
            PROVE  source' = source
        BY <3>4 DEF Enqueue, FailRequest, ApiCrash
      <3>5. ASSUME NEW w \in Workers, SaveRunning(w) \/ SaveCompleted(w) \/ SaveFailed(w)
            PROVE  source' = source
        BY <3>5 DEF SaveRunning, SaveCompleted, SaveFailed, issuerVars
      <3>6. CASE UNCHANGED issuerVars
        BY <3>1, <3>6 DEF issuerVars
      <3>7. QED BY <3>1, <3>2, <3>3, <3>4, <3>5, <3>6, InsideSteps, OutsideSteps
    <2>2. Descends(row[j], source[j])
      BY <1>1 DEF LInv, RowsDescend
    <2>3. row[j] \in Columns /\ source[j] \in Jobs \cup {NoJob}
      BY DEF TInv, TypeOK
    <2>4. QED
      <3> DEFINE c == row[j]
                 s == source[j]
      <3>1. Descends(c, s)
        BY <2>2
      <3>2. c' = c /\ s' = s
        BY <2>1
      <3>3. (s # NoJob => status[s] # "none") /\ s \in Jobs \cup {NoJob}
        BY <2>2, <2>3 DEF Descends
      <3>4. s # NoJob => status'[s] # "none" /\ row'[s] = row[s]
        BY <3>3, SavedRowsStand
      <3>5. everFailed \subseteq everFailed'
        BY SavedRowsStand
      <3>6. QED BY <2>1, <2>2, <3>4, <3>5 DEF Descends
  <1>2. ASSUME NEW j \in Jobs, status[j] = "none", status'[j] # "none"
        PROVE  Descends(row[j], source[j])'
    <2>1. PICK i \in Issuers : SaveQueued(i, j)
      <3> USE DEF TInv, TypeOK, rowVars
      <3>1. CASE \/ \E i \in Schedulers : Tick(i) \/ PickSchedule(i)
                 \/ \E i \in Clients : Request(i) \/ ReadSource(i)
        <4> HIDE DEF TInv
        <4>1. UNCHANGED rowVars
          BY <3>1, RequestSteps
        <4>2. QED BY <1>2, <4>1
      <3>2. ASSUME NEW i \in Issuers, NEW k \in Jobs, SaveQueued(i, k)
            PROVE  k = j
        BY <1>2, <3>2 DEF SaveQueued
      <3>3. ASSUME NEW i \in Issuers, Enqueue(i) \/ FailRequest(i) \/ ApiCrash(i)
            PROVE  FALSE
        BY <1>2, <3>3 DEF Enqueue, FailRequest, ApiCrash
      <3>4. ASSUME NEW w \in Workers, SaveRunning(w) \/ SaveCompleted(w) \/ SaveFailed(w)
            PROVE  FALSE
        BY <1>2, <3>4 DEF SaveRunning, SaveCompleted, SaveFailed, Leave, WorkersBusy,
                          QueueSound, LInv, PayloadIsRow
      <3>5. CASE UNCHANGED rowVars
        BY <1>2, <3>5
      <3>6. QED BY <3>1, <3>2, <3>3, <3>4, <3>5, InsideSteps, OutsideSteps
    <2>2. Descends(order[i].columns, order[i].source)
      BY <2>1 DEF SaveQueued, LInv, OrdersDescend, OrderDescends
    <2>3. row'[j] = order[i].columns /\ source'[j] = order[i].source
      BY <2>1 DEF SaveQueued, TInv, TypeOK
    <2>4. order[i].source \in Jobs \cup {NoJob}
      BY DEF TInv, TypeOK, Order
    <2>5. QED BY <2>2, <2>3, <2>4, SavedRowsStand DEF Descends
  <1>3. ASSUME NEW j \in Jobs, status'[j] = "failed" PROVE j \in everFailed'
    <2> USE DEF TInv, TypeOK, rowVars, LInv, RowsDescend
    <2>1. CASE status[j] = "failed"
      BY <2>1, SavedRowsStand
    <2>2. CASE status[j] # "failed"
      <3>1. CASE \/ \E i \in Schedulers : Tick(i) \/ PickSchedule(i)
                 \/ \E i \in Clients : Request(i) \/ ReadSource(i)
        <4> HIDE DEF TInv
        <4>1. UNCHANGED rowVars
          BY <3>1, RequestSteps
        <4>2. QED BY <1>3, <2>2, <4>1
      <3>2. ASSUME NEW i \in Issuers, NEW k \in Jobs, SaveQueued(i, k)
            PROVE  FALSE
        BY <1>3, <2>2, <3>2 DEF SaveQueued
      <3>3. ASSUME NEW i \in Issuers, Enqueue(i) \/ FailRequest(i) \/ ApiCrash(i)
            PROVE  FALSE
        BY <1>3, <2>2, <3>3 DEF Enqueue, FailRequest, ApiCrash
      <3>4. ASSUME NEW w \in Workers, SaveRunning(w) \/ SaveCompleted(w) \/ SaveFailed(w)
            PROVE  j \in everFailed'
        BY <1>3, <2>2, <3>4 DEF SaveRunning, SaveCompleted, SaveFailed, Leave
      <3>5. CASE UNCHANGED rowVars
        BY <1>3, <2>2, <3>5
      <3>6. QED BY <3>1, <3>2, <3>3, <3>4, <3>5, InsideSteps, OutsideSteps
    <2>3. QED BY <2>1, <2>2
  <1>4. QED BY <1>1, <1>2, <1>3 DEF RowsDescend

LEMMA PayloadIsRowInductive ==
  ASSUME TInv, TInv', LInv, [Next]_vars
  PROVE  PayloadIsRow'
  <1> USE DEF PayloadIsRow
  <1>1. CASE \/ \E i \in Schedulers : Tick(i) \/ PickSchedule(i)
             \/ \E i \in Clients : Request(i) \/ ReadSource(i)
    <2>1. UNCHANGED <<rowVars, queueVars>>
      BY <1>1, RequestSteps
    <2>2. QED BY <2>1 DEF LInv, rowVars, queueVars
  <1>2. ASSUME NEW i \in Issuers, NEW j \in Jobs, SaveQueued(i, j) PROVE PayloadIsRow'
    BY <1>2 DEF SaveQueued, LInv, TInv, TypeOK, queueVars
  <1>3. ASSUME NEW i \in Issuers, Enqueue(i) PROVE PayloadIsRow'
    BY <1>3 DEF Enqueue, LInv, OrdersDescend, OrderDescends, TInv, TypeOK, IssuersBusy,
                rowVars
  <1>4. ASSUME NEW i \in Issuers, FailRequest(i) \/ ApiCrash(i) PROVE PayloadIsRow'
    BY <1>4 DEF FailRequest, ApiCrash, LInv, rowVars, queueVars
  <1>5. ASSUME NEW w \in Workers, SaveRunning(w) \/ SaveCompleted(w) \/ SaveFailed(w)
        PROVE PayloadIsRow'
    BY <1>5 DEF SaveRunning, SaveCompleted, SaveFailed, RunningColumns, LInv, TInv,
                TypeOK, queueVars
  <1>6. CASE /\ UNCHANGED rowVars /\ UNCHANGED payload
             /\ \A j \in Jobs : delivery[j] = "absent" <=> delivery'[j] = "absent"
    BY <1>6 DEF LInv, rowVars
  <1>7. QED BY <1>1, <1>2, <1>3, <1>4, <1>5, <1>6, InsideSteps, OutsideSteps

(* What each step of an issuer puts into its order descends correctly.      *)
LEMMA NewOrdersDescend ==
  ASSUME TInv, LInv, NEW i \in Issuers,
         \/ i \in Schedulers /\ (Tick(i) \/ PickSchedule(i))
         \/ i \in Clients /\ (Request(i) \/ ReadSource(i))
  PROVE  /\ ipc'[i] \in {"save", "enqueue"} =>
              Descends(order'[i].columns, order'[i].source)
         /\ ipc'[i] # "enqueue"
         /\ i \in Clients /\ todo'[i] # {} =>
              /\ ipc'[i] # "idle" /\ order'[i].columns.trigger \in CloneTriggers
              /\ \A j \in todo'[i] : status[j] # "none"
         /\ \A k \in Issuers \ {i} :
              ipc'[k] = ipc[k] /\ order'[k] = order[k] /\ todo'[k] = todo[k]
                /\ pick'[k] = pick[k]
  <1> USE PipelineAssumption DEF TInv, TypeOK, Issuers
  <1>1. CASE i \in Schedulers /\ Tick(i)
    BY <1>1 DEF Tick
  <1>2. CASE i \in Schedulers /\ PickSchedule(i)
    <2>1. PICK s \in todo[i] : order' = [order EXCEPT ![i] = NewJob("scheduled", s, TRUE)]
      BY <1>2 DEF PickSchedule
    <2>2. s \in Schedules /\ s # NoSchedule
      BY <1>2 DEF IssuersBusy
    <2>3. order'[i] = NewJob("scheduled", s, TRUE)
      BY <2>1
    <2>4. Descends(order'[i].columns, order'[i].source)
      BY <2>2, <2>3 DEF NewJob, Descends, Requeues
    <2>5. /\ ipc'[i] = "save" /\ i \notin Clients
          /\ \A k \in Issuers \ {i} :
               ipc'[k] = ipc[k] /\ order'[k] = order[k] /\ todo'[k] = todo[k]
                 /\ pick'[k] = pick[k]
      BY <1>2 DEF PickSchedule
    <2>6. QED BY <2>4, <2>5
  <1>3. CASE i \in Clients /\ RunRequest(i)
    BY <1>3 DEF RunRequest, NewJob, Descends, Requeues, LInv, OrdersDescend, OrderDescends
  <1>4. ASSUME i \in Clients, NEW trigger \in Triggers \ {"manual", "scheduled"},
               NEW targets \in SUBSET Jobs, CloneRequest(i, trigger, targets)
        PROVE  /\ ipc'[i] = "next" /\ order'[i].columns.trigger \in CloneTriggers
               /\ \A j \in todo'[i] : status[j] # "none"
               /\ \A k \in Issuers \ {i} :
                    ipc'[k] = ipc[k] /\ order'[k] = order[k] /\ todo'[k] = todo[k]
                      /\ pick'[k] = pick[k]
    <2>1. order'[i] = [order[i] EXCEPT !.columns.trigger = trigger] /\ order[i] \in Order
      BY <1>4 DEF CloneRequest
    <2>2. order'[i].columns.trigger = trigger
      BY <2>1 DEF Order, Columns
    <2>3. trigger \in CloneTriggers
      BY DEF Triggers, CloneTriggers, Requeues
    <2>4. QED BY <1>4, <2>2, <2>3 DEF CloneRequest
  <1>5. CASE i \in Clients /\ ReadSource(i)
    <2> PICK j \in todo[i] :
          LET trigger == order[i].columns.trigger
              rest == todo[i] \ {j}
          IN  \/ /\ Clonable(j, trigger)
                 /\ todo' = [todo EXCEPT ![i] = rest]
                 /\ order' = [order EXCEPT ![i] = Clone(j, trigger)]
                 /\ ipc' = [ipc EXCEPT ![i] = "save"]
                 /\ UNCHANGED pick
              \/ /\ ~Clonable(j, trigger)
                 /\ Finish(i, rest)
      BY <1>5 DEF ReadSource
    <2>1. /\ j \in Jobs /\ status[j] # "none" /\ row[j] \in Columns
          /\ order[i].columns.trigger \in CloneTriggers
          /\ \A k \in todo[i] : status[k] # "none"
      BY <1>5 DEF IssuersBusy, LInv, OrdersDescend, OrderDescends
    <2>2. order[i].columns.trigger \in Triggers
      BY DEF Order, Columns
    <2>3. CASE Clonable(j, order[i].columns.trigger)
      <3> DEFINE t == order[i].columns.trigger
      <3>1. t \in Requeues => j \in everFailed
        BY <2>1, <2>3 DEF Clonable, Requeues, LInv, RowsDescend
      <3>2. /\ Clone(j, t).source = j /\ Clone(j, t).columns.trigger = t
            /\ Clone(j, t).columns.retries = row[j].retries + 1
            /\ Clone(j, t).columns.schedule = row[j].schedule
            /\ Clone(j, t).columns.connector = row[j].connector
        BY <2>1 DEF Clone, Columns
      <3>3. order'[i] = Clone(j, t) /\ ipc'[i] = "save"
        BY <2>3
      <3>4. Descends(order'[i].columns, order'[i].source)
        <4>1. /\ j # NoJob /\ row[j].connector /\ t \in CloneTriggers
              /\ status[j] # "none" /\ (t \in Requeues => j \in everFailed)
          BY <2>1, <2>3, <3>1 DEF Clonable
        <4> HIDE DEF t
        <4>2. Descends(Clone(j, t).columns, j)
          BY <4>1, <3>2 DEF Descends
        <4>3. QED BY <4>2, <3>2, <3>3
      <3>5. \A k \in todo'[i] : status[k] # "none"
        BY <2>1, <2>3
      <3>6. QED BY <2>1, <2>3, <3>2, <3>3, <3>4, <3>5
    <2>4. CASE ~Clonable(j, order[i].columns.trigger)
      <3>1. \A k \in todo'[i] : status[k] # "none"
        BY <2>1, <2>4 DEF Finish
      <3>2. ipc'[i] = (IF todo'[i] = {} THEN "idle" ELSE "next")
        BY <2>4 DEF Finish
      <3>3. todo'[i] # {} => order'[i] = order[i]
        BY <2>4 DEF Finish
      <3>4. \A k \in Issuers \ {i} :
              ipc'[k] = ipc[k] /\ order'[k] = order[k] /\ todo'[k] = todo[k]
                /\ pick'[k] = pick[k]
        BY <2>4 DEF Finish
      <3>5. QED BY <2>1, <3>1, <3>2, <3>3, <3>4
    <2>5. QED BY <2>3, <2>4
  <1>6. QED BY <1>1, <1>2, <1>3, <1>4, <1>5 DEF Request

(* An issuer that does not move keeps its order, whatever the others do.    *)
LEMMA IdleOrderStands ==
  ASSUME TInv, LInv, [Next]_vars, NEW k \in Issuers,
         ipc'[k] = ipc[k], order'[k] = order[k], todo'[k] = todo[k], pick'[k] = pick[k]
  PROVE  OrderDescends(k)'
  <1>1. OrderDescends(k)
    BY DEF LInv, OrdersDescend, OrderDescends
  <1>2. /\ everFailed \subseteq everFailed'
        /\ \A j \in Jobs : status[j] # "none" => status'[j] # "none" /\ row'[j] = row[j]
    BY SavedRowsStand
  <1>3. /\ order[k].source \in Jobs \cup {NoJob}
        /\ ipc[k] = "enqueue" => pick[k] \in Jobs
        /\ k \in Clients => todo[k] \subseteq Jobs
    BY PipelineAssumption DEF TInv, TypeOK, Order, IssuersBusy, Issuers
  <1>4. ipc'[k] \in {"save", "enqueue"} => Descends(order[k].columns, order[k].source)'
    BY <1>1, <1>2, <1>3 DEF OrderDescends, Descends
  <1>5. ipc'[k] = "enqueue" => (status[pick[k]] # "none" /\ row[pick[k]] = order[k].columns)'
    BY <1>1, <1>2, <1>3 DEF OrderDescends
  <1>6. k \in Clients /\ todo'[k] # {} =>
          /\ ipc'[k] # "idle" /\ order'[k].columns.trigger \in CloneTriggers
          /\ \A j \in todo'[k] : status'[j] # "none"
    BY <1>1, <1>2, <1>3 DEF OrderDescends
  <1>7. QED BY <1>4, <1>5, <1>6 DEF OrderDescends

LEMMA OrdersDescendInductive ==
  ASSUME TInv, TInv', LInv, [Next]_vars
  PROVE  OrdersDescend'
  <1> DEFINE Still(k) == /\ ipc'[k] = ipc[k] /\ order'[k] = order[k]
                         /\ todo'[k] = todo[k] /\ pick'[k] = pick[k]
  <1>1. SUFFICES ASSUME NEW k \in Issuers PROVE OrderDescends(k)'
    BY DEF OrdersDescend, OrderDescends
  <1>2. ASSUME NEW i \in Issuers,
               \/ i \in Schedulers /\ (Tick(i) \/ PickSchedule(i))
               \/ i \in Clients /\ (Request(i) \/ ReadSource(i))
        PROVE  OrderDescends(k)'
    <2>1. CASE i # k
      BY <1>2, <2>1, NewOrdersDescend, IdleOrderStands
    <2>2. CASE i = k
      <3>1. /\ UNCHANGED <<status, row, everFailed>>
        <4>1. i \in Schedulers \/ i \in Clients
          BY DEF Issuers
        <4>2. QED BY <1>2, <4>1, RequestSteps DEF rowVars
      <3>2. QED BY <1>2, <2>2, <3>1, NewOrdersDescend DEF OrderDescends, Descends
    <2>3. QED BY <2>1, <2>2
  <1>3. ASSUME NEW i \in Issuers, NEW j \in Jobs, SaveQueued(i, j)
        PROVE  OrderDescends(k)'
    <2>1. CASE i # k
      <3>1. Still(k)
        BY <1>3, <2>1 DEF SaveQueued, Finish, TInv, TypeOK
      <3>2. QED BY <3>1, IdleOrderStands
    <2>2. CASE i = k
      <3>1. status'[j] # "none" /\ row'[j] = order[i].columns /\ todo'[i] = todo[i]
        BY <1>3 DEF SaveQueued, Finish, TInv, TypeOK
      <3>0. todo'[i] # {} => ipc'[i] # "idle" /\ order'[i] = order[i]
        BY <1>3 DEF SaveQueued, Finish, TInv, TypeOK
      <3>2. i \in Clients /\ todo'[i] # {} =>
              /\ ipc'[i] # "idle" /\ order'[i].columns.trigger \in CloneTriggers
              /\ \A l \in todo'[i] : status'[l] # "none"
        BY <1>3, <3>0, <3>1, PipelineAssumption
        DEF SaveQueued, LInv, OrdersDescend, OrderDescends, TInv, TypeOK, IssuersBusy, Issuers
      <3>3. CASE ipc'[i] # "enqueue"
        <4>1. ipc'[i] \in {"idle", "next"}
          BY <1>3, <3>3 DEF SaveQueued, Finish, TInv, TypeOK
        <4>2. QED BY <2>2, <3>2, <4>1 DEF OrderDescends
      <3>4. CASE ipc'[i] = "enqueue"
        <4>1. order'[i] = order[i] /\ pick'[i] = j
          BY <1>3, <3>4 DEF SaveQueued, Finish, TInv, TypeOK
        <4>2. Descends(order[i].columns, order[i].source)
          BY <1>3 DEF SaveQueued, LInv, OrdersDescend, OrderDescends
        <4>3. order[i].source \in Jobs \cup {NoJob}
          BY DEF TInv, TypeOK, Order
        <4>4. Descends(order[i].columns, order[i].source)'
          BY <4>1, <4>2, <4>3, SavedRowsStand DEF Descends
        <4>5. QED BY <2>2, <3>1, <3>2, <4>1, <4>4 DEF OrderDescends
      <3>5. QED BY <3>3, <3>4
    <2>3. QED BY <2>1, <2>2
  <1>4. ASSUME NEW i \in Issuers, Enqueue(i) \/ FailRequest(i) \/ ApiCrash(i)
        PROVE  OrderDescends(k)'
    <2>1. CASE i # k
      <3>1. Still(k)
        BY <1>4, <2>1 DEF Enqueue, FailRequest, ApiCrash, Finish, TInv, TypeOK
      <3>2. QED BY <3>1, IdleOrderStands
    <2>2. CASE i = k
      <3>1. ipc'[i] \in {"idle", "next"} /\ todo'[i] \subseteq todo[i]
        BY <1>4 DEF Enqueue, FailRequest, ApiCrash, Finish, TInv, TypeOK
      <3>2. status' = status
        BY <1>4 DEF Enqueue, FailRequest, ApiCrash, rowVars
      <3>3. todo'[i] # {} => ipc'[i] # "idle" /\ order'[i] = order[i]
        BY <1>4 DEF Enqueue, FailRequest, ApiCrash, Finish, TInv, TypeOK
      <3>4. QED BY <2>2, <3>1, <3>2, <3>3 DEF LInv, OrdersDescend, OrderDescends
    <2>3. QED BY <2>1, <2>2
  <1>5. ASSUME NEW w \in Workers, SaveRunning(w) \/ SaveCompleted(w) \/ SaveFailed(w)
        PROVE  OrderDescends(k)'
    <2>1. Still(k)
      BY <1>5 DEF SaveRunning, SaveCompleted, SaveFailed, issuerVars
    <2>2. QED BY <2>1, IdleOrderStands
  <1>6. CASE UNCHANGED issuerVars
    <2>1. Still(k)
      BY <1>6 DEF issuerVars
    <2>2. QED BY <2>1, IdleOrderStands
  <1>7. QED BY <1>2, <1>3, <1>4, <1>5, <1>6, InsideSteps, OutsideSteps DEF Issuers

LEMMA LInvAlways == Spec => []LInv
  <1>1. Init => LInv
    BY DEF Init, LInv, PayloadIsRow, OrdersDescend, OrderDescends, RowsDescend
  <1>2. TInv /\ TInv' /\ LInv /\ [Next]_vars => LInv'
    BY PayloadIsRowInductive, OrdersDescendInductive, RowsDescendInductive DEF LInv
  <1>3. QED BY <1>1, <1>2, TInvAlways, PTL DEF Spec

(* The retry count of a row is the length of its chain of retries and       *)
(* requeues, also after a worker has rewritten the row.                     *)
THEOREM RetriesCount == Spec => []RetriesCountLineage
  <1>1. TInv /\ LInv => RetriesCountLineage
    BY DEF LInv, RowsDescend, Descends, RetriesCountLineage
  <1>2. QED BY <1>1, TInvAlways, LInvAlways, PTL

(* A requeue only ever clones a job that had failed.                        *)
THEOREM RequeuesAreOfFailures == Spec => []RequeuedHadFailed
  <1>1. TInv /\ LInv => RequeuedHadFailed
    BY DEF LInv, RowsDescend, Descends, RequeuedHadFailed, Requeues
  <1>2. QED BY <1>1, TInvAlways, LInvAlways, PTL

-----------------------------------------------------------------------------
(* Refinement: SaveQueued is a New or a Copy of the ledger, the three writes *)
(* of a worker are its Record, and nothing else touches the table.          *)
LEMMA RecordColumns ==
  ASSUME NEW c \in Columns, NEW d \in Columns
  PROVE  /\ c = [trigger |-> c.trigger, schedule |-> c.schedule,
                 connector |-> c.connector, retries |-> c.retries]
         /\ c.schedule = d.schedule /\ c.connector = d.connector
              /\ c.retries = d.retries + 1
            => c = [d EXCEPT !.trigger = c.trigger, !.retries = @ + 1]
  BY DEF Columns

LEMMA SaveRefines ==
  ASSUME TInv, LInv, NEW i \in Issuers, NEW j \in Jobs, SaveQueued(i, j)
  PROVE  Ledger!Next
  <1> DEFINE c == order[i].columns
             from == order[i].source
  <1>1. c \in Columns /\ from \in Jobs \cup {NoJob} /\ Descends(c, from)
    BY DEF TInv, TypeOK, Order, SaveQueued, LInv, OrdersDescend, OrderDescends
  <1>2. Ledger!Save(j, c, from)
    BY DEF SaveQueued, Ledger!Save
  <1> HIDE DEF c, from
  <1>3. CASE from = NoJob
    <2>1. /\ c.trigger \in Triggers /\ c.connector \in BOOLEAN
          /\ c.schedule \in Schedules \cup {NoSchedule} /\ c.retries = 0
      BY <1>1, <1>3 DEF Descends, Columns
    <2>2. c = [trigger |-> c.trigger, schedule |-> c.schedule,
               connector |-> c.connector, retries |-> 0]
      BY <1>1, <2>1, RecordColumns
    <2>3. Ledger!New(j, c.trigger, c.schedule, c.connector)
      BY <1>2, <1>3, <2>1, <2>2 DEF Ledger!New
    <2>4. QED
      BY <2>1, <2>3 DEF Ledger!Next, Ledger!CloneTriggers, Ledger!Requeues, Triggers
  <1>4. CASE from # NoJob
    <2>1. /\ from \in Jobs /\ status[from] # "none" /\ row[from].connector
          /\ c.trigger \in CloneTriggers
          /\ c.trigger \in Requeues => from \in everFailed
          /\ c.schedule = row[from].schedule /\ c.connector
          /\ c.retries = row[from].retries + 1
      BY <1>1, <1>4 DEF Descends
    <2>2. row[from] \in Columns
      BY <2>1 DEF TInv, TypeOK
    <2>3. c.connector = row[from].connector
      BY <1>1, <2>1, <2>2 DEF Columns
    <2>4. c = [row[from] EXCEPT !.trigger = c.trigger, !.retries = @ + 1]
      BY <1>1, <2>1, <2>2, <2>3, RecordColumns
    <2>5. Ledger!Copy(j, c.trigger, from)
      BY <1>2, <2>1, <2>4 DEF Ledger!Copy, Ledger!Requeues, Requeues
    <2>6. QED
      BY <2>1, <2>5
      DEF Ledger!Next, Ledger!CloneTriggers, Ledger!Requeues, CloneTriggers, Requeues
  <1>5. QED BY <1>3, <1>4

LEMMA RecordRefines ==
  ASSUME TInv, LInv, NEW w \in Workers,
         SaveRunning(w) \/ SaveCompleted(w) \/ SaveFailed(w)
  PROVE  Ledger!Next
  <1> DEFINE j == jobOf[w]
  <1>1. j \in Jobs /\ delivery[j] # "absent"
    BY DEF SaveRunning, SaveCompleted, SaveFailed, Leave, TInv, WorkersBusy, QueueSound
  <1>2. status[j] # "none" /\ row[j].connector /\ payload[j] = row[j]
    BY <1>1 DEF LInv, PayloadIsRow
  <1>3. row' = row /\ source' = source
    BY <1>1, <1>2 DEF SaveRunning, SaveCompleted, SaveFailed, RunningColumns, issuerVars,
       TInv, TypeOK
  <1>4. \E outcome \in {"running", "completed", "failed"} :
          /\ status' = [status EXCEPT ![j] = outcome]
          /\ everFailed' = IF outcome = "failed" THEN everFailed \cup {j} ELSE everFailed
    BY DEF SaveRunning, SaveCompleted, SaveFailed
  <1> HIDE DEF j
  <1>5. \E outcome \in {"running", "completed", "failed"} : Ledger!Record(j, outcome)
    BY <1>2, <1>3, <1>4 DEF Ledger!Record
  <1>6. QED BY <1>1, <1>5 DEF Ledger!Next

(* The protocol of the API, the queue and the workers implements the ledger *)
(* of jobs.                                                                 *)
THEOREM PipelineImplementsLedger == Spec => ImplementsLedger
  <1>1. Init => Ledger!Init
    BY DEF Init, Ledger!Init
  <1>2. TInv /\ LInv /\ [Next]_vars => [Ledger!Next]_Ledger!ledgerVars
    <2> SUFFICES ASSUME TInv, LInv, [Next]_vars
                 PROVE  [Ledger!Next]_Ledger!ledgerVars
      OBVIOUS
    <2>1. ASSUME NEW i \in Issuers, NEW j \in Jobs, SaveQueued(i, j) PROVE Ledger!Next
      BY <2>1, SaveRefines
    <2>2. ASSUME NEW w \in Workers, SaveRunning(w) \/ SaveCompleted(w) \/ SaveFailed(w)
          PROVE  Ledger!Next
      BY <2>2, RecordRefines
    <2>3. CASE \/ \E i \in Schedulers : Tick(i) \/ PickSchedule(i)
               \/ \E i \in Clients : Request(i) \/ ReadSource(i)
      BY <2>3, RequestSteps DEF rowVars, Ledger!ledgerVars
    <2>4. ASSUME NEW i \in Issuers, Enqueue(i) \/ FailRequest(i) \/ ApiCrash(i)
          PROVE  UNCHANGED Ledger!ledgerVars
      BY <2>4 DEF Enqueue, FailRequest, ApiCrash, rowVars, Ledger!ledgerVars
    <2>5. CASE UNCHANGED <<rowVars, issuerVars>>
      BY <2>5 DEF rowVars, issuerVars, Ledger!ledgerVars
    <2>6. QED BY <2>1, <2>2, <2>3, <2>4, <2>5, InsideSteps, OutsideSteps
  <1>3. QED
    BY <1>1, <1>2, TInvAlways, LInvAlways, PTL DEF Spec, ImplementsLedger, Ledger!Spec

-----------------------------------------------------------------------------
(* Outcomes.  While BullMQ has never found a job stalled, only the owner of *)
(* its lock works on it; once that worker has written an outcome it only    *)
(* has steps left that keep it, and BullMQ will not deliver the job again.  *)
LockHeld ==
  \A w \in Workers :
    wpc[w] # "idle" /\ stalledCount[jobOf[w]] = 0 => owner[jobOf[w]] = w

Over(j, rest) ==
  /\ delivery[j] \notin {"absent", "waiting"}
  /\ \A w \in Workers : jobOf[w] = j => wpc[w] \in rest

OutcomesOver ==
  \A j \in Jobs :
    stalledCount[j] = 0 =>
      /\ status[j] = "failed" => Over(j, {"returned"})
      /\ status[j] = "completed" /\ j \notin undone => Over(j, {"advance", "returned"})

OInv == LockHeld /\ OutcomesOver

LEMMA IssuersKeepOInv ==
  ASSUME TInv, OInv,
         \/ \E i \in Schedulers : Tick(i) \/ PickSchedule(i)
         \/ \E i \in Clients : Request(i) \/ ReadSource(i)
         \/ \E i \in Issuers : \/ \E j \in Jobs : SaveQueued(i, j)
                               \/ Enqueue(i) \/ FailRequest(i) \/ ApiCrash(i)
  PROVE  OInv'
  <1> DEFINE Quiet == /\ UNCHANGED <<owner, stalledCount, wpc, jobOf, undone>>
                      /\ \A j \in Jobs : /\ status'[j] \in {"failed", "completed"} =>
                                              status'[j] = status[j]
                                         /\ delivery[j] \notin {"absent", "waiting"} =>
                                              delivery'[j] = delivery[j]
  <1> USE DEF TInv, TypeOK, Issuers
  <1>1. ASSUME NEW i \in Schedulers, Tick(i) \/ PickSchedule(i) PROVE Quiet
    <2>1. UNCHANGED <<rowVars, queueVars, workerVars, faultVars>>
      BY <1>1 DEF Tick, PickSchedule
    <2>2. QED BY <2>1, PipelineAssumption DEF rowVars, queueVars, workerVars, faultVars
  <1>2. ASSUME NEW i \in Clients, Request(i) \/ ReadSource(i) PROVE Quiet
    BY <1>2, PipelineAssumption
    DEF Request, RunRequest, CloneRequest, ReadSource, rowVars, queueVars,
        workerVars, faultVars
  <1>3. ASSUME NEW i \in Issuers, NEW j \in Jobs, SaveQueued(i, j) PROVE Quiet
    BY <1>3, PipelineAssumption DEF SaveQueued, queueVars, workerVars, faultVars
  <1>4. ASSUME NEW i \in Issuers, Enqueue(i) PROVE Quiet
    BY <1>4, PipelineAssumption DEF Enqueue, IssuersBusy, rowVars, workerVars, faultVars
  <1>5. ASSUME NEW i \in Issuers, FailRequest(i) \/ ApiCrash(i) PROVE Quiet
    BY <1>5, PipelineAssumption DEF FailRequest, ApiCrash, rowVars, queueVars, workerVars
  <1>6. Quiet
    BY <1>1, <1>2, <1>3, <1>4, <1>5
  <1>7. LockHeld'
    BY <1>6 DEF OInv, LockHeld
  <1>8. OutcomesOver'
    BY <1>6 DEF OInv, OutcomesOver, Over
  <1>9. QED BY <1>7, <1>8 DEF OInv

LEMMA WorkersKeepOInv ==
  ASSUME TInv, OInv, NEW w \in Workers,
         WorkerStep(w) \/ WriteFails(w) \/ Crash(w)
  PROVE  OInv'
  <1> USE PipelineAssumption
      DEF OInv, TInv, TypeOK, LockHeld, OutcomesOver, Over, Leave, WorkersBusy, QueueSound
  <1>1. CASE \E j \in Jobs : Take(w, j)
    BY <1>1 DEF Take, rowVars, faultVars
  <1>2. CASE SaveRunning(w)
    BY <1>2 DEF SaveRunning, queueVars, faultVars
  <1>3. CASE Sync(w)
    BY <1>3 DEF Sync, rowVars, queueVars, faultVars
  <1>4. CASE SaveCompleted(w)
    BY <1>4 DEF SaveCompleted, queueVars, faultVars
  <1>5. CASE AdvanceSchedule(w)
    BY <1>5 DEF AdvanceSchedule, rowVars, queueVars, faultVars
  <1>6. CASE SaveFailed(w)
    BY <1>6 DEF SaveFailed, AfterSaveFailed, queueVars, faultVars
  <1>7. CASE WriteFails(w)
    BY <1>7 DEF WriteFails, AfterFailedWrite, rowVars, queueVars
  <1>8. CASE Outcome(w)
    <2>1. jobOf[w] \in Jobs
      BY <1>8 DEF Outcome
    <2>2. LockHeld'
      BY <1>8, <2>1 DEF Outcome
    <2>3. /\ UNCHANGED <<status, stalledCount, undone>>
          /\ \A v \in Workers \ {w} : wpc'[v] = wpc[v] /\ jobOf'[v] = jobOf[v]
          /\ jobOf'[w] = NoJob
      BY <1>8 DEF Outcome, rowVars, faultVars
    <2>4. ASSUME NEW j \in Jobs, delivery[j] \notin {"absent", "waiting"},
                 delivery'[j] \in {"absent", "waiting"}
          PROVE  j = jobOf[w] /\ wpc[w] = "threw"
      BY <1>8, <2>1, <2>4 DEF Outcome
    <2>5. OutcomesOver'
      BY <2>1, <2>3, <2>4
    <2>6. QED BY <2>2, <2>5
  <1>9. CASE Crash(w)
    BY <1>9 DEF Crash, rowVars
  <1>10. QED BY <1>1, <1>2, <1>3, <1>4, <1>5, <1>6, <1>7, <1>8, <1>9 DEF WorkerStep

LEMMA RestKeepsOInv ==
  ASSUME TInv, OInv,
         \/ \E w \in Workers, j \in Jobs :
              SendDeadLetter(w, j) \/ StalledByCrash(w, j) \/ LoseLock(w, j)
         \/ PauseOrResume \/ PeriodPasses \/ UNCHANGED vars
  PROVE  OInv'
  <1> USE PipelineAssumption
      DEF OInv, TInv, TypeOK, LockHeld, OutcomesOver, Over, rowVars, queueVars, workerVars
  <1>1. ASSUME NEW w \in Workers, NEW j \in Jobs, SendDeadLetter(w, j) PROVE OInv'
    BY <1>1 DEF SendDeadLetter, faultVars
  <1>2. ASSUME NEW w \in Workers, NEW j \in Jobs, StalledByCrash(w, j) \/ LoseLock(w, j)
        PROVE OInv'
    <2>1. /\ UNCHANGED <<status, wpc, jobOf, undone>>
          /\ stalledCount' = [stalledCount EXCEPT ![j] = @ + 1] /\ stalledCount'[j] # 0
          /\ \A k \in Jobs \ {j} : delivery'[k] = delivery[k] /\ owner'[k] = owner[k]
      BY <1>2 DEF StalledByCrash, LoseLock, Redeliver
    <2>2. LockHeld'
      BY <2>1 DEF WorkersBusy
    <2>3. OutcomesOver'
      BY <2>1
    <2>4. QED BY <2>2, <2>3
  <1>3. CASE PauseOrResume \/ PeriodPasses \/ UNCHANGED vars
    BY <1>3 DEF PauseOrResume, PeriodPasses, vars, faultVars
  <1>4. QED BY <1>1, <1>2, <1>3

LEMMA OInvInductive == TInv /\ OInv /\ [Next]_vars => OInv'
  BY InsideSteps, IssuersKeepOInv, WorkersKeepOInv, RestKeepsOInv DEF WorkerStep

LEMMA OInvAlways == Spec => []OInv
  <1>1. Init => OInv
    BY PipelineAssumption DEF Init, OInv, LockHeld, OutcomesOver
  <1>2. QED BY <1>1, OInvInductive, TInvAlways, PTL DEF Spec

LEMMA StepKeepsOutcome ==
  ASSUME TInv, OInv, [Next]_vars, NEW j \in Jobs
  PROVE  /\ status[j] = "failed" /\ status'[j] # "failed" => stalledCount[j] > 0
         /\ status[j] = "completed" /\ status'[j] # "completed" =>
              stalledCount[j] > 0 \/ j \in undone
  <1> USE DEF TInv, TypeOK, rowVars
  <1>1. ASSUME NEW w \in Workers, SaveRunning(w) \/ SaveCompleted(w) \/ SaveFailed(w),
               status[j] # status'[j]
        PROVE  j = jobOf[w] /\ wpc[w] \notin {"idle", "returned", "advance"}
    BY <1>1 DEF SaveRunning, SaveCompleted, SaveFailed, Leave
  <1>2. ASSUME NEW w \in Workers, SaveRunning(w) \/ SaveCompleted(w) \/ SaveFailed(w)
        PROVE  /\ status[j] = "failed" /\ status'[j] # "failed" => stalledCount[j] > 0
               /\ status[j] = "completed" /\ status'[j] # "completed" =>
                    stalledCount[j] > 0 \/ j \in undone
    <2>1. stalledCount[j] \in Nat
      BY PipelineAssumption
    <2>2. CASE status[j] = status'[j]
      BY <2>2
    <2>3. CASE status[j] # status'[j]
      <3>1. j = jobOf[w] /\ wpc[w] \notin {"returned", "advance"}
        BY <1>1, <1>2, <2>3
      <3>2. QED BY <2>1, <3>1 DEF OInv, OutcomesOver, Over
    <2>4. QED BY <2>2, <2>3
  <1>3. CASE \/ \E i \in Schedulers : Tick(i) \/ PickSchedule(i)
             \/ \E i \in Clients : Request(i) \/ ReadSource(i)
    <2> HIDE DEF TInv
    <2>1. UNCHANGED rowVars
      BY <1>3, RequestSteps
    <2>2. QED BY <2>1
  <1>4. ASSUME NEW i \in Issuers, NEW k \in Jobs, SaveQueued(i, k)
        PROVE  status[j] # "none" => status'[j] = status[j]
    BY <1>4 DEF SaveQueued
  <1>5. ASSUME NEW i \in Issuers, Enqueue(i) \/ FailRequest(i) \/ ApiCrash(i)
        PROVE  status' = status
    BY <1>5 DEF Enqueue, FailRequest, ApiCrash
  <1>6. CASE UNCHANGED rowVars
    BY <1>6
  <1>7. QED BY <1>2, <1>3, <1>4, <1>5, <1>6, InsideSteps, OutsideSteps

(* A recorded outcome stands unless BullMQ redelivered the job, or the run  *)
(* that recorded the completion failed in a later write of its own.         *)
THEOREM OutcomesStand == Spec => OutcomeStands
  <1>1. TInv /\ OInv /\ [Next]_vars =>
          [\A j \in Jobs :
             /\ status[j] = "failed" /\ status'[j] # "failed" => stalledCount[j] > 0
             /\ status[j] = "completed" /\ status'[j] # "completed" =>
                  stalledCount[j] > 0 \/ j \in undone]_vars
    BY StepKeepsOutcome
  <1>2. QED BY <1>1, TInvAlways, OInvAlways, PTL DEF Spec, OutcomeStands

-----------------------------------------------------------------------------
(* Dead letters.  A job without a dead-letter entry, sent, waiting to be    *)
(* sent or lost with its sender, was neither redelivered nor given up: one  *)
(* worker at most has it, with the lock, and its row is settled before the  *)
(* processor returns; or that worker died and BullMQ has still to notice.   *)
Accounted(j) == Lettered(j) \/ j \in lostLetters

Orderly(j) ==
  /\ delivery[j] # "failed"
  /\ delivery[j] = "completed" => Settled(j)
  /\ \A w \in Workers : jobOf[w] = j =>
       /\ delivery[j] = "active" /\ owner[j] = w
       /\ wpc[w] \in {"advance", "returned"} => Settled(j)

DInv == \A j \in Jobs : Accounted(j) \/ Orderly(j)

(* An entry is never lost but with the worker that has still to send it.    *)
LEMMA LettersStand ==
  ASSUME TInv, [Next]_vars, NEW j \in Jobs, Accounted(j)
  PROVE  Accounted(j)'
  <1> USE DEF TInv, TypeOK, Accounted, Lettered, letterVars
  <1>1. CASE UNCHANGED letterVars
    BY <1>1
  <1>2. CASE \/ \E i \in Schedulers : Tick(i) \/ PickSchedule(i)
             \/ \E i \in Clients : Request(i) \/ ReadSource(i)
             \/ \E i \in Issuers : \/ \E k \in Jobs : SaveQueued(i, k)
                                   \/ Enqueue(i) \/ FailRequest(i) \/ ApiCrash(i)
             \/ \E w \in Workers : \/ SaveRunning(w) \/ SaveCompleted(w) \/ SaveFailed(w)
                                   \/ Sync(w) \/ AdvanceSchedule(w) \/ WriteFails(w)
                                   \/ \E k \in Jobs : Take(w, k)
             \/ PauseOrResume \/ PeriodPasses \/ UNCHANGED vars
    <2>1. UNCHANGED letterVars
      BY <1>2 DEF Tick, PickSchedule, Request, RunRequest, CloneRequest, ReadSource,
         SaveQueued, Enqueue, FailRequest, ApiCrash, SaveRunning, SaveCompleted,
         SaveFailed, Sync, AdvanceSchedule, WriteFails, Take, PauseOrResume,
         PeriodPasses, vars
    <2>2. QED BY <1>1, <2>1
  <1>3. ASSUME NEW w \in Workers, Outcome(w) PROVE Accounted(j)'
    BY <1>3 DEF Outcome, SentOnFailure
  <1>4. ASSUME NEW w \in Workers, Crash(w) PROVE Accounted(j)'
    BY <1>4 DEF Crash
  <1>5. ASSUME NEW w \in Workers, NEW k \in Jobs,
               SendDeadLetter(w, k) \/ StalledByCrash(w, k) \/ LoseLock(w, k)
        PROVE  Accounted(j)'
    BY <1>5 DEF SendDeadLetter, StalledByCrash, LoseLock, Redeliver, SentOnStall
  <1>6. QED BY <1>2, <1>3, <1>4, <1>5, InsideSteps

(* An issuer changes of BullMQ's jobs only that it adds one.                *)
LEMMA IssuersOnlyAdd ==
  ASSUME TInv, NEW j \in Jobs,
         \/ \E i \in Schedulers : Tick(i) \/ PickSchedule(i)
         \/ \E i \in Clients : Request(i) \/ ReadSource(i)
         \/ \E i \in Issuers : \/ \E k \in Jobs : SaveQueued(i, k)
                               \/ Enqueue(i) \/ FailRequest(i) \/ ApiCrash(i)
  PROVE  delivery'[j] = delivery[j] \/ (delivery[j] = "absent" /\ delivery'[j] = "waiting")
  <1>1. ASSUME NEW i \in Issuers, Enqueue(i)
        PROVE  \/ delivery'[j] = delivery[j]
               \/ delivery[j] = "absent" /\ delivery'[j] = "waiting"
    BY <1>1 DEF Enqueue, TInv, TypeOK, IssuersBusy
  <1>2. (\A i \in Issuers : ~Enqueue(i)) => delivery' = delivery
    BY DEF Tick, PickSchedule, Request, RunRequest, CloneRequest, ReadSource,
       SaveQueued, FailRequest, ApiCrash, queueVars
  <1>3. QED BY <1>1, <1>2

(* A job in order stays in order, or gets its entry.                        *)
LEMMA IssuersKeepOrder ==
  ASSUME TInv, NEW j \in Jobs, Orderly(j),
         \/ \E i \in Schedulers : Tick(i) \/ PickSchedule(i)
         \/ \E i \in Clients : Request(i) \/ ReadSource(i)
         \/ \E i \in Issuers : \/ \E k \in Jobs : SaveQueued(i, k)
                               \/ Enqueue(i) \/ FailRequest(i) \/ ApiCrash(i)
  PROVE  Orderly(j)'
  <1> USE DEF TInv, TypeOK, rowVars, queueVars, workerVars
  <1>1. UNCHANGED workerVars /\ owner' = owner
    BY DEF Tick, PickSchedule, Request, RunRequest, CloneRequest, ReadSource,
       SaveQueued, Enqueue, FailRequest, ApiCrash
  <1>2. Settled(j) => Settled(j)'
    BY DEF Tick, PickSchedule, Request, RunRequest, CloneRequest, ReadSource,
       SaveQueued, Enqueue, FailRequest, ApiCrash, Settled
  <1>3. delivery'[j] = delivery[j] \/ (delivery[j] = "absent" /\ delivery'[j] = "waiting")
    BY IssuersOnlyAdd
  <1>4. QED BY <1>1, <1>2, <1>3 DEF Orderly

LEMMA WorkersKeepOrder ==
  ASSUME TInv, NEW j \in Jobs, Orderly(j), NEW w \in Workers,
         WorkerStep(w) \/ WriteFails(w)
  PROVE  Accounted(j)' \/ Orderly(j)'
  <1> USE PipelineAssumption DEF TInv, TypeOK, Leave, rowVars, queueVars, Orderly
  <1>1. ASSUME NEW k \in Jobs, Take(w, k) PROVE Orderly(j)'
    BY <1>1 DEF Take, Settled
  <1>2. CASE Sync(w) \/ AdvanceSchedule(w) \/ WriteFails(w)
    BY <1>2 DEF Sync, AdvanceSchedule, WriteFails, AfterFailedWrite, Settled
  <1>3. CASE SaveRunning(w) \/ SaveCompleted(w) \/ SaveFailed(w)
    <2>1. jobOf[w] \in Jobs
      BY <1>3 DEF SaveRunning, SaveCompleted, SaveFailed, WorkersBusy
    <2>2. jobOf' = jobOf /\ owner' = owner /\ delivery' = delivery
      BY <1>3 DEF SaveRunning, SaveCompleted, SaveFailed
    <2>3. CASE jobOf[w] # j
      <3>1. status'[j] = status[j]
            /\ \A v \in Workers : jobOf[v] = j => wpc'[v] = wpc[v]
        BY <1>3, <2>1, <2>3 DEF SaveRunning, SaveCompleted, SaveFailed
      <3>2. QED BY <2>2, <3>1 DEF Settled
    <2>4. CASE jobOf[w] = j
      <3>1. \A v \in Workers : jobOf[v] = j => v = w
        BY <2>4
      <3>2. delivery[j] = "active" /\ owner[j] = w
        BY <2>4
      <3>3. wpc'[w] \in {"advance", "returned"} => Settled(j)'
        BY <1>3, <2>4 DEF SaveRunning, SaveCompleted, SaveFailed, Settled
      <3>4. QED BY <2>2, <3>1, <3>2, <3>3
    <2>5. QED BY <2>3, <2>4
  <1>4. CASE Outcome(w)
    <2>1. jobOf[w] \in Jobs /\ status' = status
      BY <1>4 DEF Outcome, WorkersBusy
    <2>2. CASE jobOf[w] # j
      BY <1>4, <2>1, <2>2 DEF Outcome, Settled
    <2>3. CASE jobOf[w] = j /\ wpc[w] = "threw"
      BY <1>4, <2>3 DEF Outcome, SentOnFailure, Accounted, Lettered
    <2>4. CASE jobOf[w] = j /\ wpc[w] # "threw"
      <3>1. owner[j] = w /\ Settled(j)
        BY <1>4, <2>4 DEF Outcome
      <3>2. delivery'[j] = "completed" /\ Settled(j)'
        BY <1>4, <2>1, <2>4, <3>1 DEF Outcome, Settled
      <3>3. \A v \in Workers : jobOf'[v] # j
        BY <1>4, <2>4 DEF Outcome
      <3>4. QED BY <3>2, <3>3
    <2>5. QED BY <2>2, <2>3, <2>4
  <1>5. QED BY <1>1, <1>2, <1>3, <1>4 DEF WorkerStep

LEMMA DInvInductive == TInv /\ DInv /\ [Next]_vars => DInv'
  <1> SUFFICES ASSUME TInv, DInv, [Next]_vars, NEW j \in Jobs
               PROVE  Accounted(j)' \/ Orderly(j)'
    BY DEF DInv
  <1>1. CASE Accounted(j)
    BY <1>1, LettersStand
  <1>2. CASE Orderly(j)
    <2>1. ASSUME NEW w \in Workers, Crash(w) PROVE Orderly(j)'
      BY <1>2, <2>1, PipelineAssumption
      DEF Crash, Orderly, Settled, rowVars, TInv, TypeOK, WorkersBusy
    <2>2. ASSUME NEW w \in Workers, NEW k \in Jobs, SendDeadLetter(w, k)
          PROVE  Orderly(j)'
      BY <1>2, <2>2 DEF SendDeadLetter, Orderly, Settled, rowVars, queueVars, workerVars
    <2>3. ASSUME NEW w \in Workers, NEW k \in Jobs, StalledByCrash(w, k) \/ LoseLock(w, k)
          PROVE  Accounted(j)' \/ Orderly(j)'
      <3>1. CASE k = j
        BY <2>3, <3>1 DEF StalledByCrash, LoseLock, Redeliver, SentOnStall, Accounted,
           Lettered, TInv, TypeOK
      <3>2. CASE k # j
        BY <1>2, <2>3, <3>2 DEF StalledByCrash, LoseLock, Redeliver, Orderly, Settled,
           rowVars, workerVars, TInv, TypeOK
      <3>3. QED BY <3>1, <3>2
    <2>4. CASE PauseOrResume \/ PeriodPasses \/ UNCHANGED vars
      BY <1>2, <2>4 DEF PauseOrResume, PeriodPasses, vars, Orderly, Settled, rowVars,
         queueVars, workerVars
    <2>5. QED BY <1>2, <2>1, <2>2, <2>3, <2>4, InsideSteps, IssuersKeepOrder,
                 WorkersKeepOrder DEF WorkerStep
  <1>3. QED BY <1>1, <1>2 DEF DInv

(* No row is stuck unseen: a row that stays queued or running although      *)
(* BullMQ is done with its job has a dead-letter entry, or a worker that    *)
(* has still to send it, or one that died before it had sent it.            *)
THEOREM StuckRowsHaveLetters == Spec => []StuckRowsAreDeadLettered
  <1>1. Init => DInv
    BY PipelineAssumption DEF Init, DInv, Orderly
  <1>2. TInv /\ DInv => StuckRowsAreDeadLettered
    BY DEF DInv, StuckRowsAreDeadLettered, Accounted, Orderly, Settled, TInv, TypeOK
  <1>3. QED BY <1>1, <1>2, DInvInductive, TInvAlways, PTL DEF Spec

-----------------------------------------------------------------------------
(* BullMQ's counters.  A lock belongs to the worker that has the job; each  *)
(* failed attempt was a failed write, one more than the counter shows while *)
(* a processor has thrown and BullMQ has not recorded it; each stall was a  *)
(* fault, one more while a job is active without a lock.                    *)
LocksInHand == \A j \in Jobs : owner[j] # NoWorker => jobOf[owner[j]] = j

Throwing(j) == owner[j] # NoWorker /\ wpc[owner[j]] = "threw"
Abandoned(j) == delivery[j] = "active" /\ owner[j] = NoWorker

Tally(j) ==
  /\ attemptsMade[j] <= dbFailures
  /\ Throwing(j) => attemptsMade[j] < dbFailures
  /\ stalledCount[j] <= crashes + lockLosses
  /\ Abandoned(j) => stalledCount[j] < crashes + lockLosses
  /\ delivery[j] = "failed" =>
       attemptsMade[j] >= MaxAttempts \/ stalledCount[j] > MaxStalledCount
  /\ Lettered(j) => attemptsMade[j] > 0 \/ stalledCount[j] > 0

CInv == LocksInHand /\ \A j \in Jobs : Tally(j)

(* The counters are natural numbers.                                        *)
LEMMA CountersAreNaturals ==
  ASSUME TInv
  PROVE  /\ dbFailures \in Nat /\ crashes \in Nat /\ lockLosses \in Nat
         /\ \A j \in Jobs : attemptsMade[j] \in Nat /\ stalledCount[j] \in Nat
  BY PipelineAssumption DEF TInv, TypeOK

(* A step that touches neither the locks, the counters, the workers nor the *)
(* letters, and of BullMQ's jobs only adds one.                             *)
LEMMA AsideKeepsCInv ==
  ASSUME TInv, CInv, UNCHANGED <<owner, stalledCount, attemptsMade, jobOf, letterVars>>,
         crashes' = crashes, lockLosses' = lockLosses,
         dbFailures' \in Nat, dbFailures <= dbFailures',
         \A w \in Workers : wpc'[w] = "threw" => wpc[w] = "threw" \/ dbFailures < dbFailures',
         \A j \in Jobs : delivery'[j] = delivery[j] \/ delivery'[j] = "waiting"
  PROVE  CInv'
  <1>1. LocksInHand'
    BY DEF CInv, LocksInHand
  <1>2. ASSUME NEW j \in Jobs PROVE Tally(j)'
    <2>1. Tally(j) /\ owner[j] \in Workers \cup {NoWorker}
      BY DEF CInv, TInv, TypeOK
    <2>2. Throwing(j)' => attemptsMade[j] < dbFailures'
      BY <2>1, CountersAreNaturals DEF Tally, Throwing
    <2>3. Abandoned(j)' => Abandoned(j)
      BY DEF Abandoned
    <2>4. Lettered(j)' = Lettered(j)
      BY DEF Lettered, letterVars
    <2>5. attemptsMade'[j] = attemptsMade[j] /\ stalledCount'[j] = stalledCount[j]
      OBVIOUS
    <2>6. attemptsMade[j] <= dbFailures'
      BY <2>1, CountersAreNaturals DEF Tally
    <2>7. delivery'[j] = "failed" => delivery[j] = "failed"
      OBVIOUS
    <2>8. QED BY <2>1, <2>2, <2>3, <2>4, <2>5, <2>6, <2>7 DEF Tally
  <1>3. QED BY <1>1, <1>2 DEF CInv

LEMMA IssuersKeepCInv ==
  ASSUME TInv, CInv,
         \/ \E i \in Schedulers : Tick(i) \/ PickSchedule(i)
         \/ \E i \in Clients : Request(i) \/ ReadSource(i)
         \/ \E i \in Issuers : \/ \E j \in Jobs : SaveQueued(i, j)
                               \/ Enqueue(i) \/ FailRequest(i) \/ ApiCrash(i)
         \/ PauseOrResume \/ PeriodPasses \/ UNCHANGED vars
  PROVE  CInv'
  <1>1. /\ UNCHANGED <<owner, stalledCount, attemptsMade, jobOf, wpc, letterVars>>
        /\ crashes' = crashes /\ lockLosses' = lockLosses
        /\ dbFailures' \in Nat /\ dbFailures <= dbFailures'
    <2> USE CountersAreNaturals DEF queueVars, workerVars, faultVars
    <2>1. CASE \/ \E i \in Schedulers : Tick(i) \/ PickSchedule(i)
               \/ \E i \in Clients : Request(i) \/ ReadSource(i)
      <3>1. UNCHANGED <<queueVars, workerVars, letterVars, faultVars>>
        BY <2>1 DEF Tick, PickSchedule, Request, RunRequest, CloneRequest, ReadSource
      <3>2. QED BY <3>1
    <2>2. CASE \E i \in Issuers : \/ \E j \in Jobs : SaveQueued(i, j)
                                  \/ Enqueue(i) \/ FailRequest(i) \/ ApiCrash(i)
      BY <2>2 DEF SaveQueued, Enqueue, FailRequest, ApiCrash
    <2>3. CASE PauseOrResume \/ PeriodPasses \/ UNCHANGED vars
      BY <2>3 DEF PauseOrResume, PeriodPasses, vars
    <2>4. QED BY <2>1, <2>2, <2>3
  <1>2. \A j \in Jobs : delivery'[j] = delivery[j] \/ delivery'[j] = "waiting"
    <2>1. PauseOrResume \/ PeriodPasses \/ UNCHANGED vars => delivery' = delivery
      BY DEF PauseOrResume, PeriodPasses, vars, queueVars
    <2>2. QED BY <2>1, IssuersOnlyAdd
  <1>3. QED BY <1>1, <1>2, AsideKeepsCInv

LEMMA RunsKeepCInv ==
  ASSUME TInv, CInv, NEW w \in Workers,
         \/ SaveRunning(w) \/ SaveCompleted(w) \/ SaveFailed(w)
         \/ Sync(w) \/ AdvanceSchedule(w) \/ WriteFails(w)
  PROVE  CInv'
  <1>1. /\ UNCHANGED <<owner, stalledCount, attemptsMade, jobOf, letterVars, delivery>>
        /\ crashes' = crashes /\ lockLosses' = lockLosses
    BY DEF SaveRunning, SaveCompleted, SaveFailed, Sync, AdvanceSchedule, WriteFails,
       queueVars, faultVars
  <1>2. CASE WriteFails(w)
    <2>1. dbFailures' = dbFailures + 1
      BY <1>2 DEF WriteFails
    <2>2. dbFailures' \in Nat /\ dbFailures < dbFailures' /\ dbFailures <= dbFailures'
      BY <2>1, CountersAreNaturals
    <2>3. QED BY <1>1, <2>2, AsideKeepsCInv
  <1>3. CASE ~WriteFails(w)
    <2>1. dbFailures' = dbFailures
      BY <1>3 DEF SaveRunning, SaveCompleted, SaveFailed, Sync, AdvanceSchedule, faultVars
    <2>2. \A v \in Workers : wpc'[v] = "threw" => wpc[v] = "threw"
      BY <1>3 DEF SaveRunning, SaveCompleted, SaveFailed, Sync, AdvanceSchedule, Leave,
         AfterSaveFailed, TInv, TypeOK
    <2>3. dbFailures' \in Nat /\ dbFailures <= dbFailures'
      BY <2>1, CountersAreNaturals
    <2>4. QED BY <1>1, <2>2, <2>3, AsideKeepsCInv
  <1>4. QED BY <1>2, <1>3

LEMMA TakeKeepsCInv ==
  ASSUME TInv, CInv, NEW w \in Workers, NEW k \in Jobs, Take(w, k)
  PROVE  CInv'
  <1> USE PipelineAssumption DEF Take, Leave
  <1>1. LocksInHand'
    BY DEF CInv, LocksInHand, TInv, TypeOK, WorkersBusy
  <1>2. ASSUME NEW j \in Jobs PROVE Tally(j)'
    <2>1. Tally(j) /\ UNCHANGED <<stalledCount, attemptsMade, faultVars, letterVars>>
      BY DEF CInv
    <2>2. Throwing(j)' => Throwing(j)
      BY DEF Throwing, TInv, TypeOK
    <2>3. Abandoned(j)' => Abandoned(j)
      BY DEF Abandoned, TInv, TypeOK
    <2>4. Lettered(j)' = Lettered(j)
      BY <2>1 DEF Lettered, letterVars
    <2>5. delivery'[j] = "failed" => delivery[j] = "failed"
      BY DEF TInv, TypeOK
    <2> HIDE DEF Take
    <2>6. QED BY <2>1, <2>2, <2>3, <2>4, <2>5 DEF Tally, faultVars
  <1>3. QED BY <1>1, <1>2 DEF CInv

LEMMA OutcomeKeepsCInv ==
  ASSUME TInv, CInv, NEW w \in Workers, Outcome(w)
  PROVE  CInv'
  <1> DEFINE k == jobOf[w]
             mine == owner[k] = w
             threw == wpc[w] = "threw"
  <1>1. k \in Jobs /\ w # NoWorker
    BY PipelineAssumption DEF Outcome, TInv, WorkersBusy
  <1>2. LocksInHand'
    BY <1>1 DEF Outcome, CInv, LocksInHand, TInv, TypeOK
  <1>3. ASSUME NEW j \in Jobs PROVE Tally(j)'
    <2>1. /\ Tally(j) /\ stalledCount' = stalledCount /\ deadLetters' = deadLetters
          /\ dbFailures' = dbFailures /\ crashes' = crashes /\ lockLosses' = lockLosses
      BY DEF CInv, Outcome, faultVars
    <2>2. Throwing(j)' => Throwing(j) /\ (j # k \/ ~mine)
      BY <1>1 DEF Outcome, Throwing, TInv, TypeOK
    <2>3. CASE j # k \/ ~mine
      <3>1. /\ attemptsMade'[j] = attemptsMade[j] /\ delivery'[j] = delivery[j]
            /\ owner'[j] = owner[j]
        BY <1>1, <2>3 DEF Outcome, TInv, TypeOK
      <3>2. Lettered(j)' => Lettered(j)
        BY <1>1, <2>3 DEF Outcome, SentOnFailure, Lettered, TInv, TypeOK
      <3>3. QED BY <2>1, <2>2, <3>1, <3>2 DEF Tally, Abandoned
    <2>4. CASE j = k /\ mine /\ ~threw
      <3>1. /\ attemptsMade'[j] = attemptsMade[j] /\ delivery'[j] = "completed"
            /\ outbox' = outbox
        BY <1>1, <2>4 DEF Outcome, TInv, TypeOK
      <3>2. QED BY <2>1, <2>2, <2>4, <3>1 DEF Tally, Abandoned, Lettered
    <2>5. CASE j = k /\ mine /\ threw
      <3>1. /\ attemptsMade'[j] = attemptsMade[j] + 1
            /\ delivery'[j] = IF attemptsMade[j] + 1 < MaxAttempts
                              THEN "waiting" ELSE "failed"
        BY <1>1, <2>5 DEF Outcome, TInv, TypeOK
      <3>2. Throwing(j)
        BY <1>1, <2>5 DEF Throwing
      <3>3. attemptsMade[j] \in Nat /\ stalledCount[j] \in Nat /\ dbFailures \in Nat
        BY CountersAreNaturals
      <3>4. QED
        BY <2>1, <2>2, <2>5, <3>1, <3>2, <3>3, PipelineAssumption DEF Tally, Abandoned
    <2>6. QED BY <2>3, <2>4, <2>5
  <1>4. QED BY <1>2, <1>3 DEF CInv

LEMMA CrashKeepsCInv ==
  ASSUME TInv, CInv, NEW w \in Workers, Crash(w)
  PROVE  CInv'
  <1>1. LocksInHand'
    BY PipelineAssumption DEF Crash, CInv, LocksInHand, TInv, TypeOK
  <1>2. ASSUME NEW j \in Jobs PROVE Tally(j)'
    <2>1. /\ Tally(j) /\ crashes' = crashes + 1
          /\ UNCHANGED <<stalledCount, attemptsMade, dbFailures, lockLosses, delivery>>
      BY DEF CInv, Crash
    <2>2. Throwing(j)' => Throwing(j)
      BY PipelineAssumption DEF Crash, Throwing, TInv, TypeOK
    <2>3. Lettered(j)' => Lettered(j)
      BY DEF Crash, Lettered, TInv, TypeOK
    <2>4. QED BY <2>1, <2>2, <2>3, CountersAreNaturals DEF Tally
  <1>3. QED BY <1>1, <1>2 DEF CInv

LEMMA RedeliverKeepsCInv ==
  ASSUME TInv, CInv, NEW v \in Workers, NEW k \in Jobs,
         StalledByCrash(v, k) \/ LoseLock(v, k)
  PROVE  CInv'
  <1> USE DEF StalledByCrash, LoseLock, Redeliver
  <1>1. LocksInHand'
    BY DEF CInv, LocksInHand, workerVars, TInv, TypeOK
  <1>2. ASSUME NEW j \in Jobs PROVE Tally(j)'
    <2>1. /\ Tally(j) /\ UNCHANGED <<attemptsMade, dbFailures, crashes, deadLetters, wpc>>
          /\ lockLosses' \in {lockLosses, lockLosses + 1}
      BY DEF CInv, workerVars
    <2>2. lockLosses' \in Nat /\ lockLosses <= lockLosses'
      BY <2>1, CountersAreNaturals
    <2>3. CASE j # k
      <3>1. /\ stalledCount'[j] = stalledCount[j] /\ delivery'[j] = delivery[j]
            /\ owner'[j] = owner[j]
        BY <2>3 DEF TInv, TypeOK
      <3>2. Lettered(j)' => Lettered(j)
        BY <2>1, <2>3 DEF Lettered, SentOnStall, TInv, TypeOK
      <3>3. (Throwing(j)' => Throwing(j)) /\ (Abandoned(j)' => Abandoned(j))
        BY <2>1, <3>1 DEF Throwing, Abandoned
      <3> HIDE DEF StalledByCrash, LoseLock
      <3>4. QED BY <2>1, <2>2, <3>1, <3>2, <3>3, CountersAreNaturals DEF Tally
    <2>4. CASE j = k
      <3>1. /\ stalledCount'[j] = stalledCount[j] + 1
            /\ delivery'[j] = IF stalledCount[j] < MaxStalledCount
                              THEN "waiting" ELSE "failed"
            /\ owner'[j] = NoWorker
        BY <2>4 DEF TInv, TypeOK
      <3>2. ~Throwing(j)' /\ ~Abandoned(j)'
        BY <3>1 DEF Throwing, Abandoned
      <3>3. \/ Abandoned(j) /\ lockLosses' = lockLosses
            \/ lockLosses' = lockLosses + 1
        BY <2>4 DEF Abandoned
      <3> HIDE DEF StalledByCrash, LoseLock
      <3>4. QED
        BY <2>1, <3>1, <3>2, <3>3, CountersAreNaturals, PipelineAssumption DEF Tally
    <2>5. QED BY <2>3, <2>4
  <1>3. QED BY <1>1, <1>2 DEF CInv

LEMMA LettersKeepCInv ==
  ASSUME TInv, CInv, NEW w \in Workers, NEW k \in Jobs, SendDeadLetter(w, k)
  PROVE  CInv'
  <1>1. UNCHANGED <<queueVars, workerVars, faultVars>>
    BY DEF SendDeadLetter
  <1>2. ASSUME NEW j \in Jobs PROVE Lettered(j)' => Lettered(j)
    BY DEF SendDeadLetter, Lettered, TInv, TypeOK
  <1>3. ASSUME NEW j \in Jobs PROVE Tally(j)'
    <2>1. Tally(j) /\ (Throwing(j)' <=> Throwing(j)) /\ (Abandoned(j)' <=> Abandoned(j))
      BY <1>1 DEF CInv, Throwing, Abandoned, queueVars, workerVars
    <2>2. QED BY <1>1, <1>2, <2>1 DEF Tally, queueVars, faultVars
  <1>4. QED BY <1>1, <1>3 DEF CInv, LocksInHand, queueVars, workerVars

LEMMA CInvInductive == TInv /\ CInv /\ [Next]_vars => CInv'
  BY InsideSteps, IssuersKeepCInv, RunsKeepCInv, TakeKeepsCInv, OutcomeKeepsCInv,
     CrashKeepsCInv, RedeliverKeepsCInv, LettersKeepCInv

LEMMA CInvAlways == Spec => []CInv
  <1>1. Init => CInv
    <2> SUFFICES ASSUME Init PROVE CInv
      OBVIOUS
    <2>1. ASSUME NEW j \in Jobs PROVE Tally(j)
      BY PipelineAssumption DEF Init, Tally, Throwing, Abandoned, Lettered
    <2>2. QED BY <2>1 DEF Init, CInv, LocksInHand
  <1>2. QED BY <1>1, CInvInductive, TInvAlways, PTL DEF Spec

(* BullMQ's attempts and redeliveries count faults around a sync, never the *)
(* failures of the sync itself.                                             *)
THEOREM CountersAreFaults == Spec => []CountersCountFaults
  <1>1. CInv => CountersCountFaults
    BY DEF CInv, Tally, CountersCountFaults
  <1>2. QED BY <1>1, CInvAlways, PTL

(* BullMQ gives no job up before as many failed writes as the job has       *)
(* attempts, or more deaths and lost locks than the redeliveries it allows. *)
THEOREM GivingUpTakesFaults == Spec => []GivenUpForFaults
  <1>1. ASSUME TInv, CInv PROVE GivenUpForFaults
    <2>1. SUFFICES ASSUME NEW j \in Jobs, delivery[j] = "failed"
                   PROVE  dbFailures >= MaxAttempts \/ crashes + lockLosses > MaxStalledCount
      BY DEF GivenUpForFaults
    <2>2. Tally(j)
      BY <1>1 DEF CInv
    <2>3. QED BY <1>1, <2>1, <2>2, CountersAreNaturals, PipelineAssumption DEF Tally
  <1>2. TInv /\ CInv => GivenUpForFaults
    BY <1>1
  <1>3. QED BY <1>2, CInvAlways, TInvAlways, PTL

(* A dead letter is of a job with a failed attempt or a stalled run of its  *)
(* own: a job whose sync failed gets none.                                  *)
THEOREM LettersAreCaused == Spec => []LettersHaveCauses
  <1>1. CInv => LettersHaveCauses
    BY DEF CInv, Tally, Lettered, LettersHaveCauses
  <1>2. QED BY <1>1, CInvAlways, PTL

-----------------------------------------------------------------------------
(* The two stores.  While a job has not been found stalled, the processor   *)
(* returns only after it has written an outcome to the row.                 *)
Concluded(j) ==
  stalledCount[j] = 0 =>
    /\ delivery[j] = "completed" => Settled(j)
    /\ \A w \in Workers :
         jobOf[w] = j /\ wpc[w] \in {"advance", "returned"} => Settled(j)

LEMMA WorkersConclude ==
  ASSUME TInv, OInv, NEW j \in Jobs, Concluded(j), NEW w \in Workers,
         WorkerStep(w) \/ WriteFails(w) \/ Crash(w)
  PROVE  Concluded(j)'
  <1> USE PipelineAssumption
      DEF TInv, TypeOK, WorkersBusy, QueueSound, OInv, LockHeld, Leave, Concluded
  <1>1. CASE \E k \in Jobs : Take(w, k)
    BY <1>1 DEF Take, Settled, rowVars
  <1>2. CASE Sync(w) \/ AdvanceSchedule(w) \/ WriteFails(w)
    BY <1>2 DEF Sync, AdvanceSchedule, WriteFails, AfterFailedWrite, Settled, rowVars,
       queueVars
  <1>3. CASE SaveRunning(w)
    BY <1>3 DEF SaveRunning, Settled, queueVars
  <1>4. CASE SaveCompleted(w) \/ SaveFailed(w)
    BY <1>4 DEF SaveCompleted, SaveFailed, Settled, queueVars
  <1>5. CASE Outcome(w)
    BY <1>5 DEF Outcome, Settled, rowVars
  <1>6. CASE Crash(w)
    BY <1>6 DEF Crash, Settled, rowVars
  <1>7. QED BY <1>1, <1>2, <1>3, <1>4, <1>5, <1>6 DEF WorkerStep

LEMMA IssuersConclude ==
  ASSUME TInv, NEW j \in Jobs, Concluded(j),
         \/ \E i \in Schedulers : Tick(i) \/ PickSchedule(i)
         \/ \E i \in Clients : Request(i) \/ ReadSource(i)
         \/ \E i \in Issuers : \/ \E k \in Jobs : SaveQueued(i, k)
                               \/ Enqueue(i) \/ FailRequest(i) \/ ApiCrash(i)
  PROVE  Concluded(j)'
  <1>1. UNCHANGED <<workerVars, stalledCount>>
    BY DEF Tick, PickSchedule, Request, RunRequest, CloneRequest, ReadSource,
       SaveQueued, Enqueue, FailRequest, ApiCrash, queueVars
  <1>2. Settled(j) => Settled(j)'
    BY DEF Tick, PickSchedule, Request, RunRequest, CloneRequest, ReadSource,
       SaveQueued, Enqueue, FailRequest, ApiCrash, Settled, TInv, TypeOK, rowVars
  <1>3. delivery'[j] = "completed" => delivery[j] = "completed"
    BY IssuersOnlyAdd
  <1>4. QED BY <1>1, <1>2, <1>3 DEF Concluded, workerVars

LEMMA RestConcludes ==
  ASSUME TInv, NEW j \in Jobs, Concluded(j),
         \/ \E w \in Workers, k \in Jobs :
              SendDeadLetter(w, k) \/ StalledByCrash(w, k) \/ LoseLock(w, k)
         \/ PauseOrResume \/ PeriodPasses \/ UNCHANGED vars
  PROVE  Concluded(j)'
  <1>1. ASSUME NEW w \in Workers, NEW k \in Jobs, StalledByCrash(w, k) \/ LoseLock(w, k)
        PROVE  Concluded(j)'
    BY <1>1 DEF StalledByCrash, LoseLock, Redeliver, Concluded, Settled, TInv, TypeOK,
       rowVars, workerVars
  <1>2. CASE \/ \E w \in Workers, k \in Jobs : SendDeadLetter(w, k)
             \/ PauseOrResume \/ PeriodPasses \/ UNCHANGED vars
    BY <1>2 DEF SendDeadLetter, PauseOrResume, PeriodPasses, vars, Concluded, Settled,
       rowVars, queueVars, workerVars
  <1>3. QED BY <1>1, <1>2

(* When BullMQ has a job completed that it never found stalled, the row of  *)
(* the job says completed or failed.                                        *)
THEOREM CompletedJobsSettled == Spec => []CompletedJobsAreSettled
  <1> DEFINE I == \A j \in Jobs : Concluded(j)
  <1>1. Init => I
    BY DEF Init, Concluded
  <1>2. TInv /\ OInv /\ I /\ [Next]_vars => I'
    BY InsideSteps, WorkersConclude, IssuersConclude, RestConcludes DEF WorkerStep
  <1>3. I => CompletedJobsAreSettled
    BY DEF Concluded, CompletedJobsAreSettled
  <1> HIDE DEF I
  <1>4. QED BY <1>1, <1>2, <1>3, TInvAlways, OInvAlways, PTL DEF Spec
=============================================================================
